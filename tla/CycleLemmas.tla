---------------------------- MODULE CycleLemmas ----------------------------
(***************************************************************************)
(* What the operations of a cycle preserve: lemmas about the operators of  *)
(* Cycle, for every set of elements and every well-formed cycle.           *)
(***************************************************************************)
EXTENDS Cycle, SequenceTheorems, FiniteSetTheorems, WellFoundedInduction, TLAPS

----------------------------------------------------------------------------
(* std::remove on a sequence without duplicates.                           *)

\* An interval without one of its members.
LEMMA PuncturedInterval ==
  ASSUME NEW n \in Nat, NEW k \in 1..n
  PROVE  Cardinality((1..n) \ {k}) = n - 1
<1>1. IsFiniteSet(1..n) /\ Cardinality(1..n) = n
  BY FS_Interval
<1>2. Cardinality((1..n) \ {k})
        = IF k \in 1..n THEN Cardinality(1..n) - 1 ELSE Cardinality(1..n)
  BY <1>1, FS_RemoveElement, Zenon
<1>3. QED
  BY <1>1, <1>2

\* What is kept of a sequence: the elements at the positions kept, and each of
\* them once for each of its positions.
LEMMA KeptFacts ==
  ASSUME NEW S, NEW s \in Seq(S), NEW kept, kept \subseteq DOMAIN s
  PROVE  /\ Kept(s, kept) \in Seq(S)
         /\ Len(Kept(s, kept)) = Cardinality(kept)
         /\ Range(Kept(s, kept)) = {s[i] : i \in kept}
         /\ IsDistinct(s) => IsDistinct(Kept(s, kept))
<1> DEFINE upto(i) == {k \in kept : k <= i}
           n == Cardinality(kept)
           rank == [i \in kept |-> Cardinality(upto(i))]
           nth(j) == CHOOSE i \in kept : Cardinality(upto(i)) = j
           t == [j \in 1..n |-> s[nth(j)]]
<1>1. DOMAIN s = 1..Len(s) /\ Len(s) \in Nat /\ kept \subseteq 1..Len(s)
  OBVIOUS
<1>2. IsFiniteSet(kept) /\ n \in Nat
  <2>1. IsFiniteSet(1..Len(s)) BY <1>1, FS_Interval
  <2>2. IsFiniteSet(kept) BY <1>1, <2>1, FS_Subset
  <2> QED BY <2>2, FS_CardinalityType
<1>3. ASSUME NEW i \in kept
      PROVE  IsFiniteSet(upto(i)) /\ Cardinality(upto(i)) \in 1..n
  <2>1. IsFiniteSet(upto(i)) /\ Cardinality(upto(i)) <= n
    BY <1>2, FS_Subset
  <2>2. Cardinality(upto(i)) \in Nat
    BY <2>1, FS_CardinalityType
  <2>3. i \in upto(i)
    BY <1>1
  <2>4. Cardinality(upto(i)) # 0
    <3> HIDE DEF upto
    <3> QED BY <2>1, <2>3, FS_EmptySet
  <2> QED BY <1>2, <2>1, <2>2, <2>4
<1>4. ASSUME NEW i \in kept, NEW k \in kept, i < k
      PROVE  Cardinality(upto(i)) < Cardinality(upto(k))
  <2>1. upto(i) \subseteq upto(k) /\ k \in upto(k) /\ k \notin upto(i)
    BY <1>1, <1>4
  <2> HIDE DEF upto
  <2>2. IsFiniteSet(upto(k)) BY <1>3
  <2> QED BY <2>1, <2>2, FS_Subset, <1>3
<1>5. rank \in Injection(kept, 1..n)
  <2>1. rank \in [kept -> 1..n]
    <3> HIDE DEF upto, n
    <3> QED BY <1>3
  <2>2. ASSUME NEW i \in kept, NEW k \in kept, rank[i] = rank[k] PROVE i = k
    <3>1. i \in Nat /\ k \in Nat BY <1>1
    <3>2. rank[i] \in 1..n /\ rank[k] \in 1..n BY <2>1
    <3> HIDE DEF upto
    <3>3. Cardinality(upto(i)) = Cardinality(upto(k)) /\ Cardinality(upto(i)) \in Nat
      BY <2>2, <3>2
    <3> HIDE DEF rank
    <3>4. ~(i < k) /\ ~(k < i) BY <3>3, <1>4
    <3> QED BY <3>1, <3>4
  <2> HIDE DEF rank
  <2> QED BY <2>1, <2>2 DEF Injection, IsInjective
<1>6. rank \in Surjection(kept, 1..n)
  <2>1. IsFiniteSet(1..n) /\ Cardinality(1..n) = n BY <1>2, FS_Interval
  <2> HIDE DEF rank
  <2> QED BY <1>2, <1>5, <2>1, FS_Injection
<1>7. ASSUME NEW j \in 1..n
      PROVE  nth(j) \in kept /\ Cardinality(upto(nth(j))) = j
  <2>1. \E i \in kept : rank[i] = j
    <3> HIDE DEF rank
    <3> QED BY <1>6 DEF Surjection
  <2>2. \E i \in kept : Cardinality(upto(i)) = j
    <3> HIDE DEF upto
    <3> QED BY <2>1
  <2> HIDE DEF upto
  <2> QED BY <2>2
<1>8. ASSUME NEW i \in kept PROVE nth(Cardinality(upto(i))) = i
  <2>1. Cardinality(upto(i)) \in 1..n BY <1>3
  <2> HIDE DEF upto, n
  <2>2. /\ nth(Cardinality(upto(i))) \in kept
        /\ Cardinality(upto(nth(Cardinality(upto(i))))) = Cardinality(upto(i))
    BY <1>7, <2>1
  <2> HIDE DEF nth
  <2>3. rank[nth(Cardinality(upto(i)))] = rank[i] BY <2>2
  <2> HIDE DEF rank
  <2> QED BY <1>5, <2>2, <2>3 DEF Injection, IsInjective
<1> HIDE DEF nth
<1>9. t \in Seq(S) /\ Len(t) = n /\ DOMAIN t = 1..n
  <2> HIDE DEF upto, n
  <2>1. \A j \in 1..n : s[nth(j)] \in S BY <1>1, <1>7
  <2> QED BY <1>2, <2>1
<1>10. Range(t) = {s[i] : i \in kept}
  <2> HIDE DEF upto, n
  <2>1. ASSUME NEW i \in kept PROVE s[i] \in Range(t)
    <3> DEFINE j == Cardinality(upto(i))
    <3>1. j \in 1..n /\ t[j] = s[i] BY <1>3, <1>8
    <3> QED BY <1>9, <3>1 DEF Range
  <2>2. ASSUME NEW x \in Range(t) PROVE x \in {s[i] : i \in kept}
    <3>1. PICK j \in 1..n : x = t[j] BY <1>9 DEF Range
    <3> QED BY <3>1, <1>7
  <2> HIDE DEF t
  <2> QED BY <2>1, <2>2
<1>11. IsDistinct(s) => IsDistinct(t)
  <2> SUFFICES ASSUME IsDistinct(s), NEW j \in 1..n, NEW k \in 1..n, t[j] = t[k]
               PROVE  j = k
    BY <1>9 DEF IsDistinct
  <2> HIDE DEF upto, n
  <2>1. s[nth(j)] = s[nth(k)] OBVIOUS
  <2>2. nth(j) = nth(k) BY <1>1, <1>7, <2>1 DEF IsDistinct
  <2> QED BY <1>7, <2>2
<1>12. Kept(s, kept) = t
  BY DEF Kept, nth
<1> HIDE DEF t, upto, rank
<1> QED BY <1>9, <1>10, <1>11, <1>12

\* Removing what is not there changes nothing.
LEMMA EraseAbsent ==
  ASSUME NEW S, NEW s \in Seq(S), NEW e, e \notin Range(s)
  PROVE  EraseRemove(s, e) = s
<1> DEFINE kept   == {i \in DOMAIN s : s[i] # e}
           upto(i) == {k \in kept : k <= i}
           nth(j) == CHOOSE i \in kept : Cardinality(upto(i)) = j
<1>1. DOMAIN s = 1..Len(s) /\ Len(s) \in Nat
  OBVIOUS
<1>2. kept = 1..Len(s)
  BY <1>1 DEF Range
<1>3. Cardinality(kept) = Len(s)
  <2>1. Cardinality(1..Len(s)) = Len(s)
    BY <1>1, FS_Interval
  <2>2. QED
    BY <1>2, <2>1
<1>4. ASSUME NEW i \in 1..Len(s)
      PROVE  Cardinality(upto(i)) = i
  <2>1. upto(i) = 1..i
    BY <1>1, <1>2
  <2>2. Cardinality(1..i) = i
    BY <1>1, FS_Interval
  <2>3. QED
    BY <2>1, <2>2
<1>5. ASSUME NEW j \in 1..Len(s)
      PROVE  nth(j) = j
  <2> HIDE DEF upto, kept
  <2>1. QED
    BY <1>2, <1>4
<1> HIDE DEF nth
<1>6. [j \in 1..Cardinality(kept) |-> s[nth(j)]] = [j \in 1..Len(s) |-> s[j]]
  BY <1>3, <1>5
<1>7. [j \in 1..Len(s) |-> s[j]] = s
  OBVIOUS
<1>8. QED
  BY <1>6, <1>7 DEF EraseRemove, Kept, nth

\* Removing the element at position k closes the gap: what stood before it
\* stays, what stood after it moves down by one.
LEMMA ErasePresent ==
  ASSUME NEW S, NEW s \in Seq(S), IsDistinct(s), NEW k \in DOMAIN s
  PROVE  EraseRemove(s, s[k]) =
           [j \in 1..(Len(s) - 1) |-> IF j < k THEN s[j] ELSE s[j + 1]]
<1> DEFINE e      == s[k]
           kept   == {i \in DOMAIN s : s[i] # e}
           upto(i) == {m \in kept : m <= i}
           nth(j) == CHOOSE i \in kept : Cardinality(upto(i)) = j
<1>1. DOMAIN s = 1..Len(s) /\ Len(s) \in Nat
  OBVIOUS
<1>2. kept = (1..Len(s)) \ {k}
  BY <1>1 DEF IsDistinct
<1>3. Cardinality(kept) = Len(s) - 1
  <2>1. Cardinality((1..Len(s)) \ {k}) = Len(s) - 1
    BY <1>1, PuncturedInterval
  <2>2. QED
    BY <1>2, <2>1
<1>4. ASSUME NEW i \in kept
      PROVE  Cardinality(upto(i)) = IF i < k THEN i ELSE i - 1
  <2>1. Cardinality(1..i) = i
    BY <1>1, <1>2, FS_Interval
  <2>2. CASE i < k
    <3>1. upto(i) = 1..i
      BY <1>1, <1>2, <2>2
    <3>2. QED
      BY <2>1, <2>2, <3>1
  <2>3. CASE ~(i < k)
    <3>1. upto(i) = (1..i) \ {k}
      BY <1>1, <1>2, <2>3
    <3>2. k \in 1..i
      BY <1>1, <1>2, <2>3
    <3>3. Cardinality((1..i) \ {k}) = i - 1
      BY <1>2, <3>2, PuncturedInterval
    <3>4. QED
      BY <2>3, <3>1, <3>3
  <2>4. QED
    BY <2>2, <2>3
<1>5. ASSUME NEW j \in 1..(Len(s) - 1)
      PROVE  nth(j) = IF j < k THEN j ELSE j + 1
  <2> DEFINE n == IF j < k THEN j ELSE j + 1
  <2>1. n \in kept /\ Cardinality(upto(n)) = j
    <3>1. n \in kept
      BY <1>1, <1>2
    <3>2. QED
      BY <1>1, <3>1, <1>4
  <2>2. ASSUME NEW i \in kept, Cardinality(upto(i)) = j
        PROVE  i = n
    <3> HIDE DEF upto
    <3>1. j = IF i < k THEN i ELSE i - 1
      BY <1>4, <2>2
    <3>2. i \in (1..Len(s)) \ {k}
      BY <1>2
    <3>3. QED
      BY <1>1, <3>1, <3>2
  <2> HIDE DEF kept, upto, n
  <2>3. QED
    BY <2>1, <2>2 DEF n
<1> HIDE DEF nth
<1>6. [j \in 1..Cardinality(kept) |-> s[nth(j)]]
        = [j \in 1..(Len(s) - 1) |-> IF j < k THEN s[j] ELSE s[j + 1]]
  BY <1>1, <1>3, <1>5
<1>7. QED
  BY <1>6 DEF EraseRemove, Kept, nth

\* Removal from a sequence without duplicates takes that one element out.
LEMMA EraseFacts ==
  ASSUME NEW S, NEW s \in Seq(S), IsDistinct(s), NEW e
  PROVE  /\ EraseRemove(s, e) \in Seq(S)
         /\ IsDistinct(EraseRemove(s, e))
         /\ Range(EraseRemove(s, e)) = Range(s) \ {e}
         /\ Len(EraseRemove(s, e)) =
              IF e \in Range(s) THEN Len(s) - 1 ELSE Len(s)
<1>1. CASE e \notin Range(s)
  BY <1>1, EraseAbsent
<1>2. CASE e \in Range(s)
  <2>1. PICK k \in DOMAIN s : s[k] = e
    BY <1>2 DEF Range
  <2> DEFINE r == [j \in 1..(Len(s) - 1) |-> IF j < k THEN s[j] ELSE s[j + 1]]
  <2>2. EraseRemove(s, e) = r
    BY <2>1, ErasePresent
  <2>3. DOMAIN s = 1..Len(s) /\ Len(s) \in Nat \ {0} /\ k \in 1..Len(s)
    BY <2>1
  <2>4. r \in Seq(S) /\ Len(r) = Len(s) - 1 /\ DOMAIN r = 1..(Len(s) - 1)
    BY <2>3
  <2>5. IsDistinct(r)
    BY <2>3, <2>4 DEF IsDistinct
  <2>6. Range(r) = Range(s) \ {e}
    <3>1. ASSUME NEW x \in Range(s) \ {e}
          PROVE  x \in Range(r)
      <4>1. PICK i \in 1..Len(s) : s[i] = x /\ i # k
        BY <2>1, <2>3 DEF Range
      <4>2. CASE i < k
        <5>1. i \in DOMAIN r /\ r[i] = x
          BY <2>3, <2>4, <4>1, <4>2
        <5>2. QED
          BY <5>1 DEF Range
      <4>3. CASE i > k
        <5>1. (i - 1) \in DOMAIN r /\ r[i - 1] = x
          BY <2>3, <2>4, <4>1, <4>3
        <5>2. QED
          BY <5>1 DEF Range
      <4>4. QED
        BY <2>3, <4>1, <4>2, <4>3
    <3>2. ASSUME NEW x \in Range(r)
          PROVE  x \in Range(s) \ {e}
      <4>1. PICK j \in 1..(Len(s) - 1) : r[j] = x
        BY <2>4 DEF Range
      <4>2. PICK i \in 1..Len(s) : s[i] = x /\ i # k
        BY <2>3, <2>4, <4>1
      <4>3. QED
        BY <2>1, <2>3, <4>2 DEF IsDistinct, Range
    <3>3. QED
      BY <3>1, <3>2
  <2>7. QED
    BY <1>2, <2>2, <2>4, <2>5, <2>6
<1>3. QED
  BY <1>1, <1>2

----------------------------------------------------------------------------
(* The history stack.                                                      *)

\* The index of an element is a place in the deque that holds it.
LEMMA IndexOfFacts ==
  ASSUME NEW S, NEW s \in Seq(S), IsDistinct(s), NEW e \in Range(s)
  PROVE  /\ FirstAt(s, e) \in 1..Len(s)
         /\ s[FirstAt(s, e)] = e
         /\ IndexOf(s, e) \in 0..(Len(s) - 1)
<1>1. PICK k \in 1..Len(s) : s[k] = e
  BY DEF Range
<1>2. k \in DOMAIN s /\ s[k] = e /\ \A j \in 1..(k - 1) : s[j] # e
  BY <1>1 DEF IsDistinct
<1>3. FirstAt(s, e) \in DOMAIN s /\ s[FirstAt(s, e)] = e
  BY <1>2 DEF FirstAt
<1>4. QED
  BY <1>3 DEF IndexOf

\* Appending what is not there keeps a sequence free of duplicates.
LEMMA AppendFresh ==
  ASSUME NEW S, NEW s \in Seq(S), IsDistinct(s), NEW e \in S, e \notin Range(s)
  PROVE  /\ Append(s, e) \in Seq(S)
         /\ Len(Append(s, e)) = Len(s) + 1
         /\ IsDistinct(Append(s, e))
         /\ Range(Append(s, e)) = Range(s) \cup {e}
<1> DEFINE t == Append(s, e)
<1>1. /\ t \in Seq(S) /\ Len(t) = Len(s) + 1 /\ Len(s) \in Nat
      /\ \A i \in 1..Len(s) : t[i] = s[i]
      /\ t[Len(s) + 1] = e
  OBVIOUS
<1>2. DOMAIN s = 1..Len(s) /\ DOMAIN t = 1..(Len(s) + 1)
  BY <1>1
<1>3. \A i \in 1..Len(s) : s[i] # e
  BY <1>2 DEF Range
<1> HIDE DEF t
<1>4. IsDistinct(t)
  BY <1>1, <1>2, <1>3 DEF IsDistinct
<1>5. Range(t) = Range(s) \cup {e}
  <2>1. ASSUME NEW x \in Range(t) PROVE x \in Range(s) \cup {e}
    BY <1>1, <1>2 DEF Range
  <2>2. ASSUME NEW x \in Range(s) PROVE x \in Range(t)
    BY <1>1, <1>2 DEF Range
  <2>3. e \in Range(t)
    BY <1>1, <1>2 DEF Range
  <2>4. QED
    BY <2>1, <2>2, <2>3
<1>6. QED
  BY <1>1, <1>4, <1>5 DEF t

\* The active element of a cycle that has one is an element of it.
LEMMA ActiveIsElement ==
  ASSUME NEW S, NEW c \in Cycles(S), HasActive(c)
  PROVE  /\ ActiveElement(c) \in S
         /\ ActiveElement(c) \in Range(c.elements)
         /\ ActiveElement(c) = c.elements[c.index + 1]
<1>1. c.elements \in Seq(S) /\ c.index \in Nat /\ c.index < Len(c.elements)
  BY DEF Cycles, HasActive, Size
<1>2. c.index + 1 \in DOMAIN c.elements /\ c.elements[c.index + 1] \in S
  BY <1>1
<1>3. QED
  BY <1>1, <1>2 DEF ActiveElement, ElementAt, Size, Range

\* Recording the active element changes the history only, and leaves it live.
LEMMA PushKeepsCycle ==
  ASSUME NEW S, NEW c, IsCycle(c, S)
  PROVE  /\ IsCycle(PushActive(c), S)
         /\ PushActive(c) = [c EXCEPT !.stack = PushActive(c).stack]
<1> USE DEF IsCycle, Cycles
<1>1. CASE ~(c.unwindable /\ HasActive(c))
  <2>1. PushActive(c) = c
    BY <1>1 DEF PushActive
  <2>2. QED
    BY <2>1
<1>2. CASE c.unwindable /\ HasActive(c)
  <2> DEFINE e == ActiveElement(c)
             t == Append(EraseRemove(c.stack, e), e)
  <2>1. e \in S /\ e \in Range(c.elements)
    BY <1>2, ActiveIsElement
  <2>2. /\ EraseRemove(c.stack, e) \in Seq(S)
        /\ IsDistinct(EraseRemove(c.stack, e))
        /\ Range(EraseRemove(c.stack, e)) = Range(c.stack) \ {e}
    BY EraseFacts DEF LiveHistory
  <2>3. t \in Seq(S) /\ IsDistinct(t) /\ Range(t) = (Range(c.stack) \ {e}) \cup {e}
    BY <2>1, <2>2, AppendFresh
  <2>4. PushActive(c) = [c EXCEPT !.stack = t]
    BY <1>2 DEF PushActive
  <2> HIDE DEF e, t
  <2>5. LiveHistory([c EXCEPT !.stack = t])
    BY <2>1, <2>3 DEF LiveHistory
  <2>6. QED
    BY <2>3, <2>4, <2>5 DEF IndexBounded, LastIndex, Size
<1>3. QED
  BY <1>1, <1>2

----------------------------------------------------------------------------
(* The operations.                                                         *)

\* The parts of a well-formed cycle.
LEMMA CycleParts ==
  ASSUME NEW S, NEW c, IsCycle(c, S)
  PROVE  /\ c = [elements |-> c.elements, index |-> c.index,
                 stack |-> c.stack, unwindable |-> c.unwindable]
         /\ c.elements \in Seq(S) /\ IsDistinct(c.elements)
         /\ c.stack \in Seq(S) /\ IsDistinct(c.stack)
         /\ Range(c.stack) \subseteq Range(c.elements)
         /\ c.index \in Nat
         /\ Size(c) = Len(c.elements) /\ Size(c) \in Nat
         /\ (Size(c) = 0 => c.index = 0) /\ (Size(c) > 0 => c.index < Size(c))
         /\ c.unwindable \in BOOLEAN
BY DEF IsCycle, Cycles, IndexBounded, LiveHistory, LastIndex, Size

\* What it takes for a changed cycle to be well formed again.
LEMMA CycleAgain ==
  ASSUME NEW S, NEW c, IsCycle(c, S),
         NEW els \in Seq(S), IsDistinct(els),
         NEW i \in Nat, i = 0 \/ i < Len(els),
         NEW st \in Seq(S), IsDistinct(st), Range(st) \subseteq Range(els)
  PROVE  IsCycle([c EXCEPT !.elements = els, !.index = i, !.stack = st], S)
<1> DEFINE n == [c EXCEPT !.elements = els, !.index = i, !.stack = st]
<1>1. n.elements = els /\ n.index = i /\ n.stack = st
  BY DEF IsCycle, Cycles
<1>2. n \in Cycles(S)
  BY DEF IsCycle, Cycles
<1>3. IndexBounded(n)
  BY <1>1 DEF IndexBounded, LastIndex, Size
<1>4. LiveHistory(n) /\ IsDistinct(n.elements)
  BY <1>1 DEF LiveHistory
<1>5. QED
  BY <1>2, <1>3, <1>4 DEF IsCycle

\* A permuted deque keeps a cycle well formed.
LEMMA PermutedCycle ==
  ASSUME NEW S, NEW c, IsCycle(c, S),
         NEW els \in Seq(S), IsDistinct(els),
         Len(els) = Len(c.elements), Range(els) = Range(c.elements)
  PROVE  IsCycle([c EXCEPT !.elements = els], S)
BY CycleParts DEF IsCycle, Cycles, IndexBounded, LiveHistory, LastIndex, Size

\* Another index within the bounds keeps a cycle well formed.
LEMMA MovedCycle ==
  ASSUME NEW S, NEW c, IsCycle(c, S), NEW i \in Nat, i = 0 \/ i < Size(c)
  PROVE  IsCycle([c EXCEPT !.index = i], S)
BY CycleParts DEF IsCycle, Cycles, IndexBounded, LiveHistory, LastIndex, Size

LEMMA InsertKeepsCycle ==
  ASSUME NEW S, NEW c, IsCycle(c, S), NEW e \in S, ~Contains(c, e)
  PROVE  IsCycle(InsertAtBack(c, e), S)
<1> DEFINE p == PushActive(c)
<1>1. IsCycle(p, S) /\ p.elements = c.elements
  BY PushKeepsCycle, CycleParts, ZenonT(40)
<1> HIDE DEF p
<1>2. /\ Append(p.elements, e) \in Seq(S)
      /\ Len(Append(p.elements, e)) = Size(c) + 1
      /\ IsDistinct(Append(p.elements, e))
      /\ Range(Append(p.elements, e)) = Range(p.elements) \cup {e}
  BY <1>1, CycleParts, AppendFresh DEF Contains
<1>3. InsertAtBack(c, e) =
        [p EXCEPT !.elements = Append(p.elements, e), !.index = Size(c),
                  !.stack = p.stack]
  BY <1>1, CycleParts DEF InsertAtBack, p
<1>4. /\ Size(c) \in Nat /\ p.stack \in Seq(S) /\ IsDistinct(p.stack)
      /\ Range(p.stack) \subseteq Range(Append(p.elements, e))
  <2>1. Size(c) \in Nat
    BY CycleParts
  <2>2. /\ p.stack \in Seq(S) /\ IsDistinct(p.stack)
        /\ Range(p.stack) \subseteq Range(p.elements)
    BY <1>1, CycleParts
  <2>3. QED
    BY <1>2, <2>1, <2>2
<1>5. IsCycle([p EXCEPT !.elements = Append(p.elements, e), !.index = Size(c),
                        !.stack = p.stack], S)
  <2> DEFINE els == Append(p.elements, e)
             st  == p.stack
             i   == Size(c)
  <2>1. els \in Seq(S) /\ IsDistinct(els) /\ i \in Nat /\ i < Len(els)
    BY <1>2, <1>4
  <2>2. st \in Seq(S) /\ IsDistinct(st) /\ Range(st) \subseteq Range(els)
    BY <1>4
  <2> HIDE DEF els, st, i
  <2>3. IsCycle([p EXCEPT !.elements = els, !.index = i, !.stack = st], S)
    BY <1>1, <2>1, <2>2, CycleAgain
  <2>4. QED
    BY <2>3 DEF els, st, i
<1>6. QED
  BY <1>3, <1>5

LEMMA ActivateAtIndexKeepsCycle ==
  ASSUME NEW S, NEW c, IsCycle(c, S), NEW i \in Nat, i = 0 \/ i < Size(c)
  PROVE  IsCycle(ActivateAtIndex(c, i), S)
<1> DEFINE p == PushActive(c)
<1>1. IsCycle(p, S) /\ Size(p) = Size(c)
  BY PushKeepsCycle, CycleParts, ZenonT(40) DEF Size
<1>2. IsCycle([p EXCEPT !.index = i], S)
  BY <1>1, MovedCycle
<1>3. QED
  BY <1>2 DEF ActivateAtIndex

LEMMA ActivateElementKeepsCycle ==
  ASSUME NEW S, NEW c, IsCycle(c, S), NEW e
  PROVE  IsCycle(ActivateElement(c, e), S)
<1>1. CASE Contains(c, e)
  <2>1. IndexOf(c.elements, e) \in 0..(Size(c) - 1) /\ Size(c) \in Nat
    BY <1>1, CycleParts, IndexOfFacts DEF Contains
  <2>2. QED
    BY <1>1, <2>1, ActivateAtIndexKeepsCycle DEF ActivateElement
<1>2. QED
  BY <1>1 DEF ActivateElement

\* The index of a neighbour is within the bounds.
LEMMA NextIndexFacts ==
  ASSUME NEW S, NEW c, IsCycle(c, S), Size(c) > 0, NEW d \in Directions
  PROVE  NextIndex(c, d) \in 0..(Size(c) - 1)
BY CycleParts DEF NextIndex, LastIndex, Directions

LEMMA CycleActiveKeepsCycle ==
  ASSUME NEW S, NEW c, IsCycle(c, S), Size(c) > 0, NEW d \in Directions
  PROVE  IsCycle(CycleActive(c, d), S)
<1> DEFINE p == PushActive(c)
<1>1. IsCycle(p, S) /\ Size(p) = Size(c) /\ Size(c) \in Nat
  <2>1. IsCycle(p, S) /\ p = [c EXCEPT !.stack = p.stack]
    BY PushKeepsCycle
  <2>2. p.elements = c.elements /\ Size(c) \in Nat
    BY <2>1, CycleParts
  <2>3. QED
    BY <2>1, <2>2 DEF Size
<1>2. NextIndex(c, d) \in Nat /\ NextIndex(c, d) < Size(c)
  BY <1>1, NextIndexFacts
<1>3. IsCycle([p EXCEPT !.index = NextIndex(c, d)], S)
  BY <1>1, <1>2, MovedCycle
<1>4. QED
  BY <1>3 DEF CycleActive

\* A prefix of a sequence without duplicates.
LEMMA PrefixFacts ==
  ASSUME NEW S, NEW s \in Seq(S), IsDistinct(s), NEW k \in DOMAIN s
  PROVE  /\ SubSeq(s, 1, k - 1) \in Seq(S)
         /\ IsDistinct(SubSeq(s, 1, k - 1))
         /\ Range(SubSeq(s, 1, k - 1)) \subseteq Range(s)
<1> DEFINE t == SubSeq(s, 1, k - 1)
<1>1. k \in 1..Len(s) /\ Len(s) \in Nat /\ DOMAIN s = 1..Len(s)
  OBVIOUS
<1>2. /\ t \in Seq(S) /\ Len(t) = k - 1 /\ DOMAIN t = 1..(k - 1)
      /\ \A i \in 1..(k - 1) : t[i] = s[i]
  BY <1>1
<1> HIDE DEF t
<1>3. IsDistinct(t)
  BY <1>1, <1>2 DEF IsDistinct
<1>4. Range(t) \subseteq Range(s)
  BY <1>1, <1>2 DEF Range
<1>5. QED
  BY <1>2, <1>3, <1>4 DEF t

\* Falling back on the history keeps a cycle well formed.
LEMMA SyncKeepsCycle ==
  ASSUME NEW S, NEW c, IsCycle(c, S)
  PROVE  IsCycle(SyncActive(c), S)
<1> DEFINE live == {i \in DOMAIN c.stack : Contains(c, c.stack[i])}
           top  == CHOOSE i \in live : \A j \in live : j <= i
           els  == c.elements
<1>1. /\ els \in Seq(S) /\ IsDistinct(els)
      /\ c.stack \in Seq(S) /\ IsDistinct(c.stack)
      /\ Range(c.stack) \subseteq Range(els)
      /\ c.index \in Nat /\ (c.index = 0 \/ c.index < Len(els))
      /\ [c EXCEPT !.elements = els] = c
  BY CycleParts DEF IsCycle, Cycles
<1>2. CASE c.stack = << >>
  <2>1. live = {}
    BY <1>2
  <2>2. SyncActive(c) = [c EXCEPT !.stack = << >>]
    BY <2>1 DEF SyncActive
  <2>3. [c EXCEPT !.stack = << >>] = c
    BY <1>2 DEF IsCycle, Cycles
  <2>4. QED
    BY <2>2, <2>3
<1>3. CASE c.stack # << >>
  <2>1. live = 1..Len(c.stack) /\ Len(c.stack) \in Nat \ {0}
    <3>1. DOMAIN c.stack = 1..Len(c.stack) /\ Len(c.stack) \in Nat \ {0}
      BY <1>1, <1>3
    <3>2. \A i \in DOMAIN c.stack : c.stack[i] \in Range(c.stack)
      BY DEF Range
    <3>3. \A i \in DOMAIN c.stack : Contains(c, c.stack[i])
      BY <1>1, <3>2 DEF Contains
    <3>4. QED
      BY <3>1, <3>3
  <2> HIDE DEF live
  <2>2. \E i \in live : \A j \in live : j <= i
    BY <2>1
  <2>3. top \in live
    BY <2>2
  <2> HIDE DEF top
  <2> DEFINE i  == IndexOf(els, c.stack[top])
             st == SubSeq(c.stack, 1, top - 1)
  <2>4. top \in DOMAIN c.stack /\ c.stack[top] \in Range(els)
    <3>1. top \in DOMAIN c.stack
      BY <1>1, <2>1, <2>3
    <3>2. c.stack[top] \in Range(c.stack)
      BY <3>1 DEF Range
    <3>3. QED
      BY <1>1, <3>1, <3>2
  <2>5. i \in Nat /\ i < Len(els)
    BY <1>1, <2>4, IndexOfFacts
  <2>6. st \in Seq(S) /\ IsDistinct(st) /\ Range(st) \subseteq Range(els)
    BY <1>1, <2>4, PrefixFacts
  <2>7. SyncActive(c) = [c EXCEPT !.index = i, !.stack = st]
    BY <2>3 DEF SyncActive, live, top
  <2> HIDE DEF i, st
  <2>8. IsCycle([c EXCEPT !.elements = els, !.index = i, !.stack = st], S)
    BY <1>1, <2>5, <2>6, CycleAgain
  <2>9. [c EXCEPT !.elements = els, !.index = i, !.stack = st]
          = [c EXCEPT !.index = i, !.stack = st]
    BY DEF IsCycle, Cycles
  <2>10. QED
    BY <2>7, <2>8, <2>9
<1>4. QED
  BY <1>2, <1>3

\* The index of remove_element follows the elements that move down.
LEMMA RemoveKeepsCycle ==
  ASSUME NEW S, NEW c, IsCycle(c, S), NEW e
  PROVE  IsCycle(RemoveElement(c, e), S)
<1> DEFINE before == Contains(c, e) /\ c.index >= IndexOf(c.elements, e)
           els    == EraseRemove(c.elements, e)
           st     == EraseRemove(c.stack, e)
           i      == IF c.index # 0 /\ before THEN c.index - 1 ELSE c.index
           erased == [c EXCEPT !.elements = els, !.index = i, !.stack = st]
<1>1. /\ els \in Seq(S) /\ IsDistinct(els)
      /\ Range(els) = Range(c.elements) \ {e}
      /\ Len(els) = IF Contains(c, e) THEN Size(c) - 1 ELSE Size(c)
  BY CycleParts, EraseFacts DEF Contains, Size
<1>2. st \in Seq(S) /\ IsDistinct(st) /\ Range(st) = Range(c.stack) \ {e}
  BY CycleParts, EraseFacts
<1>3. i \in Nat /\ (i = 0 \/ i < Len(els))
  <2>1. /\ Size(c) = Len(c.elements) /\ Size(c) \in Nat /\ c.index \in Nat
        /\ c.index = 0 \/ c.index < Size(c)
    BY CycleParts
  <2>2. CASE Contains(c, e)
    <3>1. IndexOf(c.elements, e) \in 0..(Size(c) - 1)
      BY <2>1, <2>2, CycleParts, IndexOfFacts DEF Contains
    <3> HIDE DEF els
    <3>2. QED
      BY <1>1, <2>1, <2>2, <3>1
  <2>3. CASE ~Contains(c, e)
    <3> HIDE DEF els
    <3>1. QED
      BY <1>1, <2>1, <2>3
  <2>4. QED
    BY <2>2, <2>3
<1>4. Range(st) \subseteq Range(els)
  BY <1>1, <1>2, CycleParts
<1>5. RemoveElement(c, e)
        = IF IsActiveElement(c, e) THEN SyncActive(erased) ELSE erased
  BY DEF RemoveElement
<1>6. IsCycle(erased, S)
  <2> HIDE DEF els, st, i
  <2>1. QED
    BY <1>1, <1>2, <1>3, <1>4, CycleAgain
<1> HIDE DEF erased
<1>7. QED
  BY <1>5, <1>6, SyncKeepsCycle

----------------------------------------------------------------------------
(* The operations that only change the order.                              *)

\* A sequence read through p, a permutation of its positions with inverse q.
Inverses(p, q, n) == /\ p \in [1..n -> 1..n] /\ q \in [1..n -> 1..n]
                     /\ \A i \in 1..n : p[q[i]] = i /\ q[p[i]] = i
Through(s, p) == [i \in 1..Len(s) |-> s[p[i]]]

LEMMA PermutedSeq ==
  ASSUME NEW S, NEW s \in Seq(S), NEW p, NEW q, Inverses(p, q, Len(s))
  PROVE  /\ Through(s, p) \in Seq(S) /\ Len(Through(s, p)) = Len(s)
         /\ IsDistinct(s) => IsDistinct(Through(s, p))
         /\ Range(Through(s, p)) = Range(s)
<1> USE DEF Inverses
<1> DEFINE t == Through(s, p)
<1>1. Len(s) \in Nat /\ DOMAIN s = 1..Len(s) /\ \A i \in 1..Len(s) : s[i] \in S
  OBVIOUS
<1>2. /\ t \in Seq(S) /\ Len(t) = Len(s) /\ DOMAIN t = 1..Len(s)
      /\ \A i \in 1..Len(s) : t[i] = s[p[i]]
  BY <1>1 DEF Through
<1> HIDE DEF t
<1>3. ASSUME IsDistinct(s) PROVE IsDistinct(t)
  <2>1. ASSUME NEW i \in 1..Len(s), NEW j \in 1..Len(s), t[i] = t[j]
        PROVE  i = j
    <3>1. s[p[i]] = s[p[j]] /\ p[i] \in 1..Len(s) /\ p[j] \in 1..Len(s)
      BY <1>2, <2>1
    <3>2. p[i] = p[j]
      BY <1>1, <1>3, <3>1 DEF IsDistinct
    <3>3. QED
      BY <3>2
  <2>2. QED
    BY <1>2, <2>1 DEF IsDistinct
<1>4. Range(t) = Range(s)
  <2>1. ASSUME NEW x \in Range(t) PROVE x \in Range(s)
    BY <1>1, <1>2 DEF Range
  <2>2. ASSUME NEW x \in Range(s) PROVE x \in Range(t)
    <3>1. PICK k \in 1..Len(s) : s[k] = x
      BY <1>1 DEF Range
    <3>2. q[k] \in 1..Len(s) /\ t[q[k]] = x
      BY <1>2, <3>1
    <3>3. QED
      BY <1>2, <3>2 DEF Range
  <2>3. QED
    BY <2>1, <2>2
<1>5. QED
  BY <1>2, <1>3, <1>4 DEF t

LEMMA TurnFacts ==
  ASSUME NEW S, NEW s \in Seq(S),
         NEW b \in Nat, NEW e \in Nat, b < e, e <= Len(s),
         NEW t, t = TurnLeft(s, b, e) \/ t = TurnRight(s, b, e)
  PROVE  /\ t \in Seq(S) /\ Len(t) = Len(s) /\ (IsDistinct(s) => IsDistinct(t))
         /\ Range(t) = Range(s)
<1> DEFINE n == Len(s)
           l == [i \in 1..n |-> IF i \in (b + 1)..(e - 1) THEN i + 1
                                ELSE IF i = e THEN b + 1 ELSE i]
           r == [i \in 1..n |-> IF i \in (b + 2)..e THEN i - 1
                                ELSE IF i = b + 1 THEN e ELSE i]
<1>1. n \in Nat /\ DOMAIN s = 1..n
  OBVIOUS
<1>2. l \in [1..n -> 1..n] /\ r \in [1..n -> 1..n]
  BY <1>1
<1>3. \A i \in 1..n : l[r[i]] = i /\ r[l[i]] = i
  BY <1>1
<1>4. Inverses(l, r, n) /\ Inverses(r, l, n)
  BY <1>2, <1>3 DEF Inverses
<1>5. CASE t = TurnLeft(s, b, e)
  <2>1. t = Through(s, l)
    BY <1>1, <1>5 DEF TurnLeft, Through
  <2> HIDE DEF l, r
  <2>2. QED
    BY <1>4, <2>1, PermutedSeq
<1>6. CASE t = TurnRight(s, b, e)
  <2>1. t = Through(s, r)
    BY <1>1, <1>6 DEF TurnRight, Through
  <2> HIDE DEF l, r
  <2>2. QED
    BY <1>4, <2>1, PermutedSeq
<1>7. QED
  BY <1>5, <1>6

LEMMA SwapFacts ==
  ASSUME NEW S, NEW s \in Seq(S), NEW i \in 1..Len(s), NEW j \in 1..Len(s)
  PROVE  /\ Swapped(s, i, j) \in Seq(S) /\ Len(Swapped(s, i, j)) = Len(s)
         /\ IsDistinct(s) => IsDistinct(Swapped(s, i, j))
         /\ Range(Swapped(s, i, j)) = Range(s)
<1> DEFINE p == [k \in 1..Len(s) |-> IF k = i THEN j ELSE IF k = j THEN i ELSE k]
<1>1. DOMAIN s = 1..Len(s) /\ Len(s) \in Nat
  OBVIOUS
<1>2. Inverses(p, p, Len(s))
  BY DEF Inverses
<1>3. Swapped(s, i, j) = Through(s, p)
  BY <1>1 DEF Swapped, Through
<1> HIDE DEF p
<1>4. QED
  BY <1>2, <1>3, PermutedSeq

LEMMA ReverseKeepsCycle ==
  ASSUME NEW S, NEW c, IsCycle(c, S)
  PROVE  IsCycle(ReverseCycle(c), S)
<1> DEFINE s == c.elements
           p == [i \in 1..Len(s) |-> Len(s) + 1 - i]
           t == [i \in DOMAIN s |-> s[Len(s) + 1 - i]]
<1>1. s \in Seq(S) /\ IsDistinct(s) /\ Len(s) \in Nat /\ DOMAIN s = 1..Len(s)
  BY CycleParts
<1>2. Inverses(p, p, Len(s))
  BY <1>1 DEF Inverses
<1>3. t = Through(s, p)
  BY <1>1 DEF Through
<1>4. ReverseCycle(c) = [c EXCEPT !.elements = t]
  BY DEF ReverseCycle
<1> HIDE DEF p, t
<1>5. t \in Seq(S) /\ Len(t) = Len(s) /\ IsDistinct(t) /\ Range(t) = Range(s)
  BY <1>1, <1>2, <1>3, PermutedSeq
<1>6. QED
  BY <1>4, <1>5, PermutedCycle

LEMMA RotateKeepsCycle ==
  ASSUME NEW S, NEW c, IsCycle(c, S), Size(c) > 0, NEW d
  PROVE  IsCycle(RotateCycle(c, d), S)
<1> DEFINE s == c.elements
           t == IF d = "Forward" THEN TurnLeft(s, 0, Len(s))
                                 ELSE TurnRight(s, 0, Len(s))
<1>1. s \in Seq(S) /\ IsDistinct(s) /\ Len(s) \in Nat /\ 0 < Len(s)
  BY CycleParts
<1>2. t \in Seq(S) /\ Len(t) = Len(s) /\ IsDistinct(t) /\ Range(t) = Range(s)
  BY <1>1, TurnFacts
<1>3. RotateCycle(c, d) = [c EXCEPT !.elements = t]
  BY DEF RotateCycle
<1> HIDE DEF t
<1>4. QED
  BY <1>2, <1>3, PermutedCycle

LEMMA RotateRangeKeepsCycle ==
  ASSUME NEW S, NEW c, IsCycle(c, S), NEW d, NEW b \in Nat, NEW e \in Nat
  PROVE  IsCycle(RotateRange(c, d, b, e), S)
<1> DEFINE s == c.elements
           t == IF d = "Backward" THEN TurnLeft(s, b, e) ELSE TurnRight(s, b, e)
<1>1. CASE b >= e \/ b >= Size(c) \/ e > Size(c)
  BY <1>1 DEF RotateRange
<1>2. CASE ~(b >= e \/ b >= Size(c) \/ e > Size(c))
  <2>1. s \in Seq(S) /\ IsDistinct(s) /\ b < e /\ e <= Len(s)
    BY <1>2, CycleParts
  <2>2. t \in Seq(S) /\ Len(t) = Len(s) /\ IsDistinct(t) /\ Range(t) = Range(s)
    BY <2>1, TurnFacts
  <2>3. RotateRange(c, d, b, e) = [c EXCEPT !.elements = t]
    BY <1>2 DEF RotateRange
  <2> HIDE DEF t
  <2>4. QED
    BY <2>2, <2>3, PermutedCycle
<1>3. QED
  BY <1>1, <1>2

LEMMA SwapKeepsCycle ==
  ASSUME NEW S, NEW c, IsCycle(c, S), NEW e, NEW f
  PROVE  IsCycle(SwapElements(c, e, f), S)
<1> DEFINE s == c.elements
           t == Swapped(s, FirstAt(s, e), FirstAt(s, f))
<1>1. CASE Contains(c, e) /\ Contains(c, f)
  <2>1. s \in Seq(S) /\ IsDistinct(s)
    BY CycleParts
  <2>2. FirstAt(s, e) \in 1..Len(s) /\ FirstAt(s, f) \in 1..Len(s)
    BY <1>1, <2>1, IndexOfFacts DEF Contains
  <2>3. t \in Seq(S) /\ Len(t) = Len(s) /\ IsDistinct(t) /\ Range(t) = Range(s)
    BY <2>1, <2>2, SwapFacts
  <2>4. SwapElements(c, e, f) = [c EXCEPT !.elements = t]
    BY <1>1 DEF SwapElements
  <2> HIDE DEF t
  <2>5. QED
    BY <2>3, <2>4, PermutedCycle
<1>2. QED
  BY <1>1 DEF SwapElements

LEMMA DragKeepsCycle ==
  ASSUME NEW S, NEW c, IsCycle(c, S), Size(c) > 0, NEW d \in Directions
  PROVE  IsCycle(DragActive(c, d), S)
<1> DEFINE s       == c.elements
           next    == NextIndex(c, d)
           moved   == [c EXCEPT !.elements = Swapped(s, c.index + 1, next + 1)]
           dragged == IF next # c.index /\ HasActive(c) /\ next < Size(c)
                      THEN moved ELSE c
<1>1. /\ s \in Seq(S) /\ IsDistinct(s) /\ Len(s) = Size(c) /\ Size(c) \in Nat
      /\ c.index \in Nat /\ c.index < Size(c)
  BY CycleParts
<1>2. next \in 0..(Size(c) - 1)
  BY NextIndexFacts
<1>3. IsCycle(moved, S) /\ Size(moved) = Size(c)
  <2> DEFINE t == Swapped(s, c.index + 1, next + 1)
  <2> HIDE DEF next
  <2>1. c.index + 1 \in 1..Len(s) /\ next + 1 \in 1..Len(s)
    BY <1>1, <1>2
  <2>2. t \in Seq(S) /\ Len(t) = Len(s) /\ IsDistinct(t) /\ Range(t) = Range(s)
    BY <1>1, <2>1, SwapFacts
  <2> HIDE DEF t
  <2>3. IsCycle([c EXCEPT !.elements = t], S)
    BY <2>2, PermutedCycle
  <2>4. Size([c EXCEPT !.elements = t]) = Len(t)
    BY DEF Size, IsCycle, Cycles
  <2>5. QED
    BY <1>1, <2>2, <2>3, <2>4 DEF t
<1>4. DragActive(c, d) = CycleActive(dragged, d)
  BY DEF DragActive
<1> HIDE DEF moved
<1>5. IsCycle(dragged, S) /\ Size(dragged) > 0
  BY <1>3
<1> HIDE DEF dragged
<1>6. QED
  BY <1>4, <1>5, CycleActiveKeepsCycle

----------------------------------------------------------------------------
(* The operations that exchange elements.                                  *)

\* The first e of s replaced by r, where there is one.
Replaced(s, e, r) == IF e \in Range(s) THEN [s EXCEPT ![FirstAt(s, e)] = r] ELSE s

LEMMA ReplacedFacts ==
  ASSUME NEW S, NEW s \in Seq(S), IsDistinct(s), NEW e, NEW r \in S, r \notin Range(s)
  PROVE  /\ Replaced(s, e, r) \in Seq(S) /\ Len(Replaced(s, e, r)) = Len(s)
         /\ IsDistinct(Replaced(s, e, r))
         /\ e \in Range(s) => Range(Replaced(s, e, r)) = (Range(s) \ {e}) \cup {r}
         /\ e \notin Range(s) => Range(Replaced(s, e, r)) = Range(s)
<1> DEFINE k == FirstAt(s, e)
           t == [s EXCEPT ![k] = r]
<1>1. CASE e \in Range(s)
  <2>1. k \in 1..Len(s) /\ s[k] = e
    BY <1>1, IndexOfFacts
  <2> HIDE DEF k
  <2>2. /\ t \in Seq(S) /\ Len(t) = Len(s) /\ DOMAIN t = 1..Len(s)
        /\ DOMAIN s = 1..Len(s) /\ t[k] = r
        /\ \A i \in 1..Len(s) : i # k => t[i] = s[i]
    BY <2>1
  <2> HIDE DEF t
  <2>3. \A i \in 1..Len(s) : s[i] # r
    BY <2>2 DEF Range
  <2>4. IsDistinct(t)
    BY <2>1, <2>2, <2>3 DEF IsDistinct
  <2>5. Range(t) = (Range(s) \ {e}) \cup {r}
    <3>1. ASSUME NEW x \in Range(t) PROVE x \in (Range(s) \ {e}) \cup {r}
      BY <2>1, <2>2 DEF Range, IsDistinct
    <3>2. ASSUME NEW x \in Range(s), x # e PROVE x \in Range(t)
      BY <2>1, <2>2, <3>2 DEF Range
    <3>3. r \in Range(t)
      BY <2>1, <2>2 DEF Range
    <3>4. QED
      BY <3>1, <3>2, <3>3
  <2>6. QED
    BY <1>1, <2>2, <2>4, <2>5 DEF Replaced, t, k
<1>2. QED
  BY <1>1 DEF Replaced

LEMMA ReplaceKeepsCycle ==
  ASSUME NEW S, NEW c, IsCycle(c, S), NEW e, NEW r \in S
  PROVE  IsCycle(ReplaceElement(c, e, r), S)
<1>1. CASE Contains(c, r) \/ ~Contains(c, e)
  BY <1>1 DEF ReplaceElement
<1>2. CASE ~Contains(c, r) /\ Contains(c, e)
  <2> DEFINE els == Replaced(c.elements, e, r)
             st  == Replaced(c.stack, e, r)
             i   == c.index
  <2>1. /\ c.elements \in Seq(S) /\ IsDistinct(c.elements)
        /\ c.stack \in Seq(S) /\ IsDistinct(c.stack)
        /\ Range(c.stack) \subseteq Range(c.elements)
        /\ r \notin Range(c.elements) /\ e \in Range(c.elements)
        /\ i \in Nat /\ (i = 0 \/ i < Len(c.elements))
    <3>1. r \notin Range(c.elements) /\ e \in Range(c.elements)
      BY <1>2 DEF Contains
    <3>2. i \in Nat /\ (i = 0 \/ i < Len(c.elements))
      BY CycleParts
    <3>3. QED
      BY <3>1, <3>2, CycleParts
  <2>2. /\ els \in Seq(S) /\ IsDistinct(els) /\ Len(els) = Len(c.elements)
        /\ Range(els) = (Range(c.elements) \ {e}) \cup {r}
    BY <2>1, ReplacedFacts
  <2>3. /\ st \in Seq(S) /\ IsDistinct(st)
        /\ e \in Range(c.stack) => Range(st) = (Range(c.stack) \ {e}) \cup {r}
        /\ e \notin Range(c.stack) => Range(st) = Range(c.stack)
    <3>1. r \notin Range(c.stack)
      BY <2>1
    <3> DEFINE h == c.stack
    <3> HIDE DEF h
    <3>2. h \in Seq(S) /\ IsDistinct(h) /\ r \notin Range(h)
      BY <2>1, <3>1 DEF h
    <3>3. /\ Replaced(h, e, r) \in Seq(S) /\ IsDistinct(Replaced(h, e, r))
          /\ e \in Range(h) => Range(Replaced(h, e, r)) = (Range(h) \ {e}) \cup {r}
          /\ e \notin Range(h) => Range(Replaced(h, e, r)) = Range(h)
      BY <3>2, ReplacedFacts
    <3>4. QED
      BY <3>3 DEF h
  <2>4. Range(st) \subseteq Range(els)
    BY <2>1, <2>2, <2>3
  <2>5. ReplaceElement(c, e, r) = [c EXCEPT !.elements = els, !.stack = st]
    BY <1>2 DEF ReplaceElement, Replaced
  <2>6. [c EXCEPT !.elements = els, !.stack = st]
          = [c EXCEPT !.elements = els, !.index = i, !.stack = st]
    BY DEF IsCycle, Cycles
  <2> HIDE DEF els, st, i
  <2>7. IsCycle([c EXCEPT !.elements = els, !.index = i, !.stack = st], S)
    BY <2>1, <2>2, <2>3, <2>4, CycleAgain
  <2>8. QED
    BY <2>5, <2>6, <2>7
<1>3. QED
  BY <1>1, <1>2

\* The index a clearing leaves behind is set by the insertion that follows.
LEMMA RefillKeepsCycle ==
  ASSUME NEW S, NEW c, IsCycle(c, S), NEW e \in S
  PROVE  IsCycle(InsertAtBack(ClearCycle(c), e), S)
<1> DEFINE z == ClearCycle(c)
           n == InsertAtBack(z, e)
<1>1. c \in [elements : Seq(S), index : Nat, stack : Seq(S), unwindable : BOOLEAN]
  BY DEF IsCycle, Cycles
<1>2. z.elements = << >> /\ z.stack = << >> /\ z \in Cycles(S)
  <2> DEFINE nil == << >>
  <2>1. nil \in Seq(S)
    OBVIOUS
  <2>2. z = [c EXCEPT !.elements = nil, !.stack = nil]
    BY DEF ClearCycle
  <2> HIDE DEF nil, z
  <2>3. z.elements = nil /\ z.stack = nil /\ z \in Cycles(S)
    BY <1>1, <2>1, <2>2 DEF Cycles
  <2>4. QED
    BY <2>3 DEF nil
<1> HIDE DEF z
<1>3. PushActive(z) = z /\ Size(z) = 0
  BY <1>2 DEF PushActive, HasActive, Size, Cycles
<1>4. n.elements = << e >> /\ n.index = 0 /\ n.stack = << >> /\ n \in Cycles(S)
  <2> DEFINE one == Append(z.elements, e)
  <2>1. one \in Seq(S) /\ one = << e >>
    BY <1>2
  <2>2. n = [z EXCEPT !.elements = one, !.index = 0]
    BY <1>3 DEF InsertAtBack
  <2> HIDE DEF one, n
  <2>3. n.elements = one /\ n.index = 0 /\ n.stack = z.stack /\ n \in Cycles(S)
    BY <1>2, <2>1, <2>2 DEF Cycles
  <2>4. QED
    BY <1>2, <2>1, <2>3
<1> HIDE DEF n
<1>5. IsCycle(n, S)
  BY <1>4 DEF IsCycle, IndexBounded, LastIndex, Size, LiveHistory, IsDistinct, Range
<1>6. QED
  BY <1>5 DEF z, n

----------------------------------------------------------------------------
(* Cycles of any content: what their methods make of what they hold, with *)
(* nothing known of duplicates or of the index.                            *)

\* A set of numbers that is not empty has a least one.
LEMMA LeastNumber ==
  ASSUME NEW T, T \subseteq Nat, T # {}
  PROVE  \E x \in T : \A y \in T : x <= y
<1>1. IsWellFoundedOn(OpToRel(<, Nat), Nat) BY NatLessThanWellFounded
<1>2. PICK x \in T : \A y \in T : << y, x >> \notin OpToRel(<, Nat)
  BY <1>1, WFMin
<1>3. ASSUME NEW y \in T PROVE x <= y
  <2>1. ~(y < x) BY <1>2 DEF OpToRel
  <2> QED BY <2>1
<1> QED BY <1>3

\* A set of numbers that is bounded and not empty has a greatest one.
LEMMA GreatestNumber ==
  ASSUME NEW n \in Nat, NEW T, T \subseteq 1..n, T # {}
  PROVE  \E x \in T : \A y \in T : y <= x
<1> DEFINE U == {n - i : i \in T}
<1>1. U \subseteq Nat OBVIOUS
<1>2. U # {}
  <2>1. PICK i \in T : TRUE OBVIOUS
  <2>2. n - i \in U OBVIOUS
  <2> QED BY <2>2
<1>3. PICK x \in U : \A y \in U : x <= y
  <2> HIDE DEF U
  <2> QED BY <1>1, <1>2, LeastNumber
<1>4. PICK i \in T : x = n - i OBVIOUS
<1>5. ASSUME NEW j \in T PROVE j <= i
  <2>1. n - j \in U OBVIOUS
  <2>2. x <= n - j BY <1>3, <2>1
  <2> QED BY <1>4, <2>2
<1> QED BY <1>5

\* The first place of an element. IndexOf and the like look for the first place
\* of an element: there is one when the element is there.
LEMMA FirstFacts ==
  ASSUME NEW S, NEW s \in Seq(S), NEW e \in Range(s)
  PROVE  FirstAt(s, e) \in 1..Len(s) /\ s[FirstAt(s, e)] = e
<1> DEFINE T == {i \in DOMAIN s : s[i] = e}
<1>1. DOMAIN s = 1..Len(s) /\ Len(s) \in Nat OBVIOUS
<1>2. T \subseteq Nat /\ T # {} BY <1>1 DEF Range
<1> HIDE DEF T
<1>3. PICK i \in T : \A j \in T : i <= j BY <1>2, LeastNumber
<1> USE DEF T
<1>4. i \in DOMAIN s /\ s[i] = e /\ \A j \in 1..(i - 1) : s[j] # e
  BY <1>1, <1>3
<1> QED BY <1>1, <1>4 DEF FirstAt

\* std::remove and erase (cycle.t.hh) take every copy of an element out, and no
\* other.
LEMMA ErasedFacts ==
  ASSUME NEW S, NEW s \in Seq(S), NEW e
  PROVE  EraseRemove(s, e) \in Seq(S) /\ Range(EraseRemove(s, e)) = Range(s) \ {e}
<1> DEFINE kept == {i \in DOMAIN s : s[i] # e}
<1>1. kept \subseteq DOMAIN s OBVIOUS
<1>2. {s[i] : i \in kept} = Range(s) \ {e} BY DEF Range
<1> HIDE DEF kept
<1>3. QED BY <1>1, <1>2, KeptFacts DEF EraseRemove, kept

\* An element appended is there besides the others.
LEMMA AppendedFacts ==
  ASSUME NEW S, NEW s \in Seq(S), NEW e \in S
  PROVE  Append(s, e) \in Seq(S) /\ Range(Append(s, e)) = Range(s) \cup {e}
<1> DEFINE t == Append(s, e)
<1>1. /\ t \in Seq(S) /\ Len(s) \in Nat
      /\ DOMAIN s = 1..Len(s) /\ DOMAIN t = 1..(Len(s) + 1)
      /\ \A i \in 1..Len(s) : t[i] = s[i]
      /\ t[Len(s) + 1] = e
  OBVIOUS
<1> HIDE DEF t
<1>2. ASSUME NEW x \in Range(t) PROVE x \in Range(s) \cup {e} BY <1>1 DEF Range
<1>3. ASSUME NEW x \in Range(s) PROVE x \in Range(t) BY <1>1 DEF Range
<1>4. e \in Range(t) BY <1>1 DEF Range
<1> QED BY <1>1, <1>2, <1>3, <1>4 DEF t

\* c is a cycle over S, in any order and with any history, that holds M.
Holds(c, S, M) == c \in Cycles(S) /\ Range(c.elements) = M

\* push_active_to_stack (cycle.t.hh) changes the history alone.
LEMMA PushHolds ==
  ASSUME NEW S, NEW c \in Cycles(S)
  PROVE  /\ PushActive(c) \in Cycles(S)
         /\ PushActive(c).elements = c.elements /\ PushActive(c).index = c.index
<1> DEFINE e == ActiveElement(c)
           st == Append(EraseRemove(c.stack, e), e)
<1>1. CASE c.unwindable /\ HasActive(c)
  <2>1. st \in Seq(S)
    BY <1>1, ActiveIsElement, ErasedFacts, AppendedFacts DEF Cycles
  <2>2. PushActive(c) = [c EXCEPT !.stack = st] BY <1>1 DEF PushActive
  <2> HIDE DEF st
  <2> QED BY <2>1, <2>2 DEF Cycles
<1> QED BY <1>1 DEF PushActive

\* insert_at_back adds an element.
LEMMA InsertHolds ==
  ASSUME NEW S, NEW c \in Cycles(S), NEW e \in S
  PROVE  Holds(InsertAtBack(c, e), S, Range(c.elements) \cup {e})
<1> DEFINE p == PushActive(c)
           els == Append(c.elements, e)
<1>1. p \in Cycles(S) /\ p.elements = c.elements BY PushHolds
<1>2. els \in Seq(S) /\ Range(els) = Range(c.elements) \cup {e}
  BY AppendedFacts DEF Cycles
<1>3. Size(c) \in Nat BY DEF Cycles, Size
<1>4. InsertAtBack(c, e) = [p EXCEPT !.elements = els, !.index = Size(c)]
  BY <1>1 DEF InsertAtBack
<1> HIDE DEF p, els
<1> QED BY <1>1, <1>2, <1>3, <1>4 DEF Cycles, Holds

\* activate_at_index keeps what there is.
LEMMA AtIndexHolds ==
  ASSUME NEW S, NEW c \in Cycles(S), NEW i \in Nat
  PROVE  Holds(ActivateAtIndex(c, i), S, Range(c.elements))
<1>1. PushActive(c) \in Cycles(S) /\ PushActive(c).elements = c.elements BY PushHolds
<1> QED BY <1>1 DEF Cycles, Holds, ActivateAtIndex

\* activate_element keeps what there is, whether the element is there or not.
LEMMA ElementHolds ==
  ASSUME NEW S, NEW c \in Cycles(S), NEW e
  PROVE  Holds(ActivateElement(c, e), S, Range(c.elements))
<1>1. CASE Contains(c, e)
  <2>1. IndexOf(c.elements, e) \in Nat
    BY <1>1, FirstFacts DEF Contains, Cycles, IndexOf
  <2> QED BY <1>1, <2>1, AtIndexHolds DEF ActivateElement
<1> QED BY <1>1 DEF ActivateElement, Holds

\* sync_active keeps what there is: the index it finds on the history is one.
LEMMA SyncHolds ==
  ASSUME NEW S, NEW c \in Cycles(S)
  PROVE  Holds(SyncActive(c), S, Range(c.elements))
<1> DEFINE live == {i \in DOMAIN c.stack : Contains(c, c.stack[i])}
           top  == CHOOSE i \in live : \A j \in live : j <= i
<1>1. CASE live = {}
  <2>1. SyncActive(c) = [c EXCEPT !.stack = << >>] BY <1>1 DEF SyncActive
  <2> DEFINE nil == << >>
  <2>2. nil \in Seq(S) OBVIOUS
  <2> HIDE DEF live, nil
  <2>3. SyncActive(c) = [c EXCEPT !.stack = nil] BY <2>1 DEF nil
  <2> QED BY <2>2, <2>3 DEF Cycles, Holds
<1>2. CASE live # {}
  <2>1. DOMAIN c.stack = 1..Len(c.stack) /\ Len(c.stack) \in Nat BY DEF Cycles
  <2>2. \E i \in live : \A j \in live : j <= i
    <3>1. live \subseteq 1..Len(c.stack) BY <2>1
    <3> HIDE DEF live
    <3> QED BY <1>2, <2>1, <3>1, GreatestNumber
  <2>3. top \in live
    <3> HIDE DEF live
    <3> QED BY <2>2
  <2> HIDE DEF top
  <2>4. top \in 1..Len(c.stack) /\ c.stack[top] \in Range(c.elements)
    BY <2>1, <2>3 DEF Contains
  <2>5. IndexOf(c.elements, c.stack[top]) \in Nat
    BY <2>4, FirstFacts DEF Cycles, IndexOf
  <2>6. SubSeq(c.stack, 1, top - 1) \in Seq(S) BY <2>4 DEF Cycles
  <2>7. SyncActive(c) = [c EXCEPT !.index = IndexOf(c.elements, c.stack[top]),
                                  !.stack = SubSeq(@, 1, top - 1)]
    BY <1>2 DEF SyncActive, top
  <2> QED BY <2>5, <2>6, <2>7 DEF Cycles, Holds
<1> QED BY <1>1, <1>2

\* remove_element removes an element, were it there twice, and nothing else.
LEMMA RemoveHolds ==
  ASSUME NEW S, NEW c \in Cycles(S), NEW e
  PROVE  Holds(RemoveElement(c, e), S, Range(c.elements) \ {e})
<1> DEFINE before == Contains(c, e) /\ c.index >= IndexOf(c.elements, e)
           els    == EraseRemove(c.elements, e)
           st     == EraseRemove(c.stack, e)
           i      == IF c.index # 0 /\ before THEN c.index - 1 ELSE c.index
           erased == [c EXCEPT !.elements = els, !.index = i, !.stack = st]
<1>1. els \in Seq(S) /\ Range(els) = Range(c.elements) \ {e} BY ErasedFacts DEF Cycles
<1>2. st \in Seq(S) BY ErasedFacts DEF Cycles
<1>3. i \in Nat
  <2>1. c.index \in Nat BY DEF Cycles
  <2> HIDE DEF before
  <2> QED BY <2>1
<1>4. RemoveElement(c, e) = IF IsActiveElement(c, e) THEN SyncActive(erased) ELSE erased
  BY DEF RemoveElement
<1>5. erased \in Cycles(S) /\ erased.elements = els
  <2> HIDE DEF els, st, i
  <2> QED BY <1>1, <1>2, <1>3 DEF Cycles
<1> HIDE DEF erased, els
<1> QED BY <1>1, <1>4, <1>5, SyncHolds DEF Holds

\* The same elements in another order are the same elements.
LEMMA ReorderedHolds ==
  ASSUME NEW S, NEW c \in Cycles(S), NEW els \in Seq(S), Range(els) = Range(c.elements)
  PROVE  Holds([c EXCEPT !.elements = els], S, Range(c.elements))
BY DEF Cycles, Holds

\* swap_elements keeps what there is.
LEMMA SwapHolds ==
  ASSUME NEW S, NEW c \in Cycles(S), NEW e, NEW f
  PROVE  Holds(SwapElements(c, e, f), S, Range(c.elements))
<1> DEFINE s == c.elements
           t == Swapped(s, FirstAt(s, e), FirstAt(s, f))
<1>1. CASE Contains(c, e) /\ Contains(c, f)
  <2>1. s \in Seq(S) BY DEF Cycles
  <2>2. FirstAt(s, e) \in 1..Len(s) /\ FirstAt(s, f) \in 1..Len(s)
    BY <1>1, <2>1, FirstFacts DEF Contains
  <2>3. t \in Seq(S) /\ Range(t) = Range(s) BY <2>1, <2>2, SwapFacts
  <2>4. SwapElements(c, e, f) = [c EXCEPT !.elements = t] BY <1>1 DEF SwapElements
  <2> HIDE DEF t
  <2> QED BY <2>3, <2>4, ReorderedHolds
<1> QED BY <1>1 DEF SwapElements, Holds

\* reverse keeps what there is.
LEMMA ReverseHolds ==
  ASSUME NEW S, NEW c \in Cycles(S)
  PROVE  Holds(ReverseCycle(c), S, Range(c.elements))
<1> DEFINE s == c.elements
           p == [i \in 1..Len(s) |-> Len(s) + 1 - i]
           t == [i \in DOMAIN s |-> s[Len(s) + 1 - i]]
<1>1. s \in Seq(S) /\ Len(s) \in Nat /\ DOMAIN s = 1..Len(s) BY DEF Cycles
<1>2. Inverses(p, p, Len(s)) BY <1>1 DEF Inverses
<1>3. t = Through(s, p) BY <1>1 DEF Through
<1>4. ReverseCycle(c) = [c EXCEPT !.elements = t] BY DEF ReverseCycle
<1> HIDE DEF p, t
<1>5. t \in Seq(S) /\ Range(t) = Range(s) BY <1>1, <1>2, <1>3, PermutedSeq
<1> QED BY <1>4, <1>5, ReorderedHolds

\* With nothing in it there is nothing to turn.
LEMMA TurnNothing ==
  ASSUME NEW S, NEW s \in Seq(S), Len(s) = 0
  PROVE  TurnLeft(s, 0, 0) = s /\ TurnRight(s, 0, 0) = s
BY DEF TurnLeft, TurnRight

\* rotate keeps what there is.
LEMMA RotateHolds ==
  ASSUME NEW S, NEW c \in Cycles(S), NEW d
  PROVE  Holds(RotateCycle(c, d), S, Range(c.elements))
<1> DEFINE s == c.elements
           t == IF d = "Forward" THEN TurnLeft(s, 0, Len(s)) ELSE TurnRight(s, 0, Len(s))
<1>1. s \in Seq(S) /\ Len(s) \in Nat BY DEF Cycles
<1>2. t \in Seq(S) /\ Range(t) = Range(s)
  <2>1. CASE Len(s) = 0 BY <1>1, <2>1, TurnNothing
  <2>2. CASE Len(s) > 0 BY <1>1, <2>2, TurnFacts
  <2> QED BY <1>1, <2>1, <2>2
<1>3. RotateCycle(c, d) = [c EXCEPT !.elements = t] BY DEF RotateCycle
<1> HIDE DEF t
<1> QED BY <1>2, <1>3, ReorderedHolds

\* rotate_range keeps what there is, and does nothing to a range that is none.
LEMMA RotateRangeHolds ==
  ASSUME NEW S, NEW c \in Cycles(S), NEW d, NEW b \in Nat, NEW e \in Nat
  PROVE  Holds(RotateRange(c, d, b, e), S, Range(c.elements))
<1> DEFINE s == c.elements
           t == IF d = "Backward" THEN TurnLeft(s, b, e) ELSE TurnRight(s, b, e)
<1>1. CASE b >= e \/ b >= Size(c) \/ e > Size(c) BY <1>1 DEF RotateRange, Holds
<1>2. CASE ~(b >= e \/ b >= Size(c) \/ e > Size(c))
  <2>1. s \in Seq(S) /\ b < e /\ e <= Len(s) BY <1>2 DEF Cycles, Size
  <2>2. t \in Seq(S) /\ Range(t) = Range(s) BY <2>1, TurnFacts
  <2>3. RotateRange(c, d, b, e) = [c EXCEPT !.elements = t] BY <1>2 DEF RotateRange
  <2> HIDE DEF t
  <2> QED BY <2>2, <2>3, ReorderedHolds
<1> QED BY <1>1, <1>2

\* The next index is one.
LEMMA NextIndexType ==
  ASSUME NEW S, NEW c \in Cycles(S), NEW d
  PROVE  NextIndex(c, d) \in Nat
BY DEF NextIndex, LastIndex, Size, Cycles

\* cycle_active keeps what there is.
LEMMA CycleHolds ==
  ASSUME NEW S, NEW c \in Cycles(S), NEW d
  PROVE  Holds(CycleActive(c, d), S, Range(c.elements))
<1>1. PushActive(c) \in Cycles(S) /\ PushActive(c).elements = c.elements BY PushHolds
<1>2. NextIndex(c, d) \in Nat BY NextIndexType
<1> QED BY <1>1, <1>2 DEF CycleActive, Cycles, Holds

\* drag_active keeps what there is.
LEMMA DragHolds ==
  ASSUME NEW S, NEW c \in Cycles(S), NEW d
  PROVE  Holds(DragActive(c, d), S, Range(c.elements))
<1> DEFINE next    == NextIndex(c, d)
           t == Swapped(c.elements, c.index + 1, next + 1)
           moves == next # c.index /\ HasActive(c) /\ next < Size(c)
           dragged == IF moves THEN [c EXCEPT !.elements = t] ELSE c
<1>1. dragged \in Cycles(S) /\ Range(dragged.elements) = Range(c.elements)
  <2>1. CASE moves
    <3>1. next \in Nat BY NextIndexType
    <3>2. c.elements \in Seq(S) /\ c.index + 1 \in 1..Len(c.elements)
      BY <2>1 DEF Cycles, HasActive, Size
    <3>3. next + 1 \in 1..Len(c.elements)
      <4> HIDE DEF next
      <4> QED BY <2>1, <3>1, <3>2 DEF Size, moves
    <3> HIDE DEF next
    <3>4. t \in Seq(S) /\ Range(t) = Range(c.elements) BY <3>2, <3>3, SwapFacts
    <3> HIDE DEF t
    <3> QED BY <2>1, <3>4, ReorderedHolds DEF Holds
  <2> HIDE DEF moves
  <2> QED BY <2>1
<1>2. DragActive(c, d) = CycleActive(dragged, d) BY DEF DragActive
<1> HIDE DEF dragged
<1> QED BY <1>1, <1>2, CycleHolds DEF Holds

\* What is active is an element, or there is nothing. active_element is an
\* element, or null.
LEMMA ActiveOrNull ==
  ASSUME NEW S, NEW c \in Cycles(S)
  PROVE  ActiveElement(c) \in Range(c.elements) \cup {Null}
<1>1. c.index < Size(c) => HasActive(c) BY DEF HasActive
<1> QED BY <1>1, ActiveIsElement DEF ActiveElement, ElementAt

\* What a sequence over S holds is in S.
LEMMA RangeType ==
  ASSUME NEW S, NEW c \in Cycles(S)
  PROVE  Range(c.elements) \subseteq S
BY DEF Cycles, Range

============================================================================
