------------------------------ MODULE Folding ------------------------------
(***************************************************************************)
(* Folding a sequence from the left with Op: the step from each prefix to  *)
(* the next, and what is kept by every step. A module that folds with an   *)
(* operator of its own instantiates this one with it.                      *)
(***************************************************************************)
EXTENDS Integers, SequencesExt, WellFoundedInduction, TLAPS

CONSTANT Op(_, _)

Folded(m, s) == FoldLeft(Op, m, s)

\* h goes from m through every element of s, of which there are n.
IsTrace(h, m, s, n) == /\ DOMAIN h = 0..n /\ h[0] = m
                       /\ \A i \in 1..n : h[i] = Op(h[i - 1], s[i])
                       /\ h[n] = Folded(m, s)
Trace(m, s, n) == CHOOSE h : IsTrace(h, m, s, n)

\* Induction up to n, for a set of the indices for which something holds.
LEMMA IndexInduction ==
  ASSUME NEW n \in Nat, NEW G, 0 \in G, \A i \in 1..n : i - 1 \in G => i \in G
  PROVE  n \in G
<1> DEFINE R == OpToRel(<, Nat)
           T == (0..n) \ G
<1>1. SUFFICES ASSUME n \notin G PROVE FALSE OBVIOUS
<1>2. T \subseteq Nat /\ T # {} BY <1>1
<1>3. IsWellFoundedOn(R, Nat) BY NatLessThanWellFounded
<1> HIDE DEF T, R
<1>4. PICK x \in T : \A y \in T : << y, x >> \notin R BY <1>2, <1>3, WFMin
<1> USE DEF T
<1>5. x \in 1..n BY <1>4
<1>6. x - 1 \in T BY <1>4, <1>5
<1>7. << x - 1, x >> \in R BY <1>5 DEF R, OpToRel
<1> QED BY <1>4, <1>6, <1>7

\* A set of indices that has the last of them has it as its greatest.
LEMMA TopOf ==
  ASSUME NEW k \in Nat, NEW t, t \subseteq 1..(k + 1), k + 1 \in t
  PROVE  Max(t) = k + 1
<1>1. k + 1 \in t /\ \A y \in t : k + 1 >= y OBVIOUS
<1>2. ASSUME NEW x \in t, \A y \in t : x >= y PROVE x = k + 1 BY <1>2
<1> QED BY <1>1, <1>2 DEF Max

\* A fold has a history, from the initial value to the result, of which every
\* step applies Op once.
LEMMA FoldSteps ==
  ASSUME NEW m, NEW s, NEW n \in Nat, DOMAIN s = 1..n
  PROVE  IsTrace(Trace(m, s, n), m, s, n)
<1> DEFINE Body(g, t) == IF t = {} THEN m ELSE Op(g[t \ {Max(t)}], s[Max(t)])
           Solves(g, k) == g = [t \in SUBSET (1..k) |-> Body(g, t)]
           iter == CHOOSE g : Solves(g, n)
           G == {k \in 0..n : \E g : Solves(g, k)}
<1>1. Folded(m, s) = iter[1..n]
  BY DEF Folded, FoldLeft, MapThenFoldSet
<1>2. 0 \in G
  <2> DEFINE g == [t \in SUBSET (1..0) |-> m]
  <2>1. 1..0 = {} /\ SUBSET {} = {{}} OBVIOUS
  <2>2. Solves(g, 0) BY <2>1
  <2> QED BY <2>2
<1>3. ASSUME NEW i \in 1..n, i - 1 \in G PROVE i \in G
  <2>1. PICK g : Solves(g, i - 1) BY <1>3
  <2> DEFINE f == [t \in SUBSET (1..i) |->
                     IF t \subseteq 1..(i - 1) THEN g[t] ELSE Op(g[t \ {i}], s[i])]
  <2>2. ASSUME NEW t \in SUBSET (1..i), t \subseteq 1..(i - 1) PROVE f[t] = Body(f, t)
    <3>1. f[t] = g[t] /\ g[t] = Body(g, t) BY <2>1, <2>2
    <3>2. t \ {Max(t)} \subseteq 1..(i - 1) BY <2>2
    <3>3. f[t \ {Max(t)}] = g[t \ {Max(t)}] BY <3>2
    <3> QED BY <3>1, <3>3
  <2>3. ASSUME NEW t \in SUBSET (1..i), ~ (t \subseteq 1..(i - 1)) PROVE f[t] = Body(f, t)
    <3>1. i \in t BY <2>3
    <3>2. Max(t) = i
      <4>1. i = (i - 1) + 1 /\ i - 1 \in Nat OBVIOUS
      <4> QED BY <3>1, <4>1, TopOf
    <3>3. t \ {i} \subseteq 1..(i - 1) BY <2>3
    <3>4. f[t \ {i}] = g[t \ {i}] BY <3>3
    <3> QED BY <2>3, <3>1, <3>2, <3>4
  <2>4. Solves(f, i) BY <2>2, <2>3
  <2> HIDE DEF f, Solves
  <2>5. \E g1 : Solves(g1, i) BY <2>4
  <2> QED BY <2>5
<1>4. n \in G
  <2> HIDE DEF G
  <2> QED BY <1>2, <1>3, IndexInduction
<1>5. Solves(iter, n)
  <2>1. \E g : Solves(g, n) BY <1>4
  <2> HIDE DEF Solves
  <2> QED BY <2>1
<1> HIDE DEF iter
<1> DEFINE h == [i \in 0..n |-> iter[1..i]]
<1>6. h[0] = m BY <1>5
<1>7. ASSUME NEW i \in 1..n PROVE h[i] = Op(h[i - 1], s[i])
  <2>1. 1..i \in SUBSET (1..n) /\ 1..i # {} /\ i \in 1..i OBVIOUS
  <2>2. Max(1..i) = i
      <4>1. i = (i - 1) + 1 /\ i - 1 \in Nat OBVIOUS
      <4> QED BY <2>1, <4>1, TopOf
  <2>3. (1..i) \ {i} = 1..(i - 1) OBVIOUS
  <2>4. iter[1..i] = Op(iter[1..(i-1)], s[i]) BY <1>5, <2>1, <2>2, <2>3
  <2> QED BY <2>4
<1>8. DOMAIN h = 0..n /\ h[n] = iter[1..n] OBVIOUS
<1> HIDE DEF h
<1>9. IsTrace(h, m, s, n) BY <1>1, <1>6, <1>7, <1>8 DEF IsTrace
<1> QED BY <1>9 DEF Trace

\* What the initial value has and Op keeps, the result has.
LEMMA FoldKeeps ==
  \A G, s : \A m \in G, n \in Nat :
    DOMAIN s = 1..n /\ (\A x \in G, i \in 1..n : Op(x, s[i]) \in G) => Folded(m, s) \in G
<1> SUFFICES ASSUME NEW G, NEW s, NEW m \in G, NEW n \in Nat, DOMAIN s = 1..n,
                    \A x \in G, i \in 1..n : Op(x, s[i]) \in G
             PROVE  Folded(m, s) \in G
  OBVIOUS
<1> DEFINE h == Trace(m, s, n)
<1>0. IsTrace(h, m, s, n) BY FoldSteps
<1>1. /\ DOMAIN h = 0..n /\ h[0] = m /\ h[n] = Folded(m, s)
      /\ \A i \in 1..n : h[i] = Op(h[i - 1], s[i])
  BY <1>0 DEF IsTrace
<1> HIDE DEF h
<1> DEFINE P == {i \in 0..n : h[i] \in G}
<1>2. 0 \in P BY <1>1
<1>3. ASSUME NEW i \in 1..n, i - 1 \in P PROVE i \in P
  <2>1. h[i - 1] \in G BY <1>3
  <2>2. h[i] \in G BY <1>1, <2>1
  <2> QED BY <2>2
<1>4. n \in P
  <2> HIDE DEF P
  <2> QED BY <1>2, <1>3, IndexInduction
<1> QED BY <1>1, <1>4
\* What is known after each step of the fold is known of its result after the
\* last: D[i] are the values that may be reached by the first i steps.
LEMMA FoldReaches ==
  \A D, s : \A n \in Nat : \A m \in D[0] :
    DOMAIN s = 1..n /\ (\A i \in 1..n : \A x \in D[i - 1] : Op(x, s[i]) \in D[i])
    => Folded(m, s) \in D[n]
<1> SUFFICES ASSUME NEW D, NEW s, NEW n \in Nat, NEW m \in D[0], DOMAIN s = 1..n,
                    \A i \in 1..n : \A x \in D[i - 1] : Op(x, s[i]) \in D[i]
             PROVE  Folded(m, s) \in D[n]
  OBVIOUS
<1> DEFINE h == Trace(m, s, n)
<1>0. IsTrace(h, m, s, n) BY FoldSteps
<1>1. /\ DOMAIN h = 0..n /\ h[0] = m /\ h[n] = Folded(m, s)
      /\ \A i \in 1..n : h[i] = Op(h[i - 1], s[i])
  BY <1>0 DEF IsTrace
<1> HIDE DEF h
<1> DEFINE P == {i \in 0..n : h[i] \in D[i]}
<1>2. 0 \in P BY <1>1
<1>3. ASSUME NEW i \in 1..n, i - 1 \in P PROVE i \in P
  <2>1. h[i - 1] \in D[i - 1] BY <1>3
  <2>2. h[i] \in D[i] BY <1>1, <2>1
  <2> QED BY <2>2
<1>4. n \in P
  <2> HIDE DEF P
  <2> QED BY <1>2, <1>3, IndexInduction
<1> QED BY <1>1, <1>4

==============================================================================
