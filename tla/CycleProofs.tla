---------------------------- MODULE CycleProofs ----------------------------
(***************************************************************************)
(* A cycle stays well formed under every sequence of the calls the program *)
(* makes, whatever is stored in it and however much. The invariant is      *)
(* inductive as it stands: that the history names live elements is what    *)
(* lets sync_active find an index, and that the elements are distinct is   *)
(* what makes the index it finds the right one.                            *)
(***************************************************************************)
EXTENDS CycleSpec, CycleLemmas

LEMMA InitCycle == Init => IsCycle(cycle, Elements)
<1> SUFFICES ASSUME NEW u \in BOOLEAN, cycle = EmptyCycle(u)
             PROVE  IsCycle(cycle, Elements)
  BY DEF Init
<1> DEFINE nil == << >>
<1>1. nil \in Seq(Elements) /\ IsDistinct(nil) /\ Range(nil) = {} /\ Len(nil) = 0
  BY DEF IsDistinct, Range
<1>2. cycle = [elements |-> nil, index |-> 0, stack |-> nil, unwindable |-> u]
  BY DEF EmptyCycle
<1> HIDE DEF nil
<1>3. QED
  BY <1>1, <1>2 DEF IsCycle, Cycles, IndexBounded, LiveHistory, LastIndex, Size

LEMMA NextCycle == IsCycle(cycle, Elements) /\ [Next]_cycle => IsCycle(cycle, Elements)'
<1> SUFFICES ASSUME IsCycle(cycle, Elements), [Next]_cycle
             PROVE  IsCycle(cycle', Elements)
  BY DEF IsCycle, Cycles, IndexBounded, LiveHistory, LastIndex, Size
<1>1. ASSUME NEW e \in Elements, Insert(e)
      PROVE  IsCycle(cycle', Elements)
  BY <1>1, InsertKeepsCycle DEF Insert
<1>2. ASSUME NEW e \in Elements, Remove(e)
      PROVE  IsCycle(cycle', Elements)
  BY <1>2, RemoveKeepsCycle DEF Remove
<1>3. ASSUME NEW e \in Elements, Activate(e)
      PROVE  IsCycle(cycle', Elements)
  BY <1>3, ActivateElementKeepsCycle DEF Activate
<1>4. ASSUME NEW e \in Elements, Refill(e)
      PROVE  IsCycle(cycle', Elements)
  BY <1>4, RefillKeepsCycle DEF Refill
<1>5. ASSUME NEW e \in Elements, NEW r \in Elements, Replace(e, r)
      PROVE  IsCycle(cycle', Elements)
  BY <1>5, ReplaceKeepsCycle DEF Replace
<1>6. ASSUME NEW e \in Elements, NEW f \in Elements, Swap(e, f)
      PROVE  IsCycle(cycle', Elements)
  BY <1>6, SwapKeepsCycle DEF Swap
<1>7. ASSUME NEW d \in Directions, Rotate(d)
      PROVE  IsCycle(cycle', Elements)
  <2>1. Size(cycle) > 0
    BY <1>7, CycleParts DEF Rotate
  <2>2. QED
    BY <1>7, <2>1, RotateKeepsCycle DEF Rotate
<1>8. ASSUME NEW d \in Directions, Step(d)
      PROVE  IsCycle(cycle', Elements)
  BY <1>8, CycleActiveKeepsCycle DEF Step
<1>9. ASSUME NEW d \in Directions, Drag(d)
      PROVE  IsCycle(cycle', Elements)
  BY <1>9, DragKeepsCycle DEF Drag
<1>10. ASSUME NEW d \in Directions, NEW b \in 0..Size(cycle),
              NEW e \in 0..Size(cycle), RotatePart(d, b, e)
       PROVE  IsCycle(cycle', Elements)
  <2>1. b \in Nat /\ e \in Nat
    BY CycleParts
  <2>2. QED
    BY <1>10, <2>1, RotateRangeKeepsCycle DEF RotatePart
<1>11. CASE ActivateFirst
  BY <1>11, ActivateAtIndexKeepsCycle DEF ActivateFirst
<1>12. CASE ActivateLast
  <2>1. /\ LastIndex(cycle) \in Nat
        /\ LastIndex(cycle) = 0 \/ LastIndex(cycle) < Size(cycle)
    BY CycleParts DEF LastIndex
  <2>2. QED
    BY <1>12, <2>1, ActivateAtIndexKeepsCycle DEF ActivateLast
<1>13. CASE ReverseAll
  BY <1>13, ReverseKeepsCycle DEF ReverseAll
<1>14. CASE UNCHANGED cycle
  BY <1>14
<1>15. QED
  BY <1>1, <1>2, <1>3, <1>4, <1>5, <1>6, <1>7, <1>8, <1>9, <1>10, <1>11,
     <1>12, <1>13, <1>14 DEF Next

\* Every operation of cycle.t.hh that the program calls keeps the index within
\* the deque, the elements distinct and the history a duplicate-free list of
\* elements still present.
THEOREM CycleStaysWellFormed == Spec => []IsCycle(cycle, Elements)
<1>1. IsCycle(cycle, Elements) /\ [Next]_cycle => IsCycle(cycle, Elements)'
  BY NextCycle
<1>2. QED
  BY InitCycle, <1>1, PTL DEF Spec

\* The fields of a cycle keep their types, and m_index never leaves the deque
\* (the decrement of remove_element and the fall-back of sync_active included).
THEOREM TypeIsKept == Spec => []CycleTypeOK
<1>1. IsCycle(cycle, Elements) => CycleTypeOK
  BY DEF IsCycle, CycleTypeOK
<1>2. QED
  BY <1>1, CycleStaysWellFormed, PTL

\* No operation stores an element twice.
THEOREM ElementsStayDistinct == Spec => []NoDuplicates
<1>1. IsCycle(cycle, Elements) => NoDuplicates
  BY DEF IsCycle, NoDuplicates
<1>2. QED
  BY <1>1, CycleStaysWellFormed, PTL

\* The history never names an element that was removed, and never twice.
THEOREM HistoryStaysLive == Spec => []HistoryIsLive
<1>1. IsCycle(cycle, Elements) => HistoryIsLive
  BY DEF IsCycle, HistoryIsLive
<1>2. QED
  BY <1>1, CycleStaysWellFormed, PTL

----------------------------------------------------------------------------
(* What moves the active element.                                          *)

\* The element that was active is on top of the new history.
LeavesOnTop(c, d) == d.stack # << >> /\ d.stack[Len(d.stack)] = ActiveElement(c)

LEMMA PushLeavesOnTop ==
  ASSUME NEW c, IsCycle(c, Elements), c.unwindable, HasActive(c)
  PROVE  LeavesOnTop(c, PushActive(c))
<1> DEFINE e  == ActiveElement(c)
           st == EraseRemove(c.stack, e)
<1>1. e \in Elements BY ActiveIsElement DEF IsCycle
<1>2. st \in Seq(Elements) BY CycleParts, EraseFacts
<1>3. PushActive(c).stack = Append(st, e) BY CycleParts DEF PushActive
<1> HIDE DEF e, st
<1>4. /\ Append(st, e) \in Seq(Elements) /\ Len(Append(st, e)) = Len(st) + 1
      /\ Append(st, e)[Len(st) + 1] = e
  BY <1>1, <1>2
<1> QED BY <1>3, <1>4 DEF LeavesOnTop, e

\* A new index in PushActive is all that activate_at_index and cycle_active set.
LEMMA MoveLeavesOnTop ==
  ASSUME NEW c, IsCycle(c, Elements), c.unwindable, HasActive(c), NEW i
  PROVE  LeavesOnTop(c, [PushActive(c) EXCEPT !.index = i])
<1>1. IsCycle(PushActive(c), Elements) BY PushKeepsCycle
<1>2. [PushActive(c) EXCEPT !.index = i].stack = PushActive(c).stack BY <1>1, CycleParts
<1> QED BY <1>2, PushLeavesOnTop DEF LeavesOnTop

LEMMA ActivationLeavesOnTop ==
  ASSUME NEW c, IsCycle(c, Elements), c.unwindable, HasActive(c), NEW i,
         ActivateAtIndex(c, i).index # c.index
  PROVE  LeavesOnTop(c, ActivateAtIndex(c, i))
BY MoveLeavesOnTop DEF ActivateAtIndex

\* A removal that leaves the elements as they were leaves the index.
LEMMA IdleRemoval ==
  ASSUME NEW c, IsCycle(c, Elements), NEW e, RemoveElement(c, e).elements = c.elements
  PROVE  RemoveElement(c, e).index = c.index
<1>1. RemoveElement(c, e).elements = EraseRemove(c.elements, e)
  BY CycleParts DEF RemoveElement, SyncActive
<1>2. ~ Contains(c, e)
  <2>1. Range(EraseRemove(c.elements, e)) = Range(c.elements) \ {e} BY CycleParts, EraseFacts
  <2> QED BY <1>1, <2>1 DEF Contains
<1> QED BY <1>2, CycleParts DEF RemoveElement, IsActiveElement

\* A drag that moves the index has moved the active element there.
LEMMA IdleDrag ==
  ASSUME NEW c, IsCycle(c, Elements), Size(c) > 0, NEW d \in Directions,
         DragActive(c, d).elements = c.elements, HasActive(c)
  PROVE  DragActive(c, d).index = c.index
<1> DEFINE next == NextIndex(c, d)
           dragged == [c EXCEPT !.elements = Swapped(c.elements, c.index + 1, next + 1)]
<1> SUFFICES ASSUME next # c.index PROVE DragActive(c, d).elements # c.elements
  <2>1. CASE next = c.index
    <3>1. DragActive(c, d) = CycleActive(c, d) BY <2>1 DEF DragActive
    <3>2. IsCycle(PushActive(c), Elements) BY PushKeepsCycle
    <3>3. CycleActive(c, d).index = next BY <3>2, CycleParts DEF CycleActive
    <3> QED BY <2>1, <3>1, <3>3
  <2> QED BY <2>1
<1>1. next \in 0..(Size(c) - 1) /\ c.index \in 0..(Size(c) - 1) /\ Size(c) = Len(c.elements)
  BY NextIndexFacts, CycleParts DEF HasActive, Size
<1>2. Swapped(c.elements, c.index + 1, next + 1) # c.elements
  <2>1. c.elements[c.index + 1] # c.elements[next + 1] BY <1>1, CycleParts DEF IsDistinct
  <2>2. Swapped(c.elements, c.index + 1, next + 1)[next + 1] = c.elements[c.index + 1]
    BY <1>1, CycleParts DEF Swapped
  <2> QED BY <2>1, <2>2
<1>3. IsCycle(dragged, Elements)
  <2> DEFINE t == Swapped(c.elements, c.index + 1, next + 1)
  <2>1. c.index + 1 \in 1..Len(c.elements) /\ next + 1 \in 1..Len(c.elements)
    BY <1>1, CycleParts
  <2> HIDE DEF next
  <2>2. /\ t \in Seq(Elements) /\ Len(t) = Len(c.elements) /\ IsDistinct(t)
        /\ Range(t) = Range(c.elements)
    BY <2>1, CycleParts, SwapFacts
  <2> HIDE DEF t
  <2>3. IsCycle([c EXCEPT !.elements = t], Elements) BY <2>2, CycleParts, PermutedCycle
  <2> QED BY <2>3 DEF t
<1>4. DragActive(c, d) = CycleActive(dragged, d) BY <1>1 DEF DragActive, HasActive
<1>5. CycleActive(dragged, d).elements = dragged.elements
  <2> HIDE DEF dragged
  <2>1. IsCycle(PushActive(dragged), Elements)
        /\ PushActive(dragged) = [dragged EXCEPT !.stack = PushActive(dragged).stack]
    BY <1>3, PushKeepsCycle
  <2> QED BY <1>3, <2>1, CycleParts DEF CycleActive
<1>6. dragged.elements = Swapped(c.elements, c.index + 1, next + 1) BY CycleParts
<1> QED BY <1>2, <1>4, <1>5, <1>6

LEMMA StepsRecord ==
  ASSUME IsCycle(cycle, Elements), Next, cycle'.elements = cycle.elements,
         cycle'.index # cycle.index, cycle.unwindable, HasActive(cycle)
  PROVE  LeavesOnTop(cycle, cycle')
<1> DEFINE p == PushActive(cycle)
<1>0. /\ IsCycle(p, Elements) /\ p.elements = cycle.elements /\ p.index = cycle.index
      /\ Size(cycle) = Len(cycle.elements)
  <2>1. IsCycle(p, Elements) /\ p = [cycle EXCEPT !.stack = p.stack] BY PushKeepsCycle
  <2> HIDE DEF p
  <2> QED BY <2>1, CycleParts DEF Size
<1>1. ASSUME NEW e \in Elements, Insert(e) PROVE FALSE
  <2>1. cycle'.elements = Append(cycle.elements, e)
    BY <1>0, <1>1, CycleParts DEF Insert, InsertAtBack
  <2>2. Len(Append(cycle.elements, e)) = Len(cycle.elements) + 1 /\ Len(cycle.elements) \in Nat
    BY CycleParts
  <2> QED BY <2>1, <2>2
<1>2. ASSUME NEW e \in Elements, Remove(e) PROVE FALSE
  BY <1>2, IdleRemoval DEF Remove
<1>3. ASSUME NEW e \in Elements, Activate(e) PROVE LeavesOnTop(cycle, cycle')
  BY <1>3, ActivationLeavesOnTop DEF Activate, ActivateElement
<1>4. ASSUME NEW e \in Elements, Refill(e) PROVE FALSE
  <2> DEFINE z == ClearCycle(cycle)
  <2>1. z.elements = << >> /\ Size(z) = 0 /\ ~ HasActive(z)
    BY CycleParts DEF ClearCycle, Size, HasActive
  <2>2. cycle' = [z EXCEPT !.elements = Append(z.elements, e), !.index = 0]
    BY <1>4, <2>1 DEF Refill, InsertAtBack, PushActive
  <2>3. cycle'.elements = << e >> /\ cycle'.index = 0
    BY <2>1, <2>2, CycleParts DEF ClearCycle
  <2> QED BY <1>0, <2>3, CycleParts DEF HasActive
<1>5. ASSUME NEW e \in Elements, NEW r \in Elements, Replace(e, r) \/ Swap(e, r) PROVE FALSE
  BY <1>5, CycleParts DEF Replace, ReplaceElement, Swap, SwapElements
<1>6. ASSUME NEW d \in Directions, Rotate(d) PROVE FALSE
  BY <1>6, CycleParts DEF Rotate, RotateCycle
<1>7. ASSUME NEW d \in Directions, Step(d) PROVE LeavesOnTop(cycle, cycle')
  BY <1>7, MoveLeavesOnTop DEF Step, CycleActive
<1>8. ASSUME NEW d \in Directions, Drag(d) PROVE FALSE
  BY <1>8, IdleDrag DEF Drag
<1>9. ASSUME NEW d \in Directions, NEW b, NEW e, RotatePart(d, b, e) PROVE FALSE
  BY <1>9, CycleParts DEF RotatePart, RotateRange
<1>10. CASE ActivateFirst \/ ActivateLast
  BY <1>10, ActivationLeavesOnTop DEF ActivateFirst, ActivateLast
<1>11. CASE ReverseAll
  BY <1>11, CycleParts DEF ReverseAll, ReverseCycle
<1> QED BY <1>1, <1>2, <1>3, <1>4, <1>5, <1>6, <1>7, <1>8, <1>9, <1>10, <1>11 DEF Next

\* While the elements stay in order, the active one is left only by a move that
\* the history records: whatever is removed later, the focus can fall back to it.
THEOREM MovesStayRecorded == Spec => MovesAreRecorded
<1>1. IsCycle(cycle, Elements) /\ [Next]_cycle =>
        [ /\ cycle'.elements = cycle.elements
          /\ cycle'.index # cycle.index
          /\ cycle.unwindable /\ HasActive(cycle)
          => /\ cycle'.stack # << >>
             /\ cycle'.stack[Len(cycle'.stack)] = ActiveElement(cycle) ]_cycle
  BY StepsRecord DEF LeavesOnTop
<1> QED BY <1>1, CycleStaysWellFormed, PTL DEF Spec, MovesAreRecorded

----------------------------------------------------------------------------
(* A cycle is a focus history.                                             *)

\* Without duplicates, removal as the focus history states it is std::remove.
LEMMA WithoutIsErase ==
  ASSUME NEW S, NEW s \in Seq(S), IsDistinct(s), NEW e
  PROVE  FH!Without(s, e) = EraseRemove(s, e)
<1> DEFINE at == {i \in DOMAIN s : s[i] = e}
           k  == CHOOSE i \in at : TRUE
<1>1. CASE at = {}
  <2>1. e \notin Range(s) BY <1>1 DEF Range
  <2> QED BY <1>1, <2>1, EraseAbsent DEF FH!Without
<1>2. CASE at # {}
  <2>1. k \in at BY <1>2
  <2>2. k \in DOMAIN s /\ s[k] = e BY <2>1
  <2>3. FH!Without(s, e) = [i \in 1..(Len(s) - 1) |-> IF i < k THEN s[i] ELSE s[i + 1]]
    BY <1>2 DEF FH!Without
  <2> HIDE DEF k
  <2> QED BY <2>2, <2>3, ErasePresent
<1> QED BY <1>1, <1>2

\* A cycle that is not empty has an active element, an empty one has none.
LEMMA ActiveOfCycle ==
  ASSUME NEW c, IsCycle(c, Elements)
  PROVE  /\ Size(c) > 0 => ActiveElement(c) \in Range(c.elements) /\ HasActive(c)
         /\ Size(c) = 0 => ActiveElement(c) = Null /\ Range(c.elements) = {}
         /\ Range(c.elements) \subseteq Elements
         /\ Size(c) = 0 \/ Size(c) > 0
<1>1. CASE Size(c) > 0
  <2>1. HasActive(c) BY <1>1, CycleParts DEF HasActive
  <2> QED BY <1>1, <2>1, ActiveIsElement, CycleParts DEF IsCycle, Range
<1>2. CASE Size(c) = 0
  BY <1>2, CycleParts DEF ActiveElement, ElementAt, Range
<1> QED BY <1>1, <1>2, CycleParts

\* push_active_to_stack moves the active element to the top.
LEMMA PushMovesToTop ==
  ASSUME NEW c, IsCycle(c, Elements), c.unwindable = cycle.unwindable
  PROVE  PushActive(c).stack = FH!MovedToTop(c.stack, ActiveElement(c))
<1>1. HasActive(c) <=> ActiveElement(c) # Null
  BY ActiveOfCycle, NullIsNoElement, CycleParts DEF HasActive
<1>2. FH!Without(c.stack, ActiveElement(c)) = EraseRemove(c.stack, ActiveElement(c))
  BY CycleParts, WithoutIsErase
<1> QED BY <1>1, <1>2, CycleParts DEF PushActive, FH!MovedToTop

\* A move to another index is a change of focus.
LEMMA MoveFocuses ==
  ASSUME IsCycle(cycle, Elements), NEW i \in Nat, i < Size(cycle),
         cycle' = [PushActive(cycle) EXCEPT !.index = i]
  PROVE  \E e \in Elements : FH!Focus(e)
<1> DEFINE p == PushActive(cycle)
           e == cycle.elements[i + 1]
<1>1. IsCycle(p, Elements) /\ p = [cycle EXCEPT !.stack = p.stack] BY PushKeepsCycle
<1>2. p.stack = FH!MovedToTop(cycle.stack, ActiveElement(cycle)) BY PushMovesToTop
<1> HIDE DEF p
<1>3. cycle'.elements = cycle.elements /\ cycle'.index = i /\ cycle'.stack = p.stack
      /\ cycle'.unwindable = cycle.unwindable
  BY <1>1, CycleParts DEF p
<1>4. i + 1 \in DOMAIN cycle.elements BY CycleParts
<1>5. e \in Range(cycle.elements) /\ e \in Elements BY <1>4, CycleParts DEF Range
<1>6. ActiveElement(cycle)' = e BY <1>3 DEF ActiveElement, ElementAt, Size
<1>7. Range(cycle.elements)' = Range(cycle.elements) BY <1>3
<1> QED BY <1>2, <1>3, <1>5, <1>6, <1>7 DEF FH!Focus

\* Other orders of the elements slide under the focus.
LEMMA OrderSlides ==
  ASSUME IsCycle(cycle, Elements), NEW els \in Seq(Elements), IsDistinct(els),
         Len(els) = Len(cycle.elements), Range(els) = Range(cycle.elements),
         cycle' = [cycle EXCEPT !.elements = els]
  PROVE  [FH!FHNext]_(FH!fhVars)
<1>1. IsCycle(cycle', Elements) BY PermutedCycle
<1>2. cycle'.elements = els /\ cycle'.stack = cycle.stack /\ cycle'.unwindable = cycle.unwindable
  BY CycleParts
<1>3. Size(cycle') = Size(cycle) BY <1>2 DEF Size
<1>4. ActiveElement(cycle)' = ActiveElement(cycle') /\ Range(cycle.elements)' = Range(els)
  BY <1>2 DEF ActiveElement, ElementAt, Size
<1>5. CASE Size(cycle) = 0
  <2>1. ActiveElement(cycle') = ActiveElement(cycle) BY <1>1, <1>3, <1>5, ActiveOfCycle
  <2> QED BY <1>2, <1>4, <2>1 DEF FH!fhVars
<1>6. CASE Size(cycle) > 0
  <2> DEFINE e == ActiveElement(cycle')
  <2>1. e \in Range(els) /\ e \in Elements BY <1>1, <1>2, <1>3, <1>6, ActiveOfCycle
  <2>2. FH!Slide(e) BY <1>2, <1>4, <2>1 DEF FH!Slide
  <2> QED BY <2>1, <2>2 DEF FH!FHNext
<1> QED BY <1>5, <1>6, ActiveOfCycle

\* What is inserted is active, and the element left is remembered.
LEMMA InsertEnters ==
  ASSUME IsCycle(cycle, Elements), NEW e \in Elements, Insert(e)
  PROVE  FH!Enter(e)
<1> DEFINE p == PushActive(cycle)
           els == Append(cycle.elements, e)
<1>1. IsCycle(p, Elements) /\ p = [cycle EXCEPT !.stack = p.stack] BY PushKeepsCycle
<1>2. p.stack = FH!MovedToTop(cycle.stack, ActiveElement(cycle)) BY PushMovesToTop
<1>3. e \notin Range(cycle.elements) BY DEF Insert, Contains
<1>4. /\ els \in Seq(Elements) /\ Len(els) = Size(cycle) + 1
      /\ Range(els) = Range(cycle.elements) \cup {e}
      /\ els[Size(cycle) + 1] = e
  BY <1>3, CycleParts, AppendFresh
<1> HIDE DEF p
<1>5. cycle'.elements = els /\ cycle'.index = Size(cycle) /\ cycle'.stack = p.stack
      /\ cycle'.unwindable = cycle.unwindable
  BY <1>1, CycleParts DEF p, Insert, InsertAtBack
<1> HIDE DEF els
<1>6. ActiveElement(cycle)' = e
  BY <1>4, <1>5, CycleParts DEF ActiveElement, ElementAt, Size
<1>7. Range(cycle.elements)' = Range(cycle.elements) \cup {e} BY <1>4, <1>5
<1> QED BY <1>2, <1>3, <1>5, <1>6, <1>7 DEF FH!Enter

\* Another element than the active one leaves: the index follows the elements
\* that move down.
LEMMA RemoveLeavesActive ==
  ASSUME IsCycle(cycle, Elements), NEW e \in Range(cycle.elements), Remove(e),
         ~IsActiveElement(cycle, e)
  PROVE  FH!LeaveInactive(e)
<1> DEFINE s   == cycle.elements
           k   == FirstAt(s, e)
           els == EraseRemove(s, e)
           st  == EraseRemove(cycle.stack, e)
           i   == IF cycle.index >= k - 1 /\ cycle.index # 0 THEN cycle.index - 1 ELSE cycle.index
<1>1. s \in Seq(Elements) /\ IsDistinct(s) /\ Len(s) \in Nat BY CycleParts
<1>2. k \in 1..Len(s) /\ s[k] = e BY <1>1, IndexOfFacts
<1>3. els = [j \in 1..(Len(s) - 1) |-> IF j < k THEN s[j] ELSE s[j + 1]]
  <2> HIDE DEF k
  <2>1. k \in DOMAIN s BY <1>1, <1>2
  <2>2. EraseRemove(s, s[k]) = [j \in 1..(Len(s) - 1) |-> IF j < k THEN s[j] ELSE s[j + 1]]
    BY <1>1, <2>1, ErasePresent
  <2> QED BY <1>2, <2>2
<1>4. els \in Seq(Elements) /\ Len(els) = Len(s) - 1 /\ Range(els) = Range(s) \ {e}
  BY <1>1, EraseFacts
<1>5. cycle.index < Len(s) /\ cycle.index \in Nat /\ Size(cycle) = Len(s)
  BY <1>1, <1>2, CycleParts
<1>6. cycle.index # k - 1
  BY <1>5 DEF IsActiveElement, HasActive, Contains, IndexOf
<1>7. cycle' = [cycle EXCEPT !.elements = els, !.stack = st, !.index = i]
  BY DEF Remove, RemoveElement, Contains, IndexOf
<1>8. cycle'.elements = els /\ cycle'.index = i /\ cycle'.stack = st
      /\ cycle'.unwindable = cycle.unwindable
  <2> HIDE DEF els, st, i
  <2> QED BY <1>7, CycleParts
<1>9. st = FH!Without(cycle.stack, e) BY CycleParts, WithoutIsErase
<1> HIDE DEF st
<1>10. ActiveElement(cycle) = s[cycle.index + 1] /\ cycle.index + 1 # k
  BY <1>5, <1>6, <1>2 DEF ActiveElement, ElementAt
<1>11. i \in Nat /\ i < Len(s) - 1 /\ els[i + 1] = s[cycle.index + 1]
  <2> HIDE DEF k, els
  <2>1. CASE cycle.index >= k - 1
    <3>1. cycle.index >= k /\ i = cycle.index - 1 BY <1>2, <1>5, <1>6, <2>1
    <3>2. i + 1 \in 1..(Len(s) - 1) /\ ~(i + 1 < k) BY <1>2, <1>5, <3>1
    <3> QED BY <1>3, <1>5, <3>1, <3>2
  <2>2. CASE ~(cycle.index >= k - 1)
    <3>1. i = cycle.index /\ i + 1 < k /\ i + 1 \in 1..(Len(s) - 1) BY <1>1, <1>2, <1>5, <2>2
    <3> QED BY <1>3, <1>5, <3>1
  <2> QED BY <2>1, <2>2
<1>12. ActiveElement(cycle)' = s[cycle.index + 1]
  BY <1>4, <1>8, <1>11 DEF ActiveElement, ElementAt, Size
<1>13. e # ActiveElement(cycle)
  BY <1>1, <1>2, <1>5, <1>10 DEF IsDistinct
<1>14. Range(cycle.elements)' = Range(s) \ {e} BY <1>4, <1>8
<1> QED BY <1>8, <1>9, <1>10, <1>12, <1>13, <1>14 DEF FH!LeaveInactive

\* The active element leaves: the one left last takes over, wherever it is.
LEMMA RemoveFallsBack ==
  ASSUME IsCycle(cycle, Elements), NEW e, Remove(e), IsActiveElement(cycle, e)
  PROVE  FH!LeaveActive
<1> DEFINE s    == cycle.elements
           els  == EraseRemove(s, e)
           rest == EraseRemove(cycle.stack, e)
           i    == IF cycle.index # 0 /\ Contains(cycle, e) /\ cycle.index >= IndexOf(s, e)
                   THEN cycle.index - 1 ELSE cycle.index
           erased == [cycle EXCEPT !.elements = els, !.stack = rest, !.index = i]
           live == {j \in DOMAIN erased.stack : Contains(erased, erased.stack[j])}
           top  == CHOOSE j \in live : \A n \in live : n <= j
<1>1. s \in Seq(Elements) /\ IsDistinct(s) /\ Len(s) \in Nat /\ Size(cycle) = Len(s) BY CycleParts
<1>2. e \in Range(s) /\ cycle.index = IndexOf(s, e) /\ cycle.index < Len(s)
  BY <1>1 DEF IsActiveElement, Contains, HasActive
<1>3. e = ActiveElement(cycle) /\ e \in Elements
  BY <1>1, <1>2, IndexOfFacts DEF ActiveElement, ElementAt, IndexOf, Range
<1>4. els \in Seq(Elements) /\ IsDistinct(els) /\ Range(els) = Range(s) \ {e} /\ Len(els) \in Nat
  BY <1>1, EraseFacts
<1>5. /\ rest \in Seq(Elements) /\ Range(rest) = Range(cycle.stack) \ {e} /\ Len(rest) \in Nat
      /\ DOMAIN rest = 1..Len(rest)
  BY CycleParts, EraseFacts
<1>6. rest = FH!Without(cycle.stack, ActiveElement(cycle)) BY <1>3, CycleParts, WithoutIsErase
<1>7. cycle' = SyncActive(erased) BY DEF Remove, RemoveElement
<1>8. IsCycle(cycle', Elements) BY RemoveKeepsCycle DEF Remove
<1> HIDE DEF els, rest, i
<1>9. erased.elements = els /\ erased.stack = rest /\ erased.unwindable = cycle.unwindable
      /\ erased.index = i
  BY CycleParts
<1>10. live = DOMAIN rest
  <2>1. Range(rest) \subseteq Range(els) BY <1>4, <1>5, CycleParts
  <2>2. \A j \in DOMAIN rest : rest[j] \in Range(els) BY <2>1 DEF Range
  <2> HIDE DEF erased
  <2> QED BY <1>9, <2>2 DEF Contains
<1>11. e # Null BY <1>3, NullIsNoElement
<1>12. CASE rest = << >>
  <2>1. live = {} BY <1>10, <1>12
  <2>2. cycle' = [erased EXCEPT !.stack = << >>] BY <1>7, <2>1 DEF SyncActive
  <2>3. cycle'.elements = els /\ cycle'.stack = << >> /\ cycle'.unwindable = cycle.unwindable
    BY <1>9, <2>2, CycleParts
  <2>4. Range(cycle.elements)' = Range(s) \ {e} BY <1>4, <2>3
  <2>5. ActiveElement(cycle)' = ActiveElement(cycle')
    BY DEF ActiveElement, ElementAt, Size
  <2>6. ActiveElement(cycle') \in IF Range(cycle'.elements) = {} THEN {Null} ELSE Range(cycle'.elements)
    BY <1>8, ActiveOfCycle
  <2> QED BY <1>3, <1>6, <1>11, <1>12, <2>3, <2>4, <2>5, <2>6 DEF FH!LeaveActive
<1>13. CASE rest # << >>
  <2>1. Len(rest) \in live /\ \A j \in live : j <= Len(rest) BY <1>5, <1>10, <1>13
  <2>2. top = Len(rest)
    <3>1. live \subseteq 1..Len(rest) BY <1>5, <1>10
    <3> HIDE DEF live
    <3>2. top \in live /\ \A j \in live : j <= top BY <2>1
    <3> HIDE DEF top
    <3>3. Len(rest) <= top /\ top <= Len(rest) /\ top \in Nat BY <1>5, <2>1, <3>1, <3>2
    <3>4. \A i1, j1 \in Nat : i1 <= j1 /\ j1 <= i1 => i1 = j1 OBVIOUS
    <3>5. Len(rest) \in Nat BY <1>5
    <3> QED BY <3>3, <3>4, <3>5
  <2>3. live # {} BY <2>1
  <2> HIDE DEF top
  <2> DEFINE r == rest[Len(rest)]
  <2>4. cycle' = [erased EXCEPT !.index = IndexOf(els, r), !.stack = SubSeq(rest, 1, Len(rest) - 1)]
    BY <1>7, <1>9, <2>2, <2>3 DEF SyncActive, top
  <2>5. cycle'.elements = els /\ cycle'.stack = SubSeq(rest, 1, Len(rest) - 1)
        /\ cycle'.unwindable = cycle.unwindable /\ cycle'.index = IndexOf(els, r)
    <3> HIDE DEF r
    <3> QED BY <1>9, <2>4, CycleParts
  <2>6. r \in Range(els)
    <3>1. r \in Range(rest)
      <4>1. Len(rest) \in DOMAIN rest BY <1>5, <1>13
      <4> QED BY <4>1 DEF Range
    <3> QED BY <1>4, <1>5, <3>1, CycleParts
  <2>7. IndexOf(els, r) \in Nat /\ IndexOf(els, r) < Len(els) /\ els[IndexOf(els, r) + 1] = r
    BY <1>4, <2>6, IndexOfFacts DEF IndexOf
  <2>8. ActiveElement(cycle)' = r BY <2>5, <2>7 DEF ActiveElement, ElementAt, Size
  <2>9. Range(cycle.elements)' = Range(s) \ {e} BY <1>4, <2>5
  <2> QED BY <1>3, <1>6, <1>11, <1>13, <2>5, <2>8, <2>9 DEF FH!LeaveActive
<1> QED BY <1>12, <1>13

\* A replacement is known by another name, in the history as well.
LEMMA ReplaceRenames ==
  ASSUME IsCycle(cycle, Elements), NEW e \in Range(cycle.elements),
         NEW r \in Elements \ Range(cycle.elements), Replace(e, r)
  PROVE  FH!Rename(e, r)
<1> DEFINE s   == cycle.elements
           els == Replaced(s, e, r)
           st  == Replaced(cycle.stack, e, r)
<1>1. /\ s \in Seq(Elements) /\ IsDistinct(s) /\ Len(s) \in Nat /\ DOMAIN s = 1..Len(s)
      /\ Size(cycle) = Len(s)
  BY CycleParts
<1>2. /\ cycle.stack \in Seq(Elements) /\ IsDistinct(cycle.stack)
      /\ r \notin Range(cycle.stack) /\ DOMAIN cycle.stack = 1..Len(cycle.stack)
  BY CycleParts
<1>3. els \in Seq(Elements) /\ Len(els) = Len(s) /\ Range(els) = (Range(s) \ {e}) \cup {r}
  BY <1>1, ReplacedFacts
<1>4. cycle' = [cycle EXCEPT !.elements = els, !.stack = st]
  BY DEF Replace, ReplaceElement, Contains, Replaced
<1>5. ASSUME NEW t \in Seq(Elements), IsDistinct(t)
      PROVE  Replaced(t, e, r) = [j \in DOMAIN t |-> IF t[j] = e THEN r ELSE t[j]]
  <2>1. CASE e \in Range(t)
    <3>1. FirstAt(t, e) \in DOMAIN t /\ t[FirstAt(t, e)] = e BY <1>5, <2>1, IndexOfFacts
    <3> QED BY <1>5, <2>1, <3>1 DEF Replaced, IsDistinct
  <2>2. CASE e \notin Range(t)
    <3>1. \A j \in DOMAIN t : t[j] # e BY <2>2 DEF Range
    <3> QED BY <2>2, <3>1 DEF Replaced
  <2> QED BY <2>1, <2>2
<1>6. /\ els = [j \in DOMAIN s |-> IF s[j] = e THEN r ELSE s[j]]
      /\ st = [j \in DOMAIN cycle.stack |-> IF cycle.stack[j] = e THEN r ELSE cycle.stack[j]]
  BY <1>1, <1>2, <1>5
<1> HIDE DEF els, st
<1>7. cycle'.elements = els /\ cycle'.stack = st /\ cycle'.index = cycle.index
      /\ cycle'.unwindable = cycle.unwindable
  BY <1>4, CycleParts
<1>8. cycle.index + 1 \in DOMAIN s
  <2>1. Len(s) > 0 BY <1>1 DEF Range
  <2> QED BY <1>1, <2>1, CycleParts
<1>9. /\ ActiveElement(cycle) = s[cycle.index + 1]
      /\ ActiveElement(cycle)' = els[cycle.index + 1]
  BY <1>1, <1>3, <1>7, <1>8, CycleParts DEF ActiveElement, ElementAt, Size
<1>10. ActiveElement(cycle)' = IF ActiveElement(cycle) = e THEN r ELSE ActiveElement(cycle)
  BY <1>6, <1>8, <1>9
<1>11. Range(cycle.elements)' = (Range(s) \ {e}) \cup {r} BY <1>3, <1>7
<1> QED BY <1>6, <1>7, <1>10, <1>11 DEF FH!Rename

\* The active element passes its neighbour, or itself when it is alone.
LEMMA DragPasses ==
  ASSUME IsCycle(cycle, Elements), NEW d \in Directions, Drag(d)
  PROVE  \E e \in Elements : FH!Pass(e)
<1> DEFINE s     == cycle.elements
           next  == NextIndex(cycle, d)
           els   == Swapped(s, cycle.index + 1, next + 1)
           moved == [cycle EXCEPT !.elements = els]
           c     == IF next # cycle.index THEN moved ELSE cycle
           p     == PushActive(c)
           e     == ActiveElement(c)
<1>1. /\ s \in Seq(Elements) /\ Len(s) \in Nat /\ Size(cycle) = Len(s) /\ Len(s) > 0
      /\ DOMAIN s = 1..Len(s) /\ IsDistinct(s)
  BY CycleParts DEF Drag
<1>2. cycle.index \in 0..(Len(s) - 1) /\ next \in 0..(Len(s) - 1)
  BY <1>1, CycleParts, NextIndexFacts
<1>3. cycle.index + 1 \in 1..Len(s) /\ next + 1 \in 1..Len(s) BY <1>1, <1>2
<1>4. els \in Seq(Elements) /\ Len(els) = Len(s) /\ IsDistinct(els) /\ Range(els) = Range(s)
      /\ els[next + 1] = s[cycle.index + 1]
  <2>1. els \in Seq(Elements) /\ Len(els) = Len(s) /\ IsDistinct(els) /\ Range(els) = Range(s)
    BY <1>1, <1>3, SwapFacts
  <2>2. els[next + 1] = s[cycle.index + 1] BY <1>1, <1>3 DEF Swapped
  <2> QED BY <2>1, <2>2
<1>5. cycle' = CycleActive(c, d)
  BY <1>1, <1>2 DEF Drag, DragActive, HasActive
<1> HIDE DEF els
<1>6. /\ IsCycle(c, Elements) /\ c.index = cycle.index /\ c.stack = cycle.stack
      /\ c.unwindable = cycle.unwindable /\ Len(c.elements) = Len(s) /\ Size(c) = Size(cycle)
      /\ Range(c.elements) = Range(s) /\ c.elements[next + 1] = s[cycle.index + 1]
  <2>1. IsCycle(moved, Elements) BY <1>4, PermutedCycle
  <2>2. /\ moved.elements = els /\ moved.index = cycle.index /\ moved.stack = cycle.stack
        /\ moved.unwindable = cycle.unwindable
    BY CycleParts
  <2> HIDE DEF moved
  <2> QED BY <1>1, <1>4, <2>1, <2>2 DEF Size
<1>7. NextIndex(c, d) = next BY <1>6 DEF NextIndex, LastIndex
<1> HIDE DEF next
<1>8. IsCycle(p, Elements) /\ p = [c EXCEPT !.stack = p.stack]
      /\ p.stack = FH!MovedToTop(cycle.stack, e)
  BY <1>6, PushKeepsCycle, PushMovesToTop
<1>9. e \in Range(s) /\ e \in Elements BY <1>1, <1>6, ActiveOfCycle
<1> HIDE DEF c, e
<1>10. cycle' = [p EXCEPT !.index = next] BY <1>5, <1>7 DEF CycleActive
<1> HIDE DEF p
<1>11. /\ cycle'.elements = c.elements /\ cycle'.index = next /\ cycle'.stack = p.stack
       /\ cycle'.unwindable = cycle.unwindable
  BY <1>6, <1>8, <1>10, CycleParts
<1>12. ActiveElement(cycle)' = s[cycle.index + 1] /\ ActiveElement(cycle) = s[cycle.index + 1]
  BY <1>1, <1>2, <1>6, <1>11 DEF ActiveElement, ElementAt, Size
<1>13. Range(cycle.elements)' = Range(s) BY <1>6, <1>11
<1> QED BY <1>8, <1>9, <1>11, <1>12, <1>13 DEF FH!Pass

\* To refill a cycle is to forget everything.
LEMMA RefillRestarts ==
  ASSUME IsCycle(cycle, Elements), NEW e \in Elements, Refill(e)
  PROVE  FH!Restart(e)
<1> DEFINE z == ClearCycle(cycle)
           els == << e >>
<1>1. z.elements = << >> /\ z.stack = << >> /\ Size(z) = 0 /\ ~HasActive(z)
      /\ z.unwindable = cycle.unwindable /\ DOMAIN z = {"elements", "index", "stack", "unwindable"}
  BY CycleParts DEF ClearCycle, Size, HasActive
<1>2. cycle' = [z EXCEPT !.elements = Append(z.elements, e), !.index = 0]
  BY <1>1 DEF Refill, InsertAtBack, PushActive
<1> HIDE DEF z
<1>3. Append(z.elements, e) = els BY <1>1
<1>4. Len(els) = 1 /\ els[1] = e /\ Range(els) = {e} BY DEF Range
<1> HIDE DEF els
<1>5. cycle'.elements = els /\ cycle'.index = 0 /\ cycle'.stack = << >>
      /\ cycle'.unwindable = cycle.unwindable
  BY <1>1, <1>2, <1>3
<1>6. ActiveElement(cycle)' = e /\ Range(cycle.elements)' = {e}
  BY <1>4, <1>5 DEF ActiveElement, ElementAt, Size
<1> QED BY <1>5, <1>6 DEF FH!Restart

\* A cycle begins empty.
LEMMA InitForgets == Init => FH!FHInit
<1> SUFFICES ASSUME NEW u \in BOOLEAN, cycle = EmptyCycle(u) PROVE FH!FHInit BY DEF Init
<1>1. /\ cycle.elements = << >> /\ cycle.index = 0 /\ cycle.stack = << >>
      /\ cycle.unwindable = u
  BY DEF EmptyCycle
<1> QED BY <1>1 DEF FH!FHInit, ActiveElement, ElementAt, Size, Range

\* Each call of a method of Cycle is a step of the focus history, or none.
LEMMA StepImplements ==
  ASSUME IsCycle(cycle, Elements), [Next]_cycle
  PROVE  [FH!FHNext]_(FH!fhVars)
<1> USE DEF FH!FHNext
<1>0. /\ cycle.elements \in Seq(Elements) /\ IsDistinct(cycle.elements)
      /\ Size(cycle) = Len(cycle.elements) /\ Size(cycle) \in Nat
      /\ DOMAIN cycle.elements = 1..Len(cycle.elements)
      /\ Range(cycle.elements) \subseteq Elements
  BY CycleParts, ActiveOfCycle
<1>1. CASE UNCHANGED cycle
  BY <1>1 DEF FH!fhVars, ActiveElement, ElementAt, Size, Range
<1>2. ASSUME NEW e \in Elements, Insert(e) PROVE FH!FHNext
  BY <1>2, InsertEnters
<1>3. ASSUME NEW e \in Elements, Remove(e) PROVE [FH!FHNext]_(FH!fhVars)
  <2>1. CASE ~Contains(cycle, e)
    <3>1. EraseRemove(cycle.elements, e) = cycle.elements BY <1>0, <2>1, EraseAbsent DEF Contains
    <3>2. EraseRemove(cycle.stack, e) = cycle.stack
      BY <2>1, CycleParts, EraseAbsent DEF Contains
    <3>3. cycle' = [cycle EXCEPT !.elements = cycle.elements, !.stack = cycle.stack,
                                 !.index = cycle.index]
      BY <1>3, <2>1, <3>1, <3>2 DEF Remove, RemoveElement, IsActiveElement
    <3>4. cycle' = cycle BY <3>3 DEF IsCycle, Cycles
    <3> QED BY <1>1, <3>4
  <2>2. CASE Contains(cycle, e) /\ ~IsActiveElement(cycle, e)
    BY <1>3, <2>2, RemoveLeavesActive DEF Contains
  <2>3. CASE IsActiveElement(cycle, e) BY <1>3, <2>3, RemoveFallsBack
  <2> QED BY <2>1, <2>2, <2>3
<1>4. ASSUME NEW i \in Nat, i < Size(cycle), cycle' = ActivateAtIndex(cycle, i)
      PROVE  [FH!FHNext]_(FH!fhVars)
  BY <1>1, <1>4, MoveFocuses DEF ActivateAtIndex
<1>5. ASSUME NEW e \in Elements, Activate(e) PROVE [FH!FHNext]_(FH!fhVars)
  <2>1. CASE ~Contains(cycle, e) BY <1>1, <1>5, <2>1 DEF Activate, ActivateElement
  <2>2. CASE Contains(cycle, e)
    <3>1. IndexOf(cycle.elements, e) \in Nat /\ IndexOf(cycle.elements, e) < Size(cycle)
      BY <1>0, <2>2, IndexOfFacts DEF Contains
    <3> QED BY <1>4, <1>5, <2>2, <3>1 DEF Activate, ActivateElement
  <2> QED BY <2>1, <2>2
<1>6. ASSUME NEW e \in Elements, Refill(e) PROVE FH!FHNext
  BY <1>6, RefillRestarts
<1>7. ASSUME NEW e \in Elements, NEW r \in Elements, Replace(e, r)
      PROVE  [FH!FHNext]_(FH!fhVars)
  <2>1. CASE Contains(cycle, r) \/ ~Contains(cycle, e)
    BY <1>1, <1>7, <2>1 DEF Replace, ReplaceElement
  <2>2. CASE ~(Contains(cycle, r) \/ ~Contains(cycle, e))
    BY <1>7, <2>2, ReplaceRenames DEF Contains
  <2> QED BY <2>1, <2>2
<1>8. ASSUME NEW e \in Elements, NEW f \in Elements, Swap(e, f)
      PROVE  [FH!FHNext]_(FH!fhVars)
  <2> DEFINE els == Swapped(cycle.elements, FirstAt(cycle.elements, e), FirstAt(cycle.elements, f))
  <2>1. CASE Contains(cycle, e) /\ Contains(cycle, f)
    <3>1. /\ FirstAt(cycle.elements, e) \in 1..Len(cycle.elements)
          /\ FirstAt(cycle.elements, f) \in 1..Len(cycle.elements)
      BY <1>0, <2>1, IndexOfFacts DEF Contains
    <3>2. /\ els \in Seq(Elements) /\ Len(els) = Len(cycle.elements)
          /\ IsDistinct(els) /\ Range(els) = Range(cycle.elements)
      BY <1>0, <3>1, SwapFacts
    <3>3. cycle' = [cycle EXCEPT !.elements = els] BY <1>8, <2>1 DEF Swap, SwapElements
    <3> HIDE DEF els
    <3> QED BY <3>2, <3>3, OrderSlides
  <2>2. CASE ~(Contains(cycle, e) /\ Contains(cycle, f))
    BY <1>1, <1>8, <2>2 DEF Swap, SwapElements
  <2> QED BY <2>1, <2>2
<1>9. ASSUME NEW b \in Nat, NEW e \in Nat, b < e, e <= Len(cycle.elements), NEW els,
             els = TurnLeft(cycle.elements, b, e) \/ els = TurnRight(cycle.elements, b, e),
             cycle' = [cycle EXCEPT !.elements = els]
      PROVE  [FH!FHNext]_(FH!fhVars)
  <2>1. /\ els \in Seq(Elements) /\ Len(els) = Len(cycle.elements)
        /\ IsDistinct(els) /\ Range(els) = Range(cycle.elements)
    BY <1>0, <1>9, TurnFacts
  <2> QED BY <1>9, <2>1, OrderSlides
<1>10. ASSUME NEW d \in Directions, Rotate(d) PROVE [FH!FHNext]_(FH!fhVars)
  <2>1. 0 \in Nat /\ Len(cycle.elements) \in Nat /\ 0 < Len(cycle.elements)
        /\ Len(cycle.elements) <= Len(cycle.elements)
    BY <1>0, <1>10 DEF Rotate
  <2> DEFINE els == IF d = "Forward" THEN TurnLeft(cycle.elements, 0, Len(cycle.elements))
                    ELSE TurnRight(cycle.elements, 0, Len(cycle.elements))
  <2>2. cycle' = [cycle EXCEPT !.elements = els] BY <1>10 DEF Rotate, RotateCycle
  <2>3. \/ els = TurnLeft(cycle.elements, 0, Len(cycle.elements))
        \/ els = TurnRight(cycle.elements, 0, Len(cycle.elements))
    OBVIOUS
  <2> HIDE DEF els
  <2> QED BY <1>9, <2>1, <2>2, <2>3
<1>11. ASSUME NEW d \in Directions, NEW b \in 0..Size(cycle), NEW e \in 0..Size(cycle),
              RotatePart(d, b, e)
       PROVE  [FH!FHNext]_(FH!fhVars)
  <2>1. CASE b >= e \/ b >= Size(cycle) \/ e > Size(cycle)
    BY <1>1, <1>11, <2>1 DEF RotatePart, RotateRange
  <2>2. CASE ~(b >= e \/ b >= Size(cycle) \/ e > Size(cycle))
    <3>1. b \in Nat /\ e \in Nat /\ b < e /\ e <= Len(cycle.elements) BY <1>0, <2>2
    <3> QED BY <1>9, <1>11, <2>2, <3>1 DEF RotatePart, RotateRange
  <2> QED BY <2>1, <2>2
<1>12. ASSUME NEW d \in Directions, Step(d) PROVE FH!FHNext
  <2>1. NextIndex(cycle, d) \in Nat /\ NextIndex(cycle, d) < Size(cycle)
    BY <1>0, <1>12, NextIndexFacts DEF Step
  <2> QED BY <1>12, <2>1, MoveFocuses DEF Step, CycleActive
<1>13. ASSUME NEW d \in Directions, Drag(d) PROVE FH!FHNext
  BY <1>13, DragPasses
<1>14. CASE ActivateFirst \/ ActivateLast
  <2>1. CASE Size(cycle) = 0
    BY <1>1, <1>14, <2>1, CycleParts DEF ActivateFirst, ActivateLast, ActivateAtIndex, LastIndex
  <2>2. CASE Size(cycle) > 0
    <3>1. /\ LastIndex(cycle) \in Nat /\ LastIndex(cycle) < Size(cycle)
          /\ 0 \in Nat /\ 0 < Size(cycle)
      BY <1>0, <2>2 DEF LastIndex
    <3> QED BY <1>4, <1>14, <3>1 DEF ActivateFirst, ActivateLast
  <2> QED BY <1>0, <2>1, <2>2
<1>15. CASE ReverseAll
  <2> DEFINE s == cycle.elements
             p == [i \in 1..Len(s) |-> Len(s) + 1 - i]
             els == [i \in DOMAIN s |-> s[Len(s) + 1 - i]]
  <2>1. Inverses(p, p, Len(s)) BY <1>0 DEF Inverses
  <2>2. els = Through(s, p) BY <1>0 DEF Through
  <2>3. cycle' = [cycle EXCEPT !.elements = els] BY <1>15 DEF ReverseAll, ReverseCycle
  <2> HIDE DEF p, els
  <2>4. els \in Seq(Elements) /\ Len(els) = Len(s) /\ IsDistinct(els) /\ Range(els) = Range(s)
    BY <1>0, <2>1, <2>2, PermutedSeq
  <2> QED BY <2>3, <2>4, OrderSlides
<1> QED BY <1>1, <1>2, <1>3, <1>5, <1>6, <1>7, <1>8, <1>10, <1>11, <1>12, <1>13, <1>14, <1>15
        DEF Next

\* A cycle implements the focus history its clients rely on, under every
\* sequence of calls: the methods of cycle.t.hh, which work on positions, an
\* index and a stack, do what the set of members, the active one and the
\* history promise.
THEOREM HistoryIsImplemented == Spec => FocusHistorySpec
<1>1. IsCycle(cycle, Elements) /\ [Next]_cycle => [FH!FHNext]_(FH!fhVars)
  BY StepImplements
<1> QED BY InitForgets, <1>1, CycleStaysWellFormed, PTL DEF Spec, FocusHistorySpec, FH!FHSpec
============================================================================
