------------------------------- MODULE Cycle -------------------------------
(***************************************************************************)
(* Cycle<T> and its HistoryStack<T> (include/kranewl/cycle.hh,             *)
(* include/kranewl/cycle.t.hh): the ordered container with one active      *)
(* element that holds the outputs, the contexts, the workspaces, and the   *)
(* views, tracks and icons of every workspace.                             *)
(*                                                                         *)
(* A cycle is a record                                                     *)
(*   elements    the deque m_elements, a sequence                          *)
(*   index       m_index, counted from 0 as in the code                    *)
(*   stack       m_stack, the most recently left element last              *)
(*   unwindable  m_unwindable, whether the stack is kept at all            *)
(* and every operation of the class is an operator from cycles to cycles.  *)
(* A std::optional element that is absent is Null.                         *)
(***************************************************************************)
EXTENDS Integers, Sequences, FiniteSets, Functions

CONSTANT Null

Directions == {"Forward", "Backward"}

----------------------------------------------------------------------------
(* Sequences, as std::find, std::remove and std::rotate see them.          *)

\* Position, counted from 1, of the first e in s.
FirstAt(s, e) == CHOOSE i \in DOMAIN s : /\ s[i] = e
                                         /\ \A j \in 1..(i - 1) : s[j] # e

\* Index, counted from 0, of the first e in s.
IndexOf(s, e) == FirstAt(s, e) - 1

\* The elements of s at the positions kept, in order: the j-th is the one whose
\* position has j kept positions up to it. (SelectSeq, in a form the provers can
\* expand.)
Kept(s, kept) ==
  LET nth(j) == CHOOSE i \in kept : Cardinality({k \in kept : k <= i}) = j
  IN  [j \in 1..Cardinality(kept) |-> s[nth(j)]]

\* Every e removed, the rest in order.
EraseRemove(s, e) == Kept(s, {i \in DOMAIN s : s[i] # e})

\* The elements at positions b+1 .. e moved one place to the left or to the
\* right, the one pushed out re-entering at the other end.
TurnLeft(s, b, e)  == [i \in DOMAIN s |-> IF i \in (b + 1)..(e - 1) THEN s[i + 1]
                                          ELSE IF i = e THEN s[b + 1] ELSE s[i]]
TurnRight(s, b, e) == [i \in DOMAIN s |-> IF i \in (b + 2)..e THEN s[i - 1]
                                          ELSE IF i = b + 1 THEN s[e] ELSE s[i]]

Swapped(s, i, j) == [s EXCEPT ![i] = s[j], ![j] = s[i]]

IsDistinct(s) == \A i, j \in DOMAIN s : s[i] = s[j] => i = j

----------------------------------------------------------------------------
(* Observers.                                                              *)

EmptyCycle(unwindable) ==
  [elements |-> << >>, index |-> 0, stack |-> << >>, unwindable |-> unwindable]

Size(c)        == Len(c.elements)
Contains(c, e) == e \in Range(c.elements)
LastIndex(c)   == IF Size(c) = 0 THEN 0 ELSE Size(c) - 1
HasActive(c)   == c.index < Size(c)

ElementAt(c, i)  == IF i < Size(c) THEN c.elements[i + 1] ELSE Null
ActiveElement(c) == ElementAt(c, c.index)

IsActiveElement(c, e) ==
  HasActive(c) /\ Contains(c, e) /\ c.index = IndexOf(c.elements, e)

NextIndex(c, direction) ==
  IF direction = "Backward"
  THEN IF c.index = 0 THEN LastIndex(c) ELSE c.index - 1
  ELSE IF c.index = LastIndex(c) THEN 0 ELSE c.index + 1

NextElement(c, direction) == ElementAt(c, NextIndex(c, direction))

----------------------------------------------------------------------------
(* The history stack.                                                      *)

\* push_active_to_stack: the active element becomes the most recent entry,
\* and is there once.
PushActive(c) ==
  IF c.unwindable /\ HasActive(c)
  THEN LET e == ActiveElement(c)
       IN  [c EXCEPT !.stack = Append(EraseRemove(@, e), e)]
  ELSE c

\* Mutant: the entry left longest ago comes back.
SyncActiveOldest(c) ==
  LET live == {i \in DOMAIN c.stack : Contains(c, c.stack[i])}
      top  == CHOOSE i \in live : \A j \in live : i <= j
  IN  IF live = {} THEN c
      ELSE [c EXCEPT !.index = IndexOf(c.elements, c.stack[top]),
                     !.stack = SubSeq(@, top + 1, Len(@))]

\* sync_active: entries are popped until one is still an element; it becomes
\* active. An exhausted stack leaves the index where it is.
SyncActive(c) ==
  LET live == {i \in DOMAIN c.stack : Contains(c, c.stack[i])}
  IN  IF live = {}
      THEN [c EXCEPT !.stack = << >>]
      ELSE LET top == CHOOSE i \in live : \A j \in live : j <= i
           IN  [c EXCEPT !.index = IndexOf(c.elements, c.stack[top]),
                         !.stack = SubSeq(@, 1, top - 1)]

----------------------------------------------------------------------------
(* The operations the program calls.                                       *)

InsertAtBack(c, e) ==
  [PushActive(c) EXCEPT !.elements = Append(@, e), !.index = Size(c)]

\* Mutant: the element left is not recorded.
ActivateUnrecorded(c, i) == [c EXCEPT !.index = i]

ActivateAtIndex(c, i) ==
  IF i = c.index THEN c ELSE [PushActive(c) EXCEPT !.index = i]

ActivateElement(c, e) ==
  IF Contains(c, e) THEN ActivateAtIndex(c, IndexOf(c.elements, e)) ELSE c

\* Mutants: the index is not lowered when the active element itself goes; the
\* history keeps what was removed.
RemoveOffByOne(c, e) ==
  LET before == Contains(c, e) /\ c.index > IndexOf(c.elements, e)
      erased == [c EXCEPT !.elements = EraseRemove(@, e), !.stack = EraseRemove(@, e),
                          !.index = IF before THEN @ - 1 ELSE @]
  IN  IF IsActiveElement(c, e) THEN SyncActive(erased) ELSE erased
RemoveKeepingHistory(c, e) ==
  LET before == Contains(c, e) /\ c.index >= IndexOf(c.elements, e)
  IN  [c EXCEPT !.elements = EraseRemove(@, e),
                !.index    = IF @ # 0 /\ before THEN @ - 1 ELSE @]

RemoveElement(c, e) ==
  LET before == Contains(c, e) /\ c.index >= IndexOf(c.elements, e)
      erased == [c EXCEPT !.elements = EraseRemove(@, e),
                          !.stack    = EraseRemove(@, e),
                          !.index    = IF @ # 0 /\ before THEN @ - 1 ELSE @]
  IN  IF IsActiveElement(c, e) THEN SyncActive(erased) ELSE erased

\* Mutant: the replacement may already be an element.
ReplaceUnchecked(c, e, replacement) ==
  IF Contains(c, e)
  THEN [c EXCEPT !.elements[FirstAt(c.elements, e)] = replacement] ELSE c

ReplaceElement(c, e, replacement) ==
  LET replaced(s) == IF e \in Range(s)
                     THEN [s EXCEPT ![FirstAt(s, e)] = replacement]
                     ELSE s
  IN  IF Contains(c, replacement) \/ ~Contains(c, e)
      THEN c
      ELSE [c EXCEPT !.elements = replaced(@), !.stack = replaced(@)]

SwapElements(c, e, f) ==
  IF Contains(c, e) /\ Contains(c, f)
  THEN [c EXCEPT !.elements = Swapped(@, FirstAt(@, e), FirstAt(@, f))]
  ELSE c

ReverseCycle(c) ==
  [c EXCEPT !.elements = [i \in DOMAIN @ |-> @[Len(@) + 1 - i]]]

\* On an empty deque std::next(begin()) is undefined: callers see to it that
\* the cycle has two elements at least.
RotateCycle(c, direction) ==
  [c EXCEPT !.elements = IF direction = "Forward"
                         THEN TurnLeft(@, 0, Len(@))
                         ELSE TurnRight(@, 0, Len(@))]

\* The two directions turn the other way round than in RotateCycle.
RotateRange(c, direction, begin, end) ==
  IF begin >= end \/ begin >= Size(c) \/ end > Size(c)
  THEN c
  ELSE [c EXCEPT !.elements = IF direction = "Backward"
                              THEN TurnLeft(@, begin, end)
                              ELSE TurnRight(@, begin, end)]

CycleActive(c, direction) ==
  [PushActive(c) EXCEPT !.index = NextIndex(c, direction)]

\* Mutant: the index stays behind, on the neighbour.
DragElement(c, direction) ==
  [c EXCEPT !.elements = Swapped(@, c.index + 1, NextIndex(c, direction) + 1)]

\* The active element changes places with its neighbour and stays active. The
\* push of CycleActive happens after the swap: it records the neighbour.
DragActive(c, direction) ==
  LET next    == NextIndex(c, direction)
      dragged == IF next # c.index /\ HasActive(c) /\ next < Size(c)
                 THEN [c EXCEPT !.elements = Swapped(@, c.index + 1, next + 1)]
                 ELSE c
  IN  CycleActive(dragged, direction)

\* The index is not reset: an insertion sets it.
ClearCycle(c) == [c EXCEPT !.elements = << >>, !.stack = << >>]

----------------------------------------------------------------------------
(* What makes a cycle over S well formed.                                  *)

Cycles(S) == [elements : Seq(S), index : Nat, stack : Seq(S), unwindable : BOOLEAN]

IndexBounded(c) == c.index <= LastIndex(c)

LiveHistory(c) == /\ Range(c.stack) \subseteq Range(c.elements)
                  /\ IsDistinct(c.stack)

IsCycle(c, S) == /\ c \in Cycles(S)
                 /\ IndexBounded(c)
                 /\ IsDistinct(c.elements)
                 /\ LiveHistory(c)
============================================================================
