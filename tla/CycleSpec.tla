----------------------------- MODULE CycleSpec -----------------------------
(***************************************************************************)
(* One cycle under the calls the program makes. The callers never insert   *)
(* an element a cycle already contains (they test contains(), or insert a  *)
(* fresh object), rotate only cycles of two elements or more, step and     *)
(* drag only in cycles that are not empty (Workspace's tracks behind a     *)
(* track_size() test, a layout's data, of which there is always one),      *)
(* activate by index only at 0 or at the last index, and clear only to     *)
(* refill (LayoutHandler::load_layout).                                    *)
(***************************************************************************)
EXTENDS Cycle

CONSTANT Elements     \* what may be stored

ASSUME NullIsNoElement == Null \notin Elements

VARIABLE cycle

Init == \E unwindable \in BOOLEAN : cycle = EmptyCycle(unwindable)

Insert(e)       == ~Contains(cycle, e) /\ cycle' = InsertAtBack(cycle, e)
Remove(e)       == cycle' = RemoveElement(cycle, e)
Activate(e)     == cycle' = ActivateElement(cycle, e)
ActivateFirst   == cycle' = ActivateAtIndex(cycle, 0)
ActivateLast    == cycle' = ActivateAtIndex(cycle, LastIndex(cycle))
Replace(e, r)   == cycle' = ReplaceElement(cycle, e, r)
Swap(e, f)      == cycle' = SwapElements(cycle, e, f)
ReverseAll      == cycle' = ReverseCycle(cycle)
Rotate(d)       == Size(cycle) > 1 /\ cycle' = RotateCycle(cycle, d)
RotatePart(d, b, e) == cycle' = RotateRange(cycle, d, b, e)
Step(d)         == Size(cycle) > 0 /\ cycle' = CycleActive(cycle, d)
Drag(d)         == Size(cycle) > 0 /\ cycle' = DragActive(cycle, d)
Refill(e)       == cycle' = InsertAtBack(ClearCycle(cycle), e)

Next ==
  \/ \E e \in Elements : Insert(e) \/ Remove(e) \/ Activate(e) \/ Refill(e)
  \/ \E e, f \in Elements : Replace(e, f) \/ Swap(e, f)
  \/ \E d \in Directions : Rotate(d) \/ Step(d) \/ Drag(d)
  \/ \E d \in Directions : \E b, e \in 0..Size(cycle) : RotatePart(d, b, e)
  \/ ActivateFirst
  \/ ActivateLast
  \/ ReverseAll

Spec == Init /\ [][Next]_cycle

----------------------------------------------------------------------------
(* A cycle has its fields, and one that holds anything has an active       *)
(* element: m_index never points past the end, so active_element() is      *)
(* absent only on an empty cycle. The decrement of remove_element          *)
(* (cycle.t.hh:366) and the restore from the history (cycle.t.hh:604) are  *)
(* what could break it.                                                    *)
CycleTypeOK == cycle \in Cycles(Elements) /\ IndexBounded(cycle)

(* An element is stored once: index_of_element, and with it every          *)
(* activation and removal, means that one place.                           *)
NoDuplicates == IsDistinct(cycle.elements)

(* The history names only elements still present, each once: nothing a     *)
(* client removed (and deleted) can come back as the active element, and   *)
(* the stack never outgrows the cycle.                                     *)
HistoryIsLive == LiveHistory(cycle)

(* While the order of the elements stands, the active element can change   *)
(* only by a move that leaves the one it moved from on top of the history: *)
(* a later removal falls back to it.                                       *)
MovesAreRecorded ==
  [][ /\ cycle'.elements = cycle.elements
      /\ cycle'.index # cycle.index
      /\ cycle.unwindable /\ HasActive(cycle)
      => /\ cycle'.stack # << >>
         /\ cycle'.stack[Len(cycle'.stack)] = ActiveElement(cycle) ]_cycle

(* Positions and indices aside, a cycle is the focus history its clients   *)
(* rely on: insertion focuses, removal of another element leaves the focus *)
(* alone, removal of the active one focuses the most recently left         *)
(* survivor.                                                               *)
FH == INSTANCE FocusHistory WITH
        members   <- Range(cycle.elements),
        active    <- ActiveElement(cycle),
        history   <- cycle.stack,
        recording <- cycle.unwindable

FocusHistorySpec == FH!FHSpec
============================================================================
