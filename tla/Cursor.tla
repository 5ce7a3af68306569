------------------------------- MODULE Cursor -------------------------------
(***************************************************************************)
(* Cursor (src/kranewl/input/cursor.cc): the pointer, and the window it    *)
(* moves or resizes while a button is held. All of it is one record, desk: *)
(*                                                                         *)
(*   pointer  the position of mp_wlr_cursor                                *)
(*   mode     m_cursor_mode                                                *)
(*   grab     m_grab_state: the view, the position at and the free region  *)
(*            the grab began with, and by axis the edge it holds           *)
(*   windows  by view: whether it is open, its free, active and previous   *)
(*            region                                                       *)
(*   focused  the view that has the focus, or Null                         *)
(*   active   the workspace that is active                                 *)
(*   grabs    how many grabs there were (bounded by MaxGrabs)              *)
(* and each handler is an operator from desks to desks. Positions and      *)
(* dimensions are by axis: what is left and right on one is top and bottom *)
(* on the other.                                                           *)
(*                                                                         *)
(* Every workspace is on display, on an output of its own, so the pointer  *)
(* meets the views of all of them; which of the views that lie under it is *)
(* the topmost is left open. A grab whose view has been deleted moves      *)
(* memory that is not its own: here that changes nothing anyone sees.      *)
(***************************************************************************)
EXTENDS Integers, Sequences, FiniteSets

CONSTANTS Null, Views, Workspaces, Home, FirstRegion,
          Tiled,                \* the views that are not free
          XWaylandViews,        \* the others are XDG views
          Frame,                \* by axis, the extents of the free decoration
          Points,
          Corners,              \* the edges a client may ask to be resized by
          MaxGrabs

Axes == {"x", "y"}

ASSUME CursorAssumption ==
  /\ Home \in [Views -> Workspaces]
  /\ FirstRegion \in [Views -> [pos : [Axes -> Int], dim : [Axes -> Nat]]]
  /\ Frame \in [Axes -> [low : Nat, high : Nat]]
  /\ Tiled \subseteq Views /\ XWaylandViews \subseteq Views
  /\ Points \subseteq [Axes -> Int]
  /\ Corners \subseteq [Axes -> {"low", "high", "none"}]
  /\ MaxGrabs \in Nat
  /\ Null \notin Views /\ Workspaces # {}

VARIABLE desk

\* The edge of an axis: the one at the lower coordinate (WLR_EDGE_LEFT,
\* WLR_EDGE_TOP), the one at the higher, or neither.
NoEdge == [a \in Axes |-> "none"]

InitialDesk(point) ==
  [pointer |-> point, mode |-> "Passthrough",
   grab    |-> [view |-> Null, at |-> point, region |-> Null,
                edges |-> NoEdge],
   windows |-> [v \in Views |-> [open |-> TRUE, free |-> FirstRegion[v],
                                 active |-> FirstRegion[v], prev |-> FirstRegion[v]]],
   focused |-> Null, active |-> CHOOSE w \in Workspaces : TRUE, grabs |-> 0]

----------------------------------------------------------------------------
(* Regions of views.                                                       *)

\* set_active_region and set_active_pos keep the region before, with the region
\* inside the frame left out.
SetActiveRegion(d, v, r) ==
  [d EXCEPT !.windows[v].prev = d.windows[v].active, !.windows[v].active = r]
SetActivePos(d, v, pos) ==
  [d EXCEPT !.windows[v].prev = d.windows[v].active, !.windows[v].active.pos = pos]

SetFreeRegion(d, v, r) == SetActiveRegion([d EXCEPT !.windows[v].free = r], v, r)
SetFreePos(d, v, pos)  == SetActivePos([d EXCEPT !.windows[v].free.pos = pos], v, pos)

Truncated(a) == IF a >= 0 THEN a \div 2 ELSE -((-a) \div 2)
Center(r)    == [a \in Axes |-> r.pos[a] + Truncated(r.dim[a])]

AtLeast(a, lowest) == IF a >= lowest THEN a ELSE lowest

----------------------------------------------------------------------------
(* Grabs.                                                                  *)

Grabbing(d, mode, v, edges) ==
  [d EXCEPT !.mode = mode, !.grabs = @ + 1,
            !.grab = [view |-> v, at |-> d.pointer, region |-> d.windows[v].free,
                      edges |-> edges]]

\* A resize that names no edges takes hold of the corner nearest the pointer.
NearestCorner(d, v) ==
  [a \in Axes |-> IF d.pointer[a] >= Center(d.windows[v].free)[a] THEN "high" ELSE "low"]

InitiateCursorInteractive(d, mode, v) ==
  Grabbing(d, mode, v, IF mode = "Resize" THEN NearestCorner(d, v) ELSE NoEdge)

\* Model::cursor_interactive
CursorInteractive(d, mode, v) ==
  IF v \in Tiled THEN d ELSE InitiateCursorInteractive(d, mode, v)

\* Mutant: the mode stays.
AbortKeepingMode(d) == [d EXCEPT !.grab.view = Null]

AbortCursorInteractive(d) == [d EXCEPT !.mode = "Passthrough", !.grab.view = Null]

\* Mutant: the grab is left as it is.
ActivateWorkspaceGrabbed(d, w) == [d EXCEPT !.active = w]

ActivateWorkspace(d, w) ==
  IF w = d.active THEN d ELSE [AbortCursorInteractive(d) EXCEPT !.active = w]

FocusView(d, v) ==
  IF v = d.focused THEN d ELSE [ActivateWorkspace(d, Home[v]) EXCEPT !.focused = v]

----------------------------------------------------------------------------
(* Motion.                                                                 *)

ProcessCursorMove(d) ==
  SetFreePos(d, d.grab.view,
             [a \in Axes |-> d.grab.region.pos[a] + d.pointer[a] - d.grab.at[a]])

\* An axis whose edge is not the low one is resized at the high one.
ResizedDim(d, a) ==
  AtLeast(IF d.grab.edges[a] = "low"
          THEN d.grab.region.dim[a] - (d.pointer[a] - d.grab.at[a])
          ELSE d.grab.region.dim[a] + (d.pointer[a] - d.grab.at[a]), 0)

\* Mutant: the position follows the pointer, whatever becomes of the size.
ResizedPosUnclamped(d, a) ==
  IF d.grab.edges[a] = "low" THEN d.grab.region.pos[a] + (d.pointer[a] - d.grab.at[a])
  ELSE d.windows[d.grab.view].free.pos[a]

ResizedPos(d, a) ==
  IF d.grab.edges[a] = "low"
  THEN d.grab.region.pos[a] + (d.grab.region.dim[a] - ResizedDim(d, a))
  ELSE d.windows[d.grab.view].free.pos[a]

Resized(d) == [pos |-> [a \in Axes |-> ResizedPos(d, a)], dim |-> [a \in Axes |-> ResizedDim(d, a)]]

\* The region the view had before its last one is taken for its present one.
ProcessCursorResize(d) ==
  IF Resized(d) = d.windows[d.grab.view].prev THEN d
  ELSE SetFreeRegion(d, d.grab.view, Resized(d))

\* cursor_motion_to_client: focus follows the pointer into a view, under, when
\* its workspace has it so; Null when nothing follows: no view, the one it
\* followed into last, one beside the active track. A synthetic motion (time 0)
\* moves no focus.
MotionToClient(d, under) == IF under = Null THEN d ELSE FocusView(d, under)

Grabbed(d) == d.grab.view \in Views /\ d.windows[d.grab.view].open

ProcessCursorMotion(d, under) ==
  CASE d.mode = "Passthrough" -> MotionToClient(d, under)
    [] d.mode = "Move" /\ Grabbed(d)   -> ProcessCursorMove(d)
    [] d.mode = "Resize" /\ Grabbed(d) -> ProcessCursorResize(d)
    [] OTHER -> d

HandleCursorMotion(d, point, under) == ProcessCursorMotion([d EXCEPT !.pointer = point], under)

----------------------------------------------------------------------------
(* Buttons, requests, drags.                                               *)

\* Mutant: the view is focused first.
ProcessCursorbindingFocusFirst(d, mode, v) == CursorInteractive(FocusView(d, v), mode, v)

\* process_cursorbinding of the bindings that move and resize: the action, then
\* the focus, which aborts the grab just begun when the view belongs to another
\* workspace.
ProcessCursorbinding(d, mode, v) == FocusView(CursorInteractive(d, mode, v), v)

\* The grab ends, but keeps naming its view.
ReleaseButton(d) == [d EXCEPT !.mode = "Passthrough"]

RequestMove(d, v) ==
  IF v \in XWaylandViews THEN CursorInteractive(d, "Move", v)
                         ELSE InitiateCursorInteractive(d, "Move", v)
RequestResize(d, v, edges) ==
  IF v \in XWaylandViews \intersect Tiled THEN d ELSE Grabbing(d, "Resize", v, edges)

\* A drag and drop operation starts over a view: unless there is a grab, the
\* view is grabbed as well.
StartDrag(d, under) ==
  IF ProcessCursorMotion(d, Null).mode = "Passthrough" /\ under # Null
  THEN CursorInteractive(ProcessCursorMotion(d, Null), "Move", under)
  ELSE ProcessCursorMotion(d, Null)

\* The window closes; nothing tells the cursor.
Close(d, v, focused) ==
  [d EXCEPT !.windows[v].open = FALSE, !.focused = IF @ = v THEN focused ELSE @]
=============================================================================
