------------------------------- MODULE Input -------------------------------
(***************************************************************************)
(* The keyboard and the pointer at work on the same windows: the actions   *)
(* the keyboard performs, at once or by repetition, change the desk in the *)
(* midst of a grab. Two of the bindings stand for all: activating another  *)
(* workspace, which aborts a grab, and stretching the focused view, which  *)
(* repeats and does not.                                                   *)
(***************************************************************************)
EXTENDS Keyboard, Cursor

CONSTANTS Activations,  \* action to the workspace it activates
          Stretches,    \* action to the axis, edge and change of a stretch
          MaxCoordinate \* the bound: no window beyond it is stretched

ASSUME InputAssumption ==
  /\ Activations \in [DOMAIN Activations -> Workspaces]
  /\ Stretches \in [DOMAIN Stretches -> [axis : Axes, edge : {"low", "high"}, change : Int]]
  /\ MaxCoordinate \in Int
  /\ Actions = DOMAIN Activations \union DOMAIN Stretches

vars == << keyboard, desk >>

\* View::MIN_VIEW_DIM
MinViewDim == [x |-> 25, y |-> 10]

----------------------------------------------------------------------------
(* Model::stretch_view.                                                    *)

RemoveExtents(r) ==
  [pos |-> [a \in Axes |-> r.pos[a] + Frame[a].low],
   dim |-> [a \in Axes |-> r.dim[a] - Frame[a].low - Frame[a].high]]
ApplyExtents(r) ==
  [pos |-> [a \in Axes |-> r.pos[a] - Frame[a].low],
   dim |-> [a \in Axes |-> r.dim[a] + Frame[a].low + Frame[a].high]]

\* The left edge is tested against the height, as the code has it.
TooSmallToStretch(r, s) ==
  s.change < 0 /\ -s.change >= (IF s.edge = "low" THEN r.dim["y"] ELSE r.dim[s.axis])

StretchedDim(r, s) == AtLeast(r.dim[s.axis] + s.change, MinViewDim[s.axis])

\* Mutant: the low edge is moved by the change, whatever becomes of the size.
StretchedUnclamped(r, s) ==
  IF TooSmallToStretch(r, s) THEN r
  ELSE [r EXCEPT !.dim[s.axis] = StretchedDim(r, s),
                 !.pos[s.axis] = IF s.edge = "low" THEN @ - s.change ELSE @]

Stretched(r, s) ==
  IF TooSmallToStretch(r, s) THEN r
  ELSE [r EXCEPT !.dim[s.axis] = StretchedDim(r, s),
                 !.pos[s.axis] = IF s.edge = "low" THEN @ - (StretchedDim(r, s) - r.dim[s.axis])
                                 ELSE @]

StretchView(d, v, s) ==
  IF v = Null \/ v \in Tiled THEN d
  ELSE IF d.windows[v].free.pos[s.axis] > MaxCoordinate THEN d
  ELSE SetFreeRegion(d, v, ApplyExtents(Stretched(RemoveExtents(d.windows[v].free), s)))

\* perform_action
Perform(d, action) ==
  CASE action \in DOMAIN Activations -> ActivateWorkspace(d, Activations[action])
    [] action \in DOMAIN Stretches   -> StretchView(d, d.focused, Stretches[action])
    [] OTHER -> d

----------------------------------------------------------------------------
(* The system.                                                             *)

Opened == {v \in Views : desk.windows[v].open}

\* The pointer moves; under is the view focus follows it into, if any.
Motion == \E point \in Points, under \in Opened \union {Null} :
            desk' = HandleCursorMotion(desk, point, under)

Grab == /\ desk.grabs < MaxGrabs
        /\ \/ \E v \in Opened, mode \in {"Move", "Resize"} :
                desk' = ProcessCursorbinding(desk, mode, v)
           \/ \E v \in Opened : desk' = RequestMove(desk, v)
           \/ \E v \in Opened, edges \in Corners :
                desk' = RequestResize(desk, v, edges)
           \/ \E v \in Opened \union {Null} : desk' = StartDrag(desk, v)

\* A button no binding handles focuses the view under the pointer.
PressButton == \E v \in Opened : desk' = FocusView(desk, v)

LetGo == desk' = ReleaseButton(desk)

CloseWindow == \E v \in Opened, next \in Opened \union {Null} :
                 v # next /\ desk' = Close(desk, v, next)

CursorNext == Motion \/ Grab \/ PressButton \/ LetGo \/ CloseWindow

\* What the keyboard performs happens in the step that performs it.
KeyboardStep == KeyboardNext /\ desk' = FoldLeft(Perform, desk, performed')
CursorStep   == CursorNext /\ UNCHANGED keyboard

Init == KeyboardInit /\ \E point \in Points : desk = InitialDesk(point)
Next == KeyboardStep \/ CursorStep

\* The event loop calls an expired timer back and takes note of its expiry;
\* nobody owes the program a key or a motion.
Fairness == /\ WF_vars(Expire /\ desk' = desk)
            /\ WF_vars(Dispatch /\ desk' = FoldLeft(Perform, desk, performed'))

Spec == Init /\ [][Next]_vars /\ Fairness

----------------------------------------------------------------------------
(* Correctness.                                                            *)

\* What the desk is: a grab names the view it holds and the region it began with.
Regions == [pos : [Axes -> Int], dim : [Axes -> Int]]
Windows == [open : BOOLEAN, free : Regions, active : Regions, prev : Regions]
Grabs   == [view : Views \union {Null}, at : [Axes -> Int], region : Regions \union {Null},
            edges : [Axes -> {"low", "high", "none"}]]
Desks   == [pointer : [Axes -> Int], mode : {"Passthrough", "Move", "Resize"}, grab : Grabs,
            windows : [Views -> Windows], focused : Views \union {Null},
            active : Workspaces, grabs : Nat]
Coherent == {d \in Desks : d.mode # "Passthrough" =>
                            d.grab.view \in Views /\ d.grab.region \in Regions}

\* The state has its type, and whatever is grabbed is a view.
InputTypeOK == KeyboardTypeOK /\ desk \in Coherent

High(r, a) == r.pos[a] + r.dim[a]

\* From d to e, of a view whose region is another only the edges held have moved.
OnlyHeldEdgesMove(d, e) ==
  \A v \in Views : LET was == d.windows[v].free
                       is  == e.windows[v].free IN
    was # is /\ d.mode # "Move" => \A a \in Axes :
      \/ is.pos[a] = was.pos[a]
      \/ High(is, a) = High(was, a)
      \/ /\ d.mode = "Resize" /\ d.grab.view = v /\ d.grab.edges[a] = "low"
         /\ High(is, a) = High(d.grab.region, a)

\* Resizing a window, by the pointer or by stretching it, moves no edge but the
\* ones it takes hold of, even when the window is as small as it may become and
\* when both happen at once: the edge opposite the low edge stays where it was
\* when the grab began, or before the stretch, and the low edge stays when the
\* other is held.
EdgeStays == [][OnlyHeldEdgesMove(desk, desk')]_vars

\* Whatever activates another workspace while a window is grabbed, a key, its
\* repetition, the binding that grabs, a click or the pointer, ends the grab:
\* no window is dragged along from a workspace left behind.
SwitchEndsGrab ==
  [][desk'.active # desk.active => desk'.mode = "Passthrough"]_vars
=============================================================================
