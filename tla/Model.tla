------------------------------- MODULE Model -------------------------------
(***************************************************************************)
(* Model (src/kranewl/model.cc) with what it drives: contexts              *)
(* (include/kranewl/context.hh), outputs (src/kranewl/tree/output.cc) and  *)
(* the management state of views (src/kranewl/tree/view.cc). Every handler *)
(* is an operator from models to models, so that a handler that calls      *)
(* another one reads as in the code.                                       *)
(*                                                                         *)
(* A model is a record                                                     *)
(*   ws       the workspaces                                               *)
(*   view     the views                                                    *)
(*   ctx      the contexts: output, active and prev (workspaces)           *)
(*   out      the context of every output, Null of one not attached        *)
(*   outputs  m_outputs                                                    *)
(*   wsIndex, ctxIndex       indices of m_workspaces and m_contexts        *)
(*   output, context, workspace, prevContext, prevWorkspace,               *)
(*   focus, jumpedFrom       the pointers mp_output .. mp_jumped_from      *)
(*   down     a null pointer was dereferenced, or one to a deleted view is *)
(*            left behind: from here on nothing is defined                 *)
(*   astray   focus_view was entered for a view of another workspace than  *)
(*            the one being synchronised (see SyncFocus)                   *)
(*                                                                         *)
(* Left out: sticky views (their binding is commented out), regions and    *)
(* decorations, the next and previous indicators, and the flag for focus   *)
(* following the cursor, whose effect is that a view under the cursor may  *)
(* be focused at any time.                                                 *)
(***************************************************************************)
EXTENDS Workspace

CONSTANTS Views,           \* the clients' windows
          Outputs,         \* the outputs that may be attached
          NContexts,       \* context_names.size()
          NWorkspaces      \* workspace_names.size(), per context

ASSUME CountsAssumption == NContexts \in Nat \ {0} /\ NWorkspaces \in Nat \ {0}
ASSUME NullAssumption   == Null \notin Nat \cup Views \cup Outputs \cup BOOLEAN

SE == INSTANCE SequencesExt

Contexts   == 0..(NContexts - 1)
Workspaces == 0..(NContexts * NWorkspaces - 1)

ContextOf(w)         == w \div NWorkspaces
WorkspaceAt(c, i)    == NWorkspaces * c + i
WorkspacesOf(c)      == {w \in Workspaces : ContextOf(w) = c}
NeighbourOf(i, n, d) == IF d = "Forward" THEN (i + 1) % n ELSE (i + n - 1) % n

NewView == [state |-> "gone", ws |-> Null, layer |-> TILE,
            floating |-> FALSE, free |-> FALSE, fullscreen |-> FALSE,
            contained |-> FALSE, iconified |-> FALSE,
            mapped |-> FALSE, focused |-> FALSE, managed |-> TRUE]

\* The constructor: every context shows its first workspace, nothing is
\* attached yet.
Constructed(kind) ==
  [ws |-> [w \in Workspaces |-> NewWorkspace(kind)],
   view |-> [v \in Views |-> NewView],
   ctx |-> [c \in Contexts |-> [output |-> Null, active |-> WorkspaceAt(c, 0), prev |-> Null]],
   out |-> [o \in Outputs |-> Null], outputs |-> EmptyCycle(TRUE),
   wsIndex |-> 0, ctxIndex |-> 0,
   output |-> Null, context |-> 0, workspace |-> 0,
   prevContext |-> Null, prevWorkspace |-> Null,
   focus |-> Null, jumpedFrom |-> Null, down |-> FALSE, astray |-> FALSE]

Crashed(m) == [m EXCEPT !.down = TRUE]

OutputOf(m, w)  == m.ctx[ContextOf(w)].output
IsVisible(m, w) == OutputOf(m, w) # Null /\ m.ctx[m.out[OutputOf(m, w)]].active = w
Empty(m, w)     == Size(m.ws[w].views) = 0

----------------------------------------------------------------------------
(* Views and placement.                                                    *)

Unfocus(m, v) == IF v = Null THEN m ELSE [m EXCEPT !.view[v].focused = FALSE]
Map(m, v)     == [m EXCEPT !.view[v].mapped = TRUE]
Unmap(m, v)   == IF m.view[v].mapped
                 THEN [Unfocus(m, v) EXCEPT !.view[v].mapped = FALSE] ELSE m

MoveViewToTrack(m, v, layer, shiftFocus) ==
  [m EXCEPT !.ws[m.view[v].ws] = ChangeViewTrack(@, v, m.view[v].layer, layer, shiftFocus),
            !.view[v].layer = layer]

PlacedLayer == [Free |-> FREE, Tile |-> TILE, Fullscreen |-> OVERLAY]

\* A view shown fullscreen keeps its m_free; one hidden loses it.
PlacedFree(m, p) == \/ p.method = "Free"
                    \/ p.method = "Fullscreen" /\ p.shown /\ m.view[p.view].free

Show(m, v, shown) == IF shown THEN Map(m, v) ELSE Unmap(m, v)

PlaceView(m, p) ==
  Show(MoveViewToTrack([m EXCEPT !.view[p.view].free = PlacedFree(m, p)],
                       p.view, PlacedLayer[p.method], FALSE),
       p.view, p.shown)

\* Workspace::arrange: fullscreen views first, then those that float in a tiled
\* layout, then the ones the layout places. A single layout hides all but the
\* focused view.
Arrange(m, w) ==
  LET views    == m.ws[w].views.elements
      layout   == Layout(m.ws[w])
      full     == {v \in Views : m.view[v].fullscreen /\ ~m.view[v].contained}
      floating == IF layout.free THEN {} ELSE {v \in Views \ full : m.view[v].floating}
      place(method, S) ==
        LET chosen == Kept(views, {i \in DOMAIN views : views[i] \in S})
        IN  [i \in DOMAIN chosen |->
               [view |-> chosen[i], method |-> method,
                shown |-> layout.single => m.view[chosen[i]].focused]]
  IN  place("Fullscreen", full) \o place("Free", floating)
      \o place(IF layout.free THEN "Free" ELSE "Tile", Views \ (full \cup floating))

\* Only a workspace that an output shows is laid out.
ApplyLayout(m, w) ==
  IF IsVisible(m, w) THEN SE!FoldLeft(PlaceView, m, Arrange(m, w)) ELSE m

OnWorkspace(m, w) == [m EXCEPT !.ws[m.workspace] = w]
Current(m)        == m.ws[m.workspace]
LaidOut(m)        == ApplyLayout(m, m.workspace)

ActivateTrackOf(m, v) == [m EXCEPT !.ws[m.view[v].ws] = ActivateTrack(@, m.view[v].layer)]

\* relayer_views: every view on the layer its state asks for, then the track of
\* the focus becomes the active one.
RelayerView(m, v) ==
  MoveViewToTrack(m, v, IF m.view[v].free THEN FREE
                        ELSE IF m.view[v].fullscreen THEN OVERLAY ELSE TILE, FALSE)
FollowFocus(m) == IF m.focus = Null THEN m ELSE ActivateTrackOf(m, m.focus)
RelayerViews(m, w) == FollowFocus(SE!FoldLeft(RelayerView, m, m.ws[w].views.elements))

----------------------------------------------------------------------------
(* Focus. focus_view, activate_workspace and sync_focus call each other;   *)
(* the recursion ends because the view a workspace holds as active is a    *)
(* view of that workspace, which makes the inner activate_workspace return *)
(* at once. astray records a state where it would not.                     *)

\* The old focus is told, then the new one.
SwitchFocus(m, v) ==
  [Unfocus(m, m.focus) EXCEPT !.view[v].focused = TRUE, !.focus = v]

\* What such layouts show or where depends on the focus.
FitLayout(m) ==
  IF Layout(Current(m)).persistent \/ Layout(Current(m)).single THEN LaidOut(m) ELSE m

Activate(m, v) == OnWorkspace(m, ActivateView(Current(m), v, m.view[v].layer))

\* Mutants: a single layout is not laid out anew; the old focus is not told.
GiveFocusUnlaid(m, v) == ActivateTrackOf(SwitchFocus(Activate(m, v), v), v)
GiveFocusTwice(m, v) ==
  ActivateTrackOf([Activate(m, v) EXCEPT !.view[v].focused = TRUE, !.focus = v], v)

\* The part of focus_view that follows the activation of its workspace.
GiveFocus(m, v) == ActivateTrackOf(FitLayout(SwitchFocus(Activate(m, v), v)), v)

CanFocus(m, v) == /\ v # Null /\ m.view[v].ws # Null
                  /\ OutputOf(m, m.view[v].ws) # Null
                  /\ m.focus # v

\* mp_focus becomes active even where focus_view declines (a workspace without
\* an output).
FollowActive(m, active) ==
  [IF CanFocus(m, active) THEN GiveFocus(m, active) ELSE m EXCEPT
     !.focus = active, !.astray = @ \/ m.view[active].ws # m.workspace]

\* The focus follows the active view of the current workspace. A workspace with
\* views and no active one keeps the old focus.
SyncFocus(m) ==
  LET active == Current(m).active
  IN  IF active = m.focus THEN m
      ELSE IF active # Null THEN FollowActive(Unfocus(m, m.focus), active)
      ELSE IF Empty(m, m.workspace) THEN [Unfocus(m, m.focus) EXCEPT !.focus = Null]
      ELSE Unfocus(m, m.focus)

\* Mutant: the workspace is not laid out.
ActivateWorkspaceUnlaid(m, w) ==
  LET from == m.workspace
      hidden == SE!FoldLeft(Unmap, m, m.ws[from].views.elements)
  IN  IF w = from THEN m
      ELSE SyncFocus([hidden EXCEPT !.prevWorkspace = from, !.workspace = w, !.wsIndex = w,
                                    !.ctx[ContextOf(w)].active = w])

\* Mutant: the index of m_workspaces is counted from 1.
ActivateWorkspaceFromOne(m, w) == [ActivateWorkspaceUnlaid(m, w) EXCEPT !.wsIndex = w + 1]

\* Leaving for another context leaves the views of this one mapped and
\* mp_context and mp_output where they are.
ActivateWorkspace(m, w) ==
  LET from     == m.workspace
      hidden   == IF ContextOf(w) = ContextOf(from)
                  THEN SE!FoldLeft(Unmap, m, m.ws[from].views.elements) ELSE m
      c        == ContextOf(w)
      switched == [hidden EXCEPT !.prevWorkspace = from, !.workspace = w, !.wsIndex = w,
                                 !.ctx[c].prev   = IF m.ctx[c].active # w
                                                   THEN m.ctx[c].active ELSE @,
                                 !.ctx[c].active = w]
  IN  IF w = from THEN m ELSE SyncFocus(ApplyLayout(switched, w))

FocusView(m, v) ==
  IF CanFocus(m, v) THEN GiveFocus(ActivateWorkspace(m, m.view[v].ws), v) ELSE m

\* The focus may already be another one when activate_workspace returns.
Refocused(m) ==
  IF m.focus = Null THEN Crashed(m)
  ELSE FitLayout([Activate(m, m.focus) EXCEPT !.view[m.focus].focused = TRUE])

Refocus(m) ==
  IF m.focus = Null \/ OutputOf(m, m.view[m.focus].ws) = Null THEN m
  ELSE Refocused(ActivateWorkspace(m, m.view[m.focus].ws))

----------------------------------------------------------------------------
(* Commands on the current workspace.                                      *)

\* Mutants: mp_focus is not synchronised.
CycleFocusUnsynced(m, d) == OnWorkspace(m, CycleFocus(Current(m), d))
ReverseUnsynced(m)       == LaidOut(OnWorkspace(m, Reverse(Current(m))))

CycleFocusCommand(m, d)      == SyncFocus(OnWorkspace(m, CycleFocus(Current(m), d)))
CycleFocusTrackCommand(m, d) == SyncFocus(OnWorkspace(m, CycleFocusTrack(Current(m), d)))
DragFocusTrackCommand(m, d)  == LaidOut(SyncFocus(OnWorkspace(m, DragFocusTrack(Current(m), d))))
CycleTrackCommand(m, d)      == SyncFocus(OnWorkspace(m, CycleTrack(Current(m), d)))
ActivateTrackCommand(m, l)   == SyncFocus(OnWorkspace(m, ActivateTrack(Current(m), l)))
ReverseViews(m)              == LaidOut(SyncFocus(OnWorkspace(m, Reverse(Current(m)))))
RotateViews(m, d)            == LaidOut(SyncFocus(OnWorkspace(m, Rotate(Current(m), d))))
ShuffleMainCommand(m, d, n)  == LaidOut(SyncFocus(OnWorkspace(m, ShuffleMain(Current(m), d, n))))
ShuffleStackCommand(m, d, n) == LaidOut(SyncFocus(OnWorkspace(m, ShuffleStack(Current(m), d, n))))

\* Mutant: the views are put on their layers but not laid out.
SetLayoutUnlaid(m, k, same) ==
  RelayerViews(OnWorkspace(m, SetKind(Current(m), k, same)), m.workspace)

SetLayout(m, k, same) ==
  RelayerViews(LaidOut(OnWorkspace(m, SetKind(Current(m), k, same))), m.workspace)
ToggleLayout(m) ==
  RelayerViews(LaidOut(OnWorkspace(m, SetPrevKind(Current(m)))), m.workspace)
SetLayoutRetainRegion(m, k, same) ==
  LaidOut(RelayerViews(OnWorkspace(m, SetKind(Current(m), k, same)), m.workspace))

----------------------------------------------------------------------------
(* Commands on one view.                                                   *)

\* Mutant: a view sent to a hidden workspace stays mapped.
MoveViewMapped(m, v, to) ==
  LET from == m.view[v].ws
      left == IF from = Null THEN m
              ELSE [m EXCEPT !.ws[from] = RemoveView(@, v, m.view[v].layer)]
      added == [left EXCEPT !.view[v].ws = to, !.ws[to] = AddView(@, v, m.view[v].layer)]
  IN  IF to = from THEN m ELSE SyncFocus(ApplyLayout(Map(added, v), to))

LeaveWorkspace(m, v, w) ==
  IF w = Null THEN m
  ELSE ApplyLayout([m EXCEPT !.ws[w] = RemoveView(@, v, m.view[v].layer)], w)
JoinWorkspace(m, v, w) ==
  ApplyLayout([m EXCEPT !.ws[w] = AddView(@, v, m.view[v].layer)], w)
ShowIfVisible(m, v) == Show(m, v, IsVisible(m, m.view[v].ws))

MoveViewToWorkspace(m, v, to) ==
  LET from  == m.view[v].ws
      moved == [m EXCEPT !.view[v].ws = to]
  IN  IF to = from THEN m
      ELSE SyncFocus(ShowIfVisible(JoinWorkspace(LeaveWorkspace(moved, v, from), v, to), v))

\* View::tile changes the scene layer, and not the track, of a view that
\* becomes floating while free or tiled while not.
Tile(m, v, floating) ==
  LET r == m.view[v]
  IN  [m EXCEPT !.view[v].floating = floating,
                !.view[v].layer = IF r.floating = floating \/ r.free # floating THEN @
                                  ELSE IF floating THEN FREE ELSE TILE]

FollowIfFocus(m, v) == IF v = m.focus THEN ActivateTrackOf(m, v) ELSE m

SetFloating(m, v, floating) ==
  FollowIfFocus(ApplyLayout(Tile(m, v, floating), m.view[v].ws), v)

ActivateTrackIfFocus(m, v, layer) ==
  IF v = m.focus THEN ActivateTrackCommand(m, layer) ELSE m

SetFullscreen(m, v, fullscreen) ==
  LET r     == m.view[v]
      layer == IF fullscreen THEN OVERLAY ELSE IF r.free THEN FREE ELSE TILE
      set   == [m EXCEPT !.view[v].fullscreen = fullscreen]
  IN  IF r.fullscreen = fullscreen THEN m
      ELSE ApplyLayout(ActivateTrackIfFocus(IF fullscreen /\ r.contained THEN set
                                            ELSE MoveViewToTrack(set, v, layer, FALSE),
                                            v, layer),
                       r.ws)

SetContained(m, v, contained) ==
  ApplyLayout([m EXCEPT !.view[v].contained = contained], m.view[v].ws)

SetIconify(m, v, iconify) ==
  LET r     == m.view[v]
      moved == [m EXCEPT !.ws[r.ws] = IF iconify THEN ViewToIcon(@, v, r.layer)
                                                 ELSE IconToView(@, v, r.layer),
                         !.view[v].iconified = iconify]
  IN  IF r.iconified = iconify THEN m
      ELSE SyncFocus(ApplyLayout(IF iconify THEN Unmap(moved, v) ELSE moved, r.ws))

PopDeiconify(m) ==
  LET icon == PopIcon(Current(m))
  IN  IF icon = Null THEN m ELSE SetIconify(m, icon, FALSE)

\* The bound is the number of views, and grows by each view that comes back:
\* all icons return, unless there was no view to begin with.
PopAnother(m, icon) == PopDeiconify(m)
DeiconifyAll(m) ==
  IF Empty(m, m.workspace) THEN m
  ELSE SE!FoldLeft(PopAnother, m, Current(m).icons.elements)

\* Moving or resizing by command places the view as a free one.
NudgeView(m, v) ==
  IF m.view[v].free
  THEN PlaceView(m, [view |-> v, method |-> "Free", shown |-> TRUE]) ELSE m

\* found is what the search returned. A second jump to the focus jumps back.
JumpView(m, found) ==
  LET target == IF found = m.focus /\ m.jumpedFrom # Null THEN m.jumpedFrom ELSE found
  IN  IF m.view[target].state = "gone" THEN Crashed(m)
      ELSE FocusView([m EXCEPT !.jumpedFrom = IF m.focus # Null THEN m.focus ELSE @], target)

----------------------------------------------------------------------------
(* A client's window comes and goes.                                       *)

\* The last of initialize_view and register_view: the new view has the focus.
Registered(m, v) == SyncFocus(MoveViewToTrack(m, v, m.view[v].layer, TRUE))

\* handle_map and register_view. asked is the workspace the window asks for
\* (the current one, or the one shown on the output it names to be fullscreen
\* on); the rules may name a context and a workspace within it.
RegisterView(m, v, asked, rules) ==
  LET output  == OutputOf(m, asked)
      context == IF rules.context # Null THEN rules.context ELSE m.out[output]
      to      == IF rules.workspace # Null THEN WorkspaceAt(context, rules.workspace)
                 ELSE m.ctx[context].active
      mapped  == [m EXCEPT !.view[v].state = "mapped", !.view[v].mapped = TRUE,
                           !.view[v].layer = IF rules.float = TRUE THEN FREE ELSE TILE,
                           !.view[v].floating = IF rules.float # Null THEN rules.float
                                                ELSE rules.prefersFloating]
  IN  IF output = Null /\ rules.context = Null THEN Crashed(m)
      ELSE IF rules.fullscreen
           THEN Registered(SetFullscreen(MoveViewToWorkspace(mapped, v, to), v, TRUE), v)
           ELSE Registered(MoveViewToWorkspace(mapped, v, to), v)

\* handle_unmap. The workspace the view was on is laid out.
Unregistered(m, v) ==
  IF m.output = Null THEN Crashed(m)
  ELSE ApplyLayout([SyncFocus(m) EXCEPT !.view[v].state = "unmapped",
                                        !.view[v].managed = FALSE], m.view[v].ws)
UnregisterView(m, v) == Unregistered(LeaveWorkspace(m, v, m.view[v].ws), v)

Referenced(m, v) ==
  m.focus = v \/ \E w \in Workspaces :
    \/ m.ws[w].active = v
    \/ \E c \in {m.ws[w].views, m.ws[w].icons} \cup Range(m.ws[w].tracks) : Contains(c, v)

\* handle_destroy: the object is deleted. Whatever still refers to it will be
\* followed; mp_jumped_from is followed only by a jump back.
DestroyView(m, v) == [m EXCEPT !.view[v] = NewView, !.down = @ \/ Referenced(m, v)]

----------------------------------------------------------------------------
(* Contexts and outputs.                                                   *)

\* Mutant: the context is not told its output.
SetContextOneSided(m, o, c) == [m EXCEPT !.out[o] = c]

\* The previous context of the output is told that it has none, whoever shows
\* it by now.
SetContext(m, o, c) ==
  [m EXCEPT !.ctx = [d \in Contexts |->
                      IF d = c THEN [@[d] EXCEPT !.output = o]
                      ELSE IF d = m.out[o] THEN [@[d] EXCEPT !.output = Null] ELSE @[d]],
            !.out[o] = c]

\* Mutant: the views of the context left behind stay mapped.
ActivateContextUnhidden(m, c) ==
  IF c = m.context THEN m
  ELSE IF m.output = Null THEN Crashed(m)
  ELSE ActivateWorkspace([SetContext(m, m.output, c) EXCEPT
                            !.prevContext = m.context, !.context = c, !.ctxIndex = c],
                         m.ctx[c].active)

ActivateContext(m, c) ==
  LET hidden  == SE!FoldLeft(Unmap, m, Current(m).views.elements)
      there   == m.ctx[c].output
      swapped == IF there # Null /\ there # m.output
                 THEN SetContext(hidden, there, m.context) ELSE hidden
      shown   == [SetContext(swapped, m.output, c) EXCEPT
                    !.prevContext = m.context, !.context = c, !.ctxIndex = c]
  IN  IF c = m.context THEN m
      ELSE IF m.output = Null THEN Crashed(hidden)
      ELSE ActivateWorkspace(shown, m.ctx[c].active)

\* update_outputs and propagate_output_layout_change.
LayOutOutput(m, o) == ApplyLayout(m, m.ctx[m.out[o]].active)
UpdateOutputs(m)   == SE!FoldLeft(LayOutOutput, m, m.outputs.elements)

\* output_reserve_context and register_output: the first context no output
\* shows. With none left the new output's context pointer stays null and is
\* dereferenced. A change of the output layout comes before.
RegisterOutput(m, o) ==
  LET unshown == {c \in Contexts : m.ctx[c].output = Null}
      c       == CHOOSE c \in unshown : \A d \in unshown : c <= d
  IN  IF unshown = {} THEN Crashed(m)
      ELSE [SetContext(m, o, c) EXCEPT !.outputs = InsertAtBack(@, o), !.output = o,
                                       !.context = c, !.workspace = m.ctx[c].active]
NewOutput(m, o) == RegisterOutput(UpdateOutputs(m), o)

\* Mutant: the context keeps the output.
DestroyOutputOneSided(m, o) ==
  LET outputs == RemoveElement(m.outputs, o)
  IN  [m EXCEPT !.out[o] = Null, !.outputs = outputs, !.output = ActiveElement(outputs)]

\* The object is deleted. It tells the context it points to; another context
\* that shows it (one swapped with it) is left with the deleted one.
DestroyOutput(m, o) ==
  LET outputs == RemoveElement(m.outputs, o)
      other   == {c \in Contexts \ {m.out[o]} : m.ctx[c].output = o}
  IN  [UpdateOutputs(m) EXCEPT
                !.ctx[m.out[o]].output = Null, !.out[o] = Null,
                !.outputs = outputs, !.output = ActiveElement(outputs),
                !.down = @ \/ other # {}]

----------------------------------------------------------------------------
(* What a model is, with C and K as for its workspaces.                    *)

ViewRecords ==
  [state : {"gone", "mapped", "unmapped"}, ws : Workspaces \cup {Null}, layer : TrackLayers,
   floating : BOOLEAN, free : BOOLEAN, fullscreen : BOOLEAN, contained : BOOLEAN,
   iconified : BOOLEAN, mapped : BOOLEAN, focused : BOOLEAN, managed : BOOLEAN]

ContextRecords ==
  [output : Outputs \cup {Null}, active : Workspaces, prev : Workspaces \cup {Null}]

ModelRecords(C, K) ==
  [ws : [Workspaces -> WorkspaceRecords(C, K)], view : [Views -> ViewRecords],
   ctx : [Contexts -> ContextRecords], out : [Outputs -> Contexts \cup {Null}],
   outputs : Cycles(Outputs), wsIndex : Workspaces, ctxIndex : Contexts,
   output : Outputs \cup {Null}, context : Contexts, workspace : Workspaces,
   prevContext : Contexts \cup {Null}, prevWorkspace : Workspaces \cup {Null},
   focus : K \cup {Null}, jumpedFrom : Views \cup {Null},
   down : BOOLEAN, astray : BOOLEAN]
============================================================================
