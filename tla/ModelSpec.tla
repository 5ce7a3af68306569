----------------------------- MODULE ModelSpec -----------------------------
(***************************************************************************)
(* The compositor's model under its users: key and cursor bindings, client *)
(* windows and outputs, in any order. The event loop runs one handler at a *)
(* time, so a handler is one step.                                         *)
(***************************************************************************)
EXTENDS Model

CONSTANTS Families,     \* the families of commands used
          InitialKind,  \* the kind of layout the workspaces start with
          Kinds         \* the kinds the user may choose

ASSUME KindsAssumption == Kinds \cup {InitialKind} \subseteq DOMAIN LayoutKinds

VARIABLE model

focus      == model.focus
Mapped     == {v \in Views : model.view[v].state = "mapped"}
Attached   == {o \in Outputs : model.out[o] # Null}

\* The view under the cursor: its scene node exists and is enabled.
Pointable  == {v \in Mapped : model.view[v].mapped}

\* The backend starts with one output.
Init == \E o \in Outputs : model = NewOutput(Constructed(InitialKind), o)

Uses(family) == family \in Families /\ ~model.down /\ ~model.astray

----------------------------------------------------------------------------
(* Windows.                                                                *)

Mappable(v) ==
  model.view[v].state \in {"gone"} \cup (IF "remap" \in Families THEN {"unmapped"} ELSE {})

MapView(v, asked, rules) ==
  /\ Uses("window") /\ Mappable(v)
  /\ model' = RegisterView(model, v, asked, rules)

\* handle_map of a window that asked to be fullscreen and named no output, or one
\* that is gone since: it looks for the workspace behind the null.
MapOnNoOutput(v) ==
  /\ Uses("window") /\ Mappable(v)
  /\ model' = Crashed(model)

UnmapView(v) ==
  /\ Uses("window") /\ v \in Mapped
  /\ model' = UnregisterView(model, v)

Destroy(v) ==
  /\ Uses("window") /\ model.view[v].state = "unmapped"
  /\ model' = DestroyView(model, v)

RequestFullscreen(v, on) ==
  /\ Uses("fullscreen") /\ v \in Mapped
  /\ model' = SetFullscreen(model, v, on)

\* A click, or a motion while the focus follows the cursor, or the presentation
\* of a frame after the view under the cursor may have changed.
FocusUnderCursor(v) ==
  /\ Uses("pointer") /\ v \in Pointable /\ model.view[v].managed
  /\ model' = FocusView(model, v)

\* An X client asks for its window to be activated, shown or not.
RequestActivate(v) ==
  /\ Uses("activate") /\ v \in Mapped
  /\ model' = FocusView(model, v)

----------------------------------------------------------------------------
(* Bindings.                                                               *)

MoveFocus(d) ==
  /\ Uses("focus")
  /\ \/ Size(Current(model).views) > 1 /\ model' = CycleFocusCommand(model, d)
     \/ Size(CurrentTrack(Current(model))) > 1 /\ model' = CycleFocusTrackCommand(model, d)
     \/ model' = CycleTrackCommand(model, d)

DragFocus(d) ==
  /\ Uses("drag") /\ Size(CurrentTrack(Current(model))) > 1
  /\ model' = DragFocusTrackCommand(model, d)

Reorder(d) ==
  /\ Uses("order") /\ Size(Current(model).views) > 1
  /\ \/ model' = ReverseViews(model)
     \/ model' = RotateViews(model, d)

Shuffle(d, mainCount) ==
  /\ Uses("order")
  /\ LET n    == Size(Current(model).views)
         main == IF mainCount < n THEN mainCount ELSE n
     IN  \/ main > 1     /\ model' = ShuffleMainCommand(model, d, mainCount)
         \/ n - main > 1 /\ model' = ShuffleStackCommand(model, d, mainCount)

ChooseLayout(k, same) ==
  /\ Uses("layout")
  /\ \/ model' = SetLayout(model, k, same)
     \/ LayoutKinds[k].free /\ model' = SetLayoutRetainRegion(model, k, same)

SwitchLayout == Uses("layout") /\ model' = ToggleLayout(model)

\* The bindings act on the focus or on the view under the cursor, which is then
\* focused if it is managed.
FocusManaged(m, v) == IF m.view[v].managed THEN FocusView(m, v) ELSE m

ReverseFloating(v) ==
  /\ Uses("float")
  /\ \/ v = focus /\ model' = SetFloating(model, v, ~model.view[v].floating)
     \/ /\ v \in Pointable \ {focus}
        /\ model' = FocusManaged(SetFloating(model, v, ~model.view[v].floating), v)

ReverseFullscreen(v) ==
  /\ Uses("fullscreen")
  /\ \/ v = focus /\ model' = SetFullscreen(model, v, ~model.view[v].fullscreen)
     \/ /\ v \in Pointable \ {focus}
        /\ model' = FocusManaged(SetFullscreen(model, v, ~model.view[v].fullscreen), v)

ReverseContained ==
  /\ Uses("contain") /\ focus # Null
  /\ model' = SetContained(model, focus, ~model.view[focus].contained)

ReverseIconify ==
  /\ Uses("icon") /\ focus # Null
  /\ model' = SetIconify(model, focus, ~model.view[focus].iconified)

Deiconify ==
  /\ Uses("icon")
  /\ model' = PopDeiconify(model) \/ model' = DeiconifyAll(model)

Nudge(v) ==
  /\ Uses("nudge") /\ (v = focus \/ v \in Pointable)
  /\ model' = NudgeView(model, v)

Jump(v) ==
  /\ Uses("jump") /\ v \in Views /\ model.view[v].state # "gone" /\ model.view[v].managed
  /\ model' = JumpView(model, v)

MoveToWorkspace(v, w) ==
  /\ Uses("workspace") /\ (v = focus \/ v \in Pointable)
  /\ model' = MoveViewToWorkspace(model, v, w)

\* Bindings reach the workspaces of the current context, and the next and
\* previous ones of them all.
SwitchWorkspace(w) ==
  /\ Uses("workspace")
  /\ \/ w \in WorkspacesOf(model.context)
     \/ \E d \in Directions :
          "stray" \in Families /\ w = NeighbourOf(model.wsIndex, NContexts * NWorkspaces, d)
  /\ model' = ActivateWorkspace(model, w)

SwitchContext(c) == Uses("context") /\ model' = ActivateContext(model, c)

----------------------------------------------------------------------------
(* Outputs and the rest of the program.                                    *)

AttachOutput(o) ==
  /\ Uses("output") /\ o \notin Attached
  /\ model' = NewOutput(model, o)

DetachOutput(o) ==
  /\ Uses("output") /\ o \in Attached
  /\ model' = DestroyOutput(model, o)

\* The end of a grab by a layer surface, an unmanaged window or a drag.
RegainFocus == Uses("pointer") /\ focus # Null /\ model' = Refocus(model)

\* A layer surface or an output mode takes room, or a layout's data changes.
Relayout == ~model.down /\ ~model.astray /\ model' = UpdateOutputs(model)

AskedWorkspaces == {model.workspace} \cup {model.ctx[model.out[o]].active : o \in Attached}

RuleSets == [context : {Null} \cup (IF "rules" \in Families THEN Contexts ELSE {}),
             workspace : {Null} \cup (IF "rules" \in Families THEN 0..(NWorkspaces - 1) ELSE {}),
             prefersFloating : IF "float" \in Families THEN BOOLEAN ELSE {FALSE},
             float : IF "traits" \in Families THEN {Null, TRUE, FALSE} ELSE {Null},
             fullscreen : IF "traits" \in Families THEN BOOLEAN ELSE {FALSE}]

Handled ==
  \/ \E v \in Views :
       \/ \E asked \in AskedWorkspaces, rules \in RuleSets : MapView(v, asked, rules)
       \/ \E on \in BOOLEAN : RequestFullscreen(v, on)
       \/ \E w \in Workspaces : MoveToWorkspace(v, w)
       \/ UnmapView(v) \/ Destroy(v) \/ FocusUnderCursor(v) \/ RequestActivate(v)
       \/ ReverseFloating(v) \/ ReverseFullscreen(v) \/ Nudge(v) \/ Jump(v)
  \/ \E d \in Directions : MoveFocus(d) \/ DragFocus(d) \/ Reorder(d)
  \/ \E d \in Directions, n \in 0..2 : Shuffle(d, n)
  \/ \E k \in Kinds, same \in BOOLEAN : ChooseLayout(k, same)
  \/ SwitchLayout \/ ReverseContained \/ ReverseIconify \/ Deiconify
  \/ \E w \in Workspaces : SwitchWorkspace(w)
  \/ \E c \in Contexts : SwitchContext(c)
  \/ \E o \in Outputs : AttachOutput(o) \/ DetachOutput(o)
  \/ RegainFocus \/ Relayout

Next == Handled \/ \E v \in Views : MapOnNoOutput(v)

Spec == Init /\ [][Next]_model

----------------------------------------------------------------------------
(* Where everything is. A model that is down promises nothing more.        *)

CyclesOf(w)    == {w.views, w.icons} \cup Range(w.tracks)
Members(c)     == Range(c.elements)
OptionalView   == Views \cup {Null}

(* The shape of the state: every pointer is null or points to an object of *)
(* its kind, every container holds views, and no index is negative.        *)
TypeOK == model \in ModelRecords(Cycles(Views), Views)

(* A window is in one place: among the views or among the icons of the     *)
(* workspace it points to, not both, and nowhere else; no container holds  *)
(* it twice. Every removal and insertion is in another method than the     *)
(* assignment of mp_workspace.                                             *)
WindowsAreHome ==
  ~model.down =>
  /\ \A w \in Workspaces :
       /\ \A c \in CyclesOf(model.ws[w]) : IsCycle(c, Views)
       /\ Members(model.ws[w].views) \cap Members(model.ws[w].icons) = {}
       /\ \A v \in Members(model.ws[w].views) \cup Members(model.ws[w].icons) :
            model.view[v].ws = w
  /\ \A v \in Mapped :
       LET w == model.ws[model.view[v].ws] IN Contains(w.views, v) \/ Contains(w.icons, v)

(* The tracks partition the views by scene layer. A track is looked up by  *)
(* the view's layer when the view leaves, so a layer changed without its   *)
(* track leaves the view behind in the wrong one.                          *)
TracksPartitionViews ==
  ~model.down =>
  \A w \in Workspaces :
    /\ \A v \in Members(model.ws[w].views) :
         Contains(model.ws[w].tracks[model.view[v].layer], v)
    /\ \A l \in TrackLayers : \A v \in Members(model.ws[w].tracks[l]) :
         Contains(model.ws[w].views, v) /\ model.view[v].layer = l

(* Nothing refers to a window that was unmapped: not the focus, and no     *)
(* container of any workspace. Its object is deleted next.                 *)
UnmappedIsForgotten ==
  ~model.down => \A v \in Views \ Mapped : ~Referenced(model, v)

(* Exactly the views of the workspaces on display are mapped, wherever     *)
(* they came from and whichever workspace was left for it.                 *)
ShownIsMapped ==
  ~model.down =>
  \A v \in Mapped :
    model.view[v].mapped <=> /\ IsVisible(model, model.view[v].ws)
                             /\ Contains(model.ws[model.view[v].ws].views, v)

(* No handler leaves the screen stale: laying everything out again changes *)
(* nothing, neither a view's layer and track nor what is mapped.           *)
LayoutIsSettled == ~model.down => UpdateOutputs(model) = model

----------------------------------------------------------------------------
(* The focus.                                                              *)

(* mp_focus, the workspace's active view, the active one of its track and  *)
(* of m_views are four variables that every command keeps in step: the     *)
(* keyboard goes to the window the workspace believes active, and the next *)
(* step through the track, on any workspace, starts from it.               *)
FocusIsActive == focus = Current(model).active
ActiveLeadsItsTrack ==
  \A w \in Workspaces : model.ws[w].active # Null =>
    /\ model.ws[w].active = ActiveElement(model.ws[w].tracks[model.ws[w].trackLayer])
    /\ model.ws[w].active = ActiveElement(model.ws[w].views)
FocusLeads == ~model.down => FocusIsActive /\ ActiveLeadsItsTrack

(* A workspace that has views has an active one among them, so a key       *)
(* binding always has a window to act on. An empty one has none.           *)
ActiveWhileAny ==
  ~model.down =>
  \A w \in Workspaces :
    IF Empty(model, w) THEN model.ws[w].active = Null
                       ELSE Contains(model.ws[w].views, model.ws[w].active)

(* At most one window believes it has the focus, and it is mp_focus: every *)
(* handler that gives the focus has taken it from the one that had it.     *)
OneIsFocused ==
  ~model.down => \A v \in Views : model.view[v].focused => v = focus

(* The focus of a workspace that an output shows knows of it, and is       *)
(* mapped; in a layout that shows one view the others are hidden, whoever  *)
(* moved the focus.                                                        *)
FocusIsShown ==
  ~model.down =>
  /\ focus # Null /\ IsVisible(model, model.view[focus].ws)
     => model.view[focus].focused /\ model.view[focus].mapped
  /\ \A w \in Workspaces : IsVisible(model, w) /\ Layout(model.ws[w]).single =>
       \A v \in Members(model.ws[w].views) : model.view[v].mapped => v = focus

(* The recursion of focus_view, activate_workspace and sync_focus ends.    *)
FocusRecursionEnds == ~model.astray

(* Nothing null is dereferenced, and nothing deleted is left behind. The   *)
(* code does not keep this; what follows says when it does not.            *)
NothingDangles == ~model.down

(* Beside a window that asks to be fullscreen on no output, a handler      *)
(* follows a null or deleted pointer in three ways only: the current       *)
(* workspace is of a context that no output shows; an output comes when    *)
(* every context is shown; a jump has brought back a window that closed,   *)
(* or returns to one. In every other state each handler finds its objects. *)
KnownWaysDown ==
  [][~model.down /\ model'.down /\ Handled =>
       \/ \A o \in Attached : model.out[o] # ContextOf(model.workspace)
       \/ /\ \A c \in Contexts : model.ctx[c].output # Null
          /\ \E o \in Outputs : AttachOutput(o)
       \/ /\ model.jumpedFrom # Null
          /\ \E v \in Views \ Mapped :
               Referenced(model, v) \/ (v = model.jumpedFrom /\ Jump(focus))]_model

(* Contexts and outputs point at each other, one to one.                   *)
ContextsMatchOutputs ==
  /\ \A o \in Attached : model.ctx[model.out[o]].output = o
  /\ \A c \in Contexts : model.ctx[c].output # Null => model.out[model.ctx[c].output] = c
============================================================================
