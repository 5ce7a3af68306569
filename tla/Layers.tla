------------------------------- MODULE Layers -------------------------------
(***************************************************************************)
(* Layer surfaces (src/kranewl/tree/layer.cc, the panels, docks, menus and *)
(* lock screens of layer-shell clients), the outputs that arrange them     *)
(* (tree/output.cc), and who has the keyboard: a panel, a window or an     *)
(* unmanaged X window. All of it is one record, shell:                     *)
(*                                                                         *)
(*   attached   the outputs that are there                                 *)
(*   full       by output, m_full_region                                   *)
(*   placeable  by output, m_placeable_region: what is left for windows    *)
(*   laid       by output, the region its workspace was last laid out in,  *)
(*              or Null when it has not been since the output came         *)
(*   lists      by output and layer, the sequence in m_layer_map           *)
(*   surface    by layer surface: whether it is alive and mapped, its      *)
(*              output, the state its client committed, its region         *)
(*   open       the windows (Views) that are mapped                        *)
(*   menus      the unmanaged X windows that are mapped                    *)
(*   focus      mp_focus                                                   *)
(*   keyboard   what the seat has the keyboard enter, or Null              *)
(*   up         FALSE once the program has used a surface it destroyed     *)
(*                                                                         *)
(* Which window gets the focus when one goes is ModelSpec's subject and    *)
(* free here, and so is where an output lies once the others change. A     *)
(* surface that is unmapped keeps its place and the state it committed.    *)
(***************************************************************************)
EXTENDS Integers, Sequences, FiniteSets, SequencesExt

CONSTANTS Null, Outputs, Regions,   \* by output, the regions it may cover
          Surfaces, Offers, Asks,   \* by surface, the states its client commits and
                                    \* the outputs it may come on
          Views, Menus, Home,       \* by view, the output that displays it
          Parent,                   \* by menu, its parent window, or Null
          MaxSurfaces               \* the bound: how many surfaces live at a time

Lists == INSTANCE Cycle             \* for Util::erase_remove

Axes    == {"x", "y"}
LowEdge  == [x |-> "left", y |-> "top"]
HighEdge == [x |-> "right", y |-> "bottom"]
Sides    == {"left", "right", "top", "bottom"}

LayerNames == {"overlay", "top", "bottom", "background"}

Span  == [pos : Int, dim : Int]
State == [layer : LayerNames, anchor : SUBSET Sides, size : [Axes -> Nat], zone : Int,
          margin : [Sides -> Int], interactive : BOOLEAN]

ASSUME LayersAssumption ==
  /\ Regions \in [Outputs -> SUBSET [Axes -> Span]]
  /\ \A s \in Surfaces : Offers[s] \subseteq State
  /\ Asks \in [Surfaces -> SUBSET Outputs]
  /\ Home \in [Views -> Outputs]
  /\ Parent \in [Menus -> Views \union {Null}]
  /\ MaxSurfaces \in Nat
  /\ Surfaces \intersect (Views \union Menus) = {} /\ Views \intersect Menus = {}
  /\ Null \notin Surfaces \union Views \union Menus \union Outputs

VARIABLE shell

NoSurface == [alive |-> FALSE, mapped |-> FALSE, output |-> Null, state |-> Null, region |-> Null]

----------------------------------------------------------------------------
(* Where a surface goes.                                                   *)

Truncated(a) == IF a >= 0 THEN a \div 2 ELSE -((-a) \div 2)

EdgesOf(a)  == {LowEdge[a], HighEdge[a]}
OtherAxis   == [x |-> "y", y |-> "x"]

\* arrange_layer along one axis, before the margins.
Anchored(st, a, bounds) ==
  CASE st.anchor \intersect EdgesOf(a) # {} /\ st.size[a] = 0 -> bounds
    [] LowEdge[a] \in st.anchor /\ st.size[a] # 0 -> [pos |-> bounds.pos, dim |-> st.size[a]]
    [] st.anchor \intersect EdgesOf(a) = {HighEdge[a]} /\ st.size[a] # 0 ->
         [pos |-> bounds.pos + bounds.dim - st.size[a], dim |-> st.size[a]]
    [] OTHER -> [pos |-> bounds.pos + Truncated(bounds.dim) - st.size[a] \div 2, dim |-> st.size[a]]

WithMargins(st, a, span) ==
  CASE EdgesOf(a) \subseteq st.anchor ->
         [pos |-> span.pos + st.margin[LowEdge[a]],
          dim |-> span.dim - st.margin[LowEdge[a]] - st.margin[HighEdge[a]]]
    [] st.anchor \intersect EdgesOf(a) = {LowEdge[a]} ->
         [span EXCEPT !.pos = @ + st.margin[LowEdge[a]]]
    [] st.anchor \intersect EdgesOf(a) = {HighEdge[a]} ->
         [span EXCEPT !.pos = @ - st.margin[HighEdge[a]]]
    [] OTHER -> span

SurfaceRegion(st, bounds) == [a \in Axes |-> WithMargins(st, a, Anchored(st, a, bounds[a]))]

\* propagate_exclusivity: an edge gives room when the surface is anchored to it
\* alone, or to it and both edges it meets.
GivesRoom(st, a, edge) ==
  /\ st.anchor \in {{edge}, {edge} \union EdgesOf(OtherAxis[a])}
  /\ st.zone + st.margin[edge] > 0

\* Mutant: the margin on that edge is not counted.
ShrunkByZone(st, a, span) ==
  CASE GivesRoom(st, a, LowEdge[a])  -> [pos |-> span.pos + st.zone, dim |-> span.dim - st.zone]
    [] GivesRoom(st, a, HighEdge[a]) -> [span EXCEPT !.dim = @ - st.zone]
    [] OTHER -> span

Shrunk(st, a, span) ==
  CASE GivesRoom(st, a, LowEdge[a]) ->
         [pos |-> span.pos + st.zone + st.margin[LowEdge[a]],
          dim |-> span.dim - st.zone - st.margin[LowEdge[a]]]
    [] GivesRoom(st, a, HighEdge[a]) ->
         [span EXCEPT !.dim = @ - st.zone - st.margin[HighEdge[a]]]
    [] OTHER -> span

Remaining(st, area) == [a \in Axes |-> Shrunk(st, a, area[a])]

----------------------------------------------------------------------------
(* Output::arrange_layers.                                                 *)

\* What an output lists, from the layer arranged first to the one arranged last.
Listed(sh, o) == sh.lists[o]["overlay"] \o sh.lists[o]["top"]
                   \o sh.lists[o]["bottom"] \o sh.lists[o]["background"]

Placed(acc, s, st, region) ==
  IF \E a \in Axes : region[a].dim < 0
  THEN [acc EXCEPT !.shell.up = FALSE]   \* destroyed while its list is walked
  ELSE [acc EXCEPT !.shell.surface[s].region = region,
                   !.area = IF st.zone > 0 THEN Remaining(st, @) ELSE @]

\* arrange_layer for one surface. A pass is for those that reserve room, or for
\* the others.
ArrangeSurface(acc, s) ==
  LET st == acc.shell.surface[s].state
  IN  IF acc.exclusive # (st.zone > 0) THEN acc
      ELSE Placed(acc, s, st,
                  SurfaceRegion(st, IF st.zone = -1 THEN acc.shell.full[acc.output] ELSE acc.area))

Pass(sh, o, exclusive, area) ==
  FoldLeft(ArrangeSurface, [shell |-> sh, output |-> o, exclusive |-> exclusive, area |-> area],
           Listed(sh, o))

\* Mutant: the new room is noted, and windows keep the old.
LayOutIdle(sh, o, area) == [sh EXCEPT !.placeable[o] = area]

\* The windows are laid out anew when the room for them has changed.
LayOut(sh, o, area) ==
  IF area = sh.placeable[o] THEN sh
  ELSE [sh EXCEPT !.placeable[o] = area, !.laid[o] = area]

\* The panels above the windows, in the order they are asked, and the positions
\* of those that want the keyboard. The first gets it.
AskedInTurn(sh, o) == Reverse(sh.lists[o]["overlay"]) \o Reverse(sh.lists[o]["top"])
Eager(sh, o) ==
  {i \in DOMAIN AskedInTurn(sh, o) : /\ sh.surface[AskedInTurn(sh, o)[i]].state.interactive
                                     /\ sh.surface[AskedInTurn(sh, o)[i]].mapped}

GiveKeyboard(sh, o) ==
  IF Eager(sh, o) = {} THEN sh
  ELSE [sh EXCEPT !.keyboard = AskedInTurn(sh, o)[Min(Eager(sh, o))]]

AfterExclusive(acc, o) == Pass(LayOut(acc.shell, o, acc.area), o, FALSE, acc.area)

ArrangeLayers(sh, o) ==
  IF \A i \in DOMAIN Listed(sh, o) : sh.surface[Listed(sh, o)[i]].alive
  THEN GiveKeyboard(AfterExclusive(Pass(sh, o, TRUE, sh.full[o]), o).shell, o)
  ELSE [sh EXCEPT !.up = FALSE]          \* a listed surface has been deleted

----------------------------------------------------------------------------
(* The keyboard.                                                           *)

\* Model::refocus: the focused window takes the keyboard back, if on display.
Refocus(sh) ==
  IF sh.focus = Null THEN sh
  ELSE IF Home[sh.focus] \notin sh.attached THEN sh
  ELSE [sh EXCEPT !.keyboard = sh.focus]

FocusView(sh, v) ==
  IF v = sh.focus \/ Home[v] \notin sh.attached THEN sh
  ELSE [sh EXCEPT !.focus = v, !.keyboard = v]

\* Server::relinquish_focus: a mapped panel above the windows keeps it.
RelinquishFocus(sh) ==
  IF sh.keyboard \notin Surfaces THEN [sh EXCEPT !.keyboard = Null]
  ELSE IF /\ sh.surface[sh.keyboard].mapped
          /\ sh.surface[sh.keyboard].state.layer \in {"top", "overlay"} THEN sh
  ELSE [sh EXCEPT !.keyboard = Null]

\* The seat forgets a surface that is destroyed.
Forgotten(sh, p) == IF sh.keyboard = p THEN [sh EXCEPT !.keyboard = Null] ELSE sh

----------------------------------------------------------------------------
(* Layer surfaces come, change and go.                                     *)

AddLayer(sh, o, l, s)    == [sh EXCEPT !.lists[o][l] = Append(@, s)]
RemoveLayer(sh, o, l, s) == [sh EXCEPT !.lists[o][l] = Lists!EraseRemove(@, s)]

\* commit has put the surface's new layer in m_scene_layer before it asks for
\* the surface to be moved, so the old list is never looked at.
RelayerLayer(sh, o, l, s) == AddLayer(RemoveLayer(sh, o, l, s), o, l, s)

\* A surface that names no output gets the active one.
Created(sh, s, o, st) ==
  [AddLayer(sh, o, st.layer, s) EXCEPT
     !.surface[s] = [alive |-> TRUE, mapped |-> FALSE, output |-> o, state |-> st,
                     region |-> sh.full[o]]]

\* The first commit: handle_new_layer_shell_surface.
NewSurface(s, o, st) ==
  /\ ~ shell.surface[s].alive /\ o \in shell.attached \intersect Asks[s]
  /\ Cardinality({t \in Surfaces : shell.surface[t].alive}) < MaxSurfaces
  /\ \A p \in Outputs, l \in LayerNames : ~ Contains(shell.lists[p][l], s)
  /\ shell' = ArrangeLayers(Created(shell, s, o, st), o)

\* Mutant: a panel that unmaps leaves the keyboard to whoever takes it.
UnmapLayerQuietly(sh, s) == [sh EXCEPT !.surface[s].mapped = FALSE]

UnmapLayer(sh, s) ==
  IF sh.keyboard = s THEN Refocus([sh EXCEPT !.surface[s].mapped = FALSE])
                     ELSE [sh EXCEPT !.surface[s].mapped = FALSE]

\* What a commit changes before handle_surface_commit is called: the client's
\* state, and whether the surface has a buffer to show.
Committed(sh, s, st, buffer) ==
  IF sh.surface[s].mapped /\ ~ buffer
  THEN UnmapLayer([sh EXCEPT !.surface[s].state = st], s)
  ELSE [sh EXCEPT !.surface[s].state = st, !.surface[s].mapped = buffer]

HandleCommit(sh, s, changed) ==
  IF sh.surface[s].output = Null \/ ~ changed THEN sh
  ELSE ArrangeLayers(RelayerLayer(sh, sh.surface[s].output, sh.surface[s].state.layer, s),
                     sh.surface[s].output)

\* changed: the client set any of its state, if only to what it was, or the
\* surface is mapped or unmapped.
Commit(s, st, buffer, sets) ==
  /\ shell.surface[s].alive
  /\ st # shell.surface[s].state => sets
  /\ shell' = HandleCommit(Committed(shell, s, st, buffer), s,
                           sets \/ buffer # shell.surface[s].mapped)

\* Mutant: the room is shared out again before the surface is off its list.
RemovedLate(sh, s, o) ==
  [RemoveLayer(ArrangeLayers(sh, o), o, sh.surface[s].state.layer, s) EXCEPT
     !.surface[s] = NoSurface]

Removed(sh, s, o) ==
  ArrangeLayers([RemoveLayer(sh, o, sh.surface[s].state.layer, s) EXCEPT
                   !.surface[s] = NoSurface], o)

HandleDestroy(sh, s) ==
  IF sh.surface[s].output = Null THEN [sh EXCEPT !.surface[s] = NoSurface]
  ELSE Removed(sh, s, sh.surface[s].output)

DestroySurface(s) ==
  /\ shell.surface[s].alive
  /\ shell' = Forgotten(HandleDestroy(IF shell.surface[s].mapped THEN UnmapLayer(shell, s)
                                                                ELSE shell, s), s)

----------------------------------------------------------------------------
(* Outputs.                                                                *)

\* Server::propagate_output_layout_change for one output: its region, its
\* panels, and its workspace in any case.
Propagated(sh, o) == [sh EXCEPT !.laid[o] = sh.placeable[o]]
PropagateTo(acc, o) ==
  [acc EXCEPT !.shell = Propagated(ArrangeLayers([@ EXCEPT !.full[o] = acc.full[o]], o), o)]
PropagateOutputLayoutChange(sh, outputs, full) ==
  FoldLeft(PropagateTo, [shell |-> sh, full |-> full], SetToSeq(outputs)).shell

Layouts(outputs) == {f \in [outputs -> UNION Range(Regions)] : \A o \in outputs : f[o] \in Regions[o]}

\* The output takes its place in the output layout, which moves the others, and
\* gets a context whose windows are not laid out for it yet.
Arrived(sh, o, region) ==
  [sh EXCEPT !.attached = @ \union {o}, !.full[o] = region, !.placeable[o] = region,
             !.laid[o] = Null]

AttachOutput(o) ==
  /\ o \notin shell.attached
  /\ \E full \in Layouts(shell.attached), region \in Regions[o] :
       shell' = Arrived(PropagateOutputLayoutChange(shell, shell.attached, full), o, region)

\* Its surfaces have no output from now on, and are never given one again.
Departed(sh, o) ==
  [sh EXCEPT !.attached = @ \ {o}, !.full[o] = Null, !.placeable[o] = Null, !.laid[o] = Null,
             !.surface = [s \in Surfaces |->
                IF \E l \in LayerNames : Contains(sh.lists[o][l], s)
                THEN [sh.surface[s] EXCEPT !.output = Null] ELSE sh.surface[s]],
             !.lists[o] = [l \in LayerNames |-> << >>]]

\* The others move up. The output that goes is still among them, and is arranged
\* too unless it was disabled before.
DetachOutput(o) ==
  /\ o \in shell.attached
  /\ \E outputs \in {shell.attached, shell.attached \ {o}} : \E full \in Layouts(outputs) :
       shell' = Departed(PropagateOutputLayoutChange(shell, outputs, full), o)

\* An output client moves or resizes outputs: handle_output_manager_apply.
Reconfigure == \E full \in Layouts(shell.attached) :
                 shell' = PropagateOutputLayoutChange(shell, shell.attached, full)

----------------------------------------------------------------------------
(* Windows, and unmanaged X windows.                                       *)

\* A window maps on the workspace on display, and is focused; or elsewhere.
OpenWindow(v) ==
  /\ v \notin shell.open /\ Home[v] \in shell.attached
  /\ \E focused \in BOOLEAN :
       shell' = IF focused THEN FocusView([shell EXCEPT !.open = @ \union {v}], v)
                           ELSE [shell EXCEPT !.open = @ \union {v}]

\* Model::sync_focus once the window is out of its workspace.
SyncFocus(sh, next) ==
  IF next = Null THEN [RelinquishFocus(sh) EXCEPT !.focus = Null] ELSE FocusView(sh, next)

CloseWindow(v) ==
  /\ v \in shell.open /\ Home[v] \in shell.attached
  /\ IF v # shell.focus THEN shell' = Forgotten([shell EXCEPT !.open = @ \ {v}], v)
     ELSE \E next \in {w \in shell.open \ {v} : Home[w] = Home[v]} \union {Null} :
            shell' = Forgotten(SyncFocus([shell EXCEPT !.open = @ \ {v}], next), v)

ClickWindow(v) == v \in shell.open /\ shell' = FocusView(shell, v)

\* XWaylandUnmanaged::handle_map and handle_request_activate of one that wants
\* the keyboard.
MapMenu(m)      == m \notin shell.menus /\ shell' = [shell EXCEPT !.menus = @ \union {m}, !.keyboard = m]
ActivateMenu(m) == m \in shell.menus /\ shell' = [shell EXCEPT !.keyboard = m]

\* The parent takes the keyboard, if it wants it; else the focused window.
UnmapMenu(m) ==
  /\ m \in shell.menus
  /\ \E wants \in BOOLEAN :
       shell' = IF shell.keyboard # m THEN [shell EXCEPT !.menus = @ \ {m}]
                ELSE IF wants /\ Parent[m] \in shell.open
                THEN [shell EXCEPT !.menus = @ \ {m}, !.keyboard = Parent[m]]
                ELSE Refocus([shell EXCEPT !.menus = @ \ {m}])

----------------------------------------------------------------------------
Init ==
  shell = [attached |-> {}, full |-> [o \in Outputs |-> Null],
           placeable |-> [o \in Outputs |-> Null], laid |-> [o \in Outputs |-> Null],
           lists |-> [o \in Outputs |-> [l \in LayerNames |-> << >>]],
           surface |-> [s \in Surfaces |-> NoSurface],
           open |-> {}, menus |-> {}, focus |-> Null, keyboard |-> Null, up |-> TRUE]

Next ==
  /\ shell.up
  /\ \/ \E s \in Surfaces, o \in Outputs : \E st \in Offers[s] : NewSurface(s, o, st)
     \/ \E s \in Surfaces, buffer, sets \in BOOLEAN : \E st \in Offers[s] : Commit(s, st, buffer, sets)
     \/ \E s \in Surfaces : DestroySurface(s)
     \/ \E o \in Outputs : AttachOutput(o) \/ DetachOutput(o)
     \/ Reconfigure
     \/ \E v \in Views : OpenWindow(v) \/ CloseWindow(v) \/ ClickWindow(v)
     \/ \E m \in Menus : MapMenu(m) \/ ActivateMenu(m) \/ UnmapMenu(m)

Spec == Init /\ [][Next]_shell

----------------------------------------------------------------------------
(* Correctness. A program that is not up promises nothing more.            *)

\* The surfaces an output lists, each once: one that has changed its layer is
\* listed twice, in its old layer too.
SurfacesOf(sh, o) == Range(Listed(sh, o))
ListsOnce(sh, o)  == IsInjective(Listed(sh, o))

RoomTaken(st, a, edge) == IF st.zone > 0 /\ GivesRoom(st, a, edge) THEN st.zone + st.margin[edge] ELSE 0
TakenBy(sh, a, edge, surfaces) ==
  MapThenSumSet(LAMBDA s : RoomTaken(sh.surface[s].state, a, edge), surfaces)

\* What panels leave of an area, each edge by itself.
LeftOf(sh, area, surfaces) ==
  [a \in Axes |-> [pos |-> area[a].pos + TakenBy(sh, a, LowEdge[a], surfaces),
                   dim |-> area[a].dim - TakenBy(sh, a, LowEdge[a], surfaces)
                                       - TakenBy(sh, a, HighEdge[a], surfaces)]]
RoomLeft(sh, o) == LeftOf(sh, sh.full[o], SurfacesOf(sh, o))

\* Whatever panels came, changed and went, and however outputs were moved, the
\* windows of an output are laid out in exactly the room its panels leave,
\* unless they have not been laid out since the output came.
LaidInRoomLeft ==
  shell.up => \A o \in shell.attached :
    ListsOnce(shell, o) => /\ shell.placeable[o] = RoomLeft(shell, o)
                           /\ shell.laid[o] \in {RoomLeft(shell, o), Null}

Apart(q, r) == \E a \in Axes : q[a].pos + q[a].dim <= r[a].pos \/ r[a].pos + r[a].dim <= q[a].pos

\* A panel that reserves as much room as it takes is not covered, whatever their
\* layers, by another that does or by one that asks to avoid such panels.
Reserves(st) ==
  st.zone > 0 /\ \E a \in Axes, edge \in Sides :
    edge \in EdgesOf(a) /\ GivesRoom(st, a, edge) /\ st.size[a] \in 1..st.zone

PanelsApart ==
  shell.up => \A o \in shell.attached : ListsOnce(shell, o) =>
    \A s, t \in SurfacesOf(shell, o) :
      /\ s # t
      /\ Reserves(shell.surface[s].state)
      /\ Reserves(shell.surface[t].state) \/ shell.surface[t].state.zone = 0
      => Apart(shell.surface[s].region, shell.surface[t].region)

Shown(sh, p) == IF p \in Surfaces THEN sh.surface[p].mapped ELSE p \in sh.open \union sh.menus

\* When the panel or the unmanaged window that has the keyboard goes, by itself
\* or with its client, the keyboard is not left with it, and comes to something
\* that is still shown.
KeyboardReturns ==
  [][\A p \in Surfaces \union Menus :
       /\ shell.keyboard = p /\ Shown(shell, p) /\ ~ Shown(shell', p) /\ shell'.up
       /\ shell.focus # Null /\ Home[shell.focus] \in shell.attached
       => shell'.keyboard # Null /\ Shown(shell', shell'.keyboard)]_shell
=============================================================================
