------------------------------- MODULE Tiling -------------------------------
(***************************************************************************)
(* The layout of one workspace on one output: its LayoutHandler, the views *)
(* it arranges, the regions apply_layout gave them last, and the layouts   *)
(* saved in files, which outlive the program.                              *)
(*                                                                         *)
(* views says how many views are fullscreen, floating and tiled, which     *)
(* tiled one leads (is focused, or was last), and the position of the      *)
(* focus: 1..tiled, then the floating ones, and 0 when it is on the        *)
(* fullscreen view or nothing is there. Which view gets the focus when one *)
(* goes is ModelSpec's subject and free here.                              *)
(*                                                                         *)
(* Bounds: MaxTiled and MaxFloats views beside one fullscreen one,         *)
(* MaxEdits changes of layout or data in all. The steps of a change stand  *)
(* for any number of repeats of a key.                                     *)
(***************************************************************************)
EXTENDS Arrangement, Folds

CONSTANTS Screen, Choices, Slots, MaxTiled, MaxFloats, MaxEdits,
          GapSteps, CountSteps, FactorSteps, MarginSteps

ASSUME TilingAssumption ==
  /\ Choices \subseteq LayoutKind
  /\ Screen \in [x : Int, y : Int, w : Int, h : Int]
  /\ MaxTiled \in Nat /\ MaxFloats \in Nat /\ MaxEdits \in Nat
  /\ GapSteps \union CountSteps \union FactorSteps \union MarginSteps \subseteq Int

VARIABLES handler, views, placed, saved, up, edits

vars == << handler, views, placed, saved, up, edits >>

----------------------------------------------------------------------------
(* Workspace::arrange and Model::apply_layout.                             *)

\* How many views are handed to the handler: in a free layout the floating
\* ones too.
Handed(kind, v) == IF Config(kind).free THEN v.tiled + v.floats ELSE v.tiled

\* The fullscreen view gets the whole region, shrunk by the gap like a tile.
FullscreenRegions(kind, d, v) == WithGaps(kind, d, [i \in 1..v.fulls |-> Screen])

ShownFullscreen(kind, regions, focus) ==
  IF Config(kind).single /\ focus # 0 THEN [i \in DOMAIN regions |-> Null] ELSE regions

\* Floating views keep their own region; a free layout places them itself.
FloatRegions(kind, v) == [i \in 1..(IF Config(kind).free THEN 0 ELSE v.floats) |-> FreeRegion]

ArrangeWorkspace(kind, d, v) ==
  ShownFullscreen(kind, FullscreenRegions(kind, d, v), v.focus) \o FloatRegions(kind, v)
    \o Arrange(kind, d, Screen, Handed(kind, v), v.lead, v.focus)

\* apply_layout places every view anew, unless the process ends in it.
Place(h, v) ==
  /\ placed' = ArrangeWorkspace(h.kind, ActiveData(h), v)
  /\ up' \in (IF DividesByCount(h.kind) /\ v.tiled = 0 THEN {TRUE, FALSE} ELSE {TRUE})

----------------------------------------------------------------------------
(* The views come and go, each time followed by apply_layout.              *)

Kinds == Choices \union {"Float"}

NoViews == [fulls |-> 0, floats |-> 0, tiled |-> 0, lead |-> 0, focus |-> 0]

\* The views regrouped. When the focus is not a tiled view, which of these
\* was focused last is left open.
Regrouped(fulls, floats, tiled, focus) ==
  {[fulls |-> fulls, floats |-> floats, tiled |-> tiled, lead |-> lead, focus |-> focus] :
     lead \in (IF focus \in 1..tiled THEN {focus} ELSE IF tiled = 0 THEN {0} ELSE 1..tiled)}

Regroup(v) == /\ views' = v
              /\ Place(handler, v)
              /\ UNCHANGED << handler, saved, edits >>

\* A view is registered at the back and takes the focus.
MapView == /\ up /\ views.tiled < MaxTiled
           /\ \E v \in Regrouped(views.fulls, views.floats, views.tiled + 1, views.tiled + 1) :
                Regroup(v)

Focuses(fulls, floats, tiled) ==
  (IF fulls = 1 \/ floats + tiled = 0 THEN {0} ELSE {}) \union 1..(floats + tiled)

\* One view closes; the focus stays or goes to any view left.
UnmapView ==
  /\ up
  /\ \E f \in 0..1, m \in 0..1, t \in 0..1 :
       /\ f + m + t = 1 /\ f <= views.fulls /\ m <= views.floats /\ t <= views.tiled
       /\ \E focus \in Focuses(views.fulls - f, views.floats - m, views.tiled - t) :
            \E v \in Regrouped(views.fulls - f, views.floats - m, views.tiled - t, focus) :
              Regroup(v)

FocusTiled == views.focus \in 1..views.tiled

\* The focused view floats, or a floating one is tiled, anywhere in the order.
ToggleFloating ==
  /\ up
  /\ \/ /\ FocusTiled /\ views.floats < MaxFloats
        /\ \E v \in Regrouped(views.fulls, views.floats + 1, views.tiled - 1,
                              views.tiled + views.floats) : Regroup(v)
     \/ /\ views.focus > views.tiled /\ views.tiled < MaxTiled
        /\ \E p \in 1..(views.tiled + 1) :
             \E v \in Regrouped(views.fulls, views.floats - 1, views.tiled + 1, p) : Regroup(v)

ToggleFullscreen ==
  /\ up
  /\ \/ /\ FocusTiled /\ views.fulls = 0
        /\ \E v \in Regrouped(1, views.floats, views.tiled - 1, 0) : Regroup(v)
     \/ /\ views.focus = 0 /\ views.fulls = 1 /\ views.tiled < MaxTiled
        /\ \E p \in 1..(views.tiled + 1) :
             \E v \in Regrouped(0, views.floats, views.tiled + 1, p) : Regroup(v)

\* focus_view: the views are only placed anew in a layout that depends on the
\* focus, as its configuration has it.
FocusView ==
  /\ up
  /\ \E focus \in Focuses(views.fulls, views.floats, views.tiled) \ {views.focus} :
       views' = [views EXCEPT !.focus = focus,
                              !.lead  = IF focus \in 1..views.tiled THEN focus ELSE @]
  /\ IF Config(handler.kind).persistent \/ Config(handler.kind).single
     THEN Place(handler, views') ELSE UNCHANGED << placed, up >>
  /\ UNCHANGED << handler, saved, edits >>

----------------------------------------------------------------------------
(* The layout and its data change, each time followed by apply_layout.     *)

Change(h) == /\ up /\ edits < MaxEdits
             /\ handler' = h
             /\ edits' = edits + 1
             /\ Place(h, views)
             /\ UNCHANGED << views, saved >>

ChooseLayout == \E kind \in Choices : Change(SetKind(handler, kind))
ToggleLayout == Change(SetPrevKind(handler))
AdjustGap    == \E change \in GapSteps : Change(ChangeGapSize(handler, change))
AdjustCount  == \E change \in CountSteps : Change(ChangeMainCount(handler, change))
AdjustFactor == \E change \in FactorSteps : Change(ChangeMainFactor(handler, change))
AdjustMargin == \E change \in MarginSteps :
                  \/ Change(ChangeMargin(handler, change))
                  \/ \E edge \in Edges : Change(ChangeMarginAt(handler, edge, change))
Reset        == \/ Change(ResetGapSize(handler))
                \/ Change(ResetMargin(handler))
                \/ Change(ResetLayoutData(handler))
SwitchData   == \/ \E direction \in Directions : Change(CycleLayoutData(handler, direction))
                \/ Change(SetPrevLayoutData(handler))
CopyData     == Change(CopyDataFromPrevLayout(handler))

SaveLayout == /\ up
              /\ \E slot \in Slots : saved' = [saved EXCEPT ![slot] = SavedLayout(handler)]
              /\ UNCHANGED << handler, views, placed, up, edits >>

\* A missing file changes nothing.
LoadSaved == /\ up
             /\ \E slot \in Slots : /\ saved[slot] # Null
                                    /\ handler' = LoadLayout(handler, saved[slot])
             /\ Place(handler', views)
             /\ UNCHANGED << views, saved, edits >>

----------------------------------------------------------------------------
(* The system.                                                             *)

Init == /\ handler = NewHandler(Kinds)
        /\ views = NoViews
        /\ placed = << >>
        /\ saved = [slot \in Slots |-> Null]
        /\ up = TRUE
        /\ edits = 0

\* The program starts again, after its end or a crash, and finds the files.
Restart == /\ handler' = NewHandler(Kinds)
           /\ views' = NoViews
           /\ placed' = << >>
           /\ up' = TRUE
           /\ UNCHANGED << saved, edits >>

ViewsChange  == MapView \/ UnmapView \/ ToggleFloating \/ ToggleFullscreen \/ FocusView
LayoutChange == \/ ChooseLayout \/ ToggleLayout \/ AdjustGap \/ AdjustCount \/ AdjustFactor
                \/ AdjustMargin \/ Reset \/ SwitchData \/ CopyData
                \/ SaveLayout \/ LoadSaved

Next == ViewsChange \/ LayoutChange \/ Restart

Spec == Init /\ [][Next]_vars
----------------------------------------------------------------------------
(* Correctness.                                                            *)

\* Type correctness, and what every method that dereferences
\* *data.active_element() relies on: each layout always has three data, one of
\* them active, within the limits of layout.hh.
LayoutTypeOK ==
  /\ handler.kind \in Kinds /\ handler.prevKind \in Kinds
  /\ \A k \in Kinds : /\ IsCycle(handler.sets[k], Places)
                           /\ ActivePlace(handler, k) \in Places
                           /\ \A p \in Places : /\ handler.data[k][p].gap \in 0..MaxGapSize
                                                /\ handler.data[k][p].count \in 0..MaxMainCount
                                                /\ handler.data[k][p].factor \in 5..95
                                                /\ \A e \in Edges : handler.data[k][p].margin[e]
                                                                    \in 0..MaxMargin[e]
  /\ views \in Regrouped(views.fulls, views.floats, views.tiled, views.focus)
  /\ \A slot \in Slots : saved[slot] = Null \/ saved[slot].kind \in Kinds
  /\ up \in BOOLEAN /\ edits \in 0..MaxEdits

Disjoint(r, q) == \/ r.x + r.w <= q.x \/ q.x + q.w <= r.x
                  \/ r.y + r.h <= q.y \/ q.y + q.h <= r.y
Inside(r, s)   == /\ s.x <= r.x /\ r.x + r.w <= s.x + s.w
                  /\ s.y <= r.y /\ r.y + r.h <= s.y + s.h

\* The layouts that share the screen out without overlap: the non-overlapping
\* ones of layout.hh but OverlappingPaper, which is listed among them.
ApartKinds == NonOverlappingKinds \ {"OverlappingPaper"}

\* Every number of views, and every one of them leading.
Arrangements(kind, d) ==
  UNION {{Arrange(kind, d, Screen, n, lead, lead) : lead \in 1..n} : n \in 1..MaxTiled}

\* A gap that leaves less of a cell than a view must have makes the tile as
\* large as it must be, without moving it.
Roomy(tile) == tile.w > MinViewWidth /\ tile.h > MinViewHeight

TilesLieApart(tiles, free) ==
  \A i \in DOMAIN tiles : Roomy(tiles[i]) =>
    /\ Inside(tiles[i], free)
    /\ \A j \in DOMAIN tiles \ {i} : Roomy(tiles[j]) => Disjoint(tiles[i], tiles[j])

\* The tiles of a non-overlapping layout lie apart, inside what the margins
\* leave of the screen, for any data and any number of views: the arithmetic of
\* the arrange_* functions (shares, divisions, offsets, gaps) adds up.
TilesApart ==
  \A kind \in ApartKinds : \A tiles \in Arrangements(kind, ActiveData(handler)) :
    TilesLieApart(tiles, Inset(Screen, ActiveData(handler).margin))

AreaOf(tiles) == FoldFunction(+, 0, [i \in DOMAIN tiles |-> tiles[i].w * tiles[i].h])
Longest(r)    == IF r.w >= r.h THEN r.w ELSE r.h

\* Without a gap those tiles leave nothing of the screen but what the divisions
\* round off, less than a line of pixels for each view: no arrange_* function
\* loses a column, whatever the main count and factor.
ScreenIsFilled ==
  LET free == Inset(Screen, ActiveData(handler).margin) IN
  \A kind \in ApartKinds : \A tiles \in Arrangements(kind, [ActiveData(handler) EXCEPT !.gap = 0]) :
    (\A i \in DOMAIN tiles : Roomy(tiles[i])) =>
       free.w * free.h - AreaOf(tiles) <= (Len(tiles) - 1) * Longest(free)

\* The regions on the screen are those the layout gives now: every handler that
\* changes the views, the layout or its data calls apply_layout, and focus_view
\* does for each layout whose arrangement depends on the focus.
PlacedIsCurrent ==
  up => placed = ArrangeWorkspace(handler.kind, ActiveData(handler), views)

\* A change touches the active data of the layout in use and nothing else that
\* any layout keeps; loading a file touches the layout the file names.
EditsStayLocal ==
  [][up /\ ~ Restart =>
       \A k \in Kinds, p \in Places :
         handler'.data[k][p] # handler.data[k][p] =>
           \/ edits' > edits /\ k = handler.kind /\ p = ActivePlace(handler, k)
           \/ \E slot \in Slots : /\ saved[slot] # Null
                                  /\ saved[slot].kind = k
                                  /\ saved[slot].data = handler'.data[k]]_vars
=============================================================================
