----------------------------- MODULE ModelProofs -----------------------------
(****************************************************************************)
(* The model is always consistent, for every value of the constants: its    *)
(* type, the focus that is unique, the match of contexts and outputs, and   *)
(* the places of the windows: each mapped one among the views or the icons  *)
(* of its workspace, in one place, and in the track of its layer.           *)
(* First comes what the methods of the workspace and of the model keep: a   *)
(* workspace of the right shape stays one, and a sound model stays sound,   *)
(* whatever method is called on it. K are the views that are known: those   *)
(* whose mp_workspace is not null.                                          *)
(****************************************************************************)
EXTENDS ModelSpec, CycleLemmas

----------------------------------------------------------------------------
(* The methods of a workspace.                                             *)

\* The cycles that hold nothing but views of K, whatever their history names.
CyclesOver(T, K) == {c \in Cycles(T) : Range(c.elements) \subseteq K}

\* Of a cycle of K the active element is one of K, or there is none.
LEMMA OverFacts ==
  ASSUME NEW T, NEW K, NEW c \in CyclesOver(T, K)
  PROVE  c \in Cycles(T) /\ ActiveElement(c) \in K \cup {Null}
<1>1. c \in Cycles(T) /\ Range(c.elements) \subseteq K BY DEF CyclesOver
<1> QED BY <1>1, ActiveOrNull

\* What a method of Cycle makes of a cycle of K is a cycle of K.
LEMMA OverClosed ==
  ASSUME NEW T, NEW K, K \subseteq T, NEW c \in CyclesOver(T, K), NEW e, NEW f, NEW d
  PROVE  /\ e \in K => InsertAtBack(c, e) \in CyclesOver(T, K)
         /\ RemoveElement(c, e) \in CyclesOver(T, K)
         /\ ActivateElement(c, e) \in CyclesOver(T, K)
         /\ SwapElements(c, e, f) \in CyclesOver(T, K)
         /\ CycleActive(c, d) \in CyclesOver(T, K)
         /\ DragActive(c, d) \in CyclesOver(T, K)
         /\ ReverseCycle(c) \in CyclesOver(T, K)
         /\ RotateCycle(c, d) \in CyclesOver(T, K)
<1>1. c \in Cycles(T) /\ Range(c.elements) \subseteq K BY DEF CyclesOver
<1>2. \A b \in Cycles(T) : Range(b.elements) \subseteq K => b \in CyclesOver(T, K) BY DEF CyclesOver
<1>3. \A b, M : Holds(b, T, M) /\ M \subseteq K => b \in CyclesOver(T, K) BY <1>2 DEF Holds
<1>4. e \in K => InsertAtBack(c, e) \in CyclesOver(T, K)
  <2> SUFFICES ASSUME e \in K PROVE InsertAtBack(c, e) \in CyclesOver(T, K) OBVIOUS
  <2>1. Holds(InsertAtBack(c, e), T, Range(c.elements) \cup {e}) BY <1>1, InsertHolds
  <2> QED BY <2>1, <1>1, <1>3
<1>5. RemoveElement(c, e) \in CyclesOver(T, K)
  <2>1. Range(c.elements) \ {e} \subseteq K BY <1>1
  <2> QED BY <1>1, <1>3, <2>1, RemoveHolds
<1>6. ActivateElement(c, e) \in CyclesOver(T, K) BY <1>1, <1>3, ElementHolds
<1>7. SwapElements(c, e, f) \in CyclesOver(T, K) BY <1>1, <1>3, SwapHolds
<1>8. CycleActive(c, d) \in CyclesOver(T, K) BY <1>1, <1>3, CycleHolds
<1>9. DragActive(c, d) \in CyclesOver(T, K) BY <1>1, <1>3, DragHolds
<1>10. ReverseCycle(c) \in CyclesOver(T, K) BY <1>1, <1>3, ReverseHolds
<1>11. RotateCycle(c, d) \in CyclesOver(T, K) BY <1>1, <1>3, RotateHolds
<1> QED BY <1>4, <1>5, <1>6, <1>7, <1>8, <1>9, <1>10, <1>11

\* The same for the activation of an index.
LEMMA OverAtIndex ==
  ASSUME NEW T, NEW K, NEW c \in CyclesOver(T, K), NEW i \in Nat
  PROVE  ActivateAtIndex(c, i) \in CyclesOver(T, K)
BY AtIndexHolds DEF CyclesOver, Holds

\* The same for a range turned.
LEMMA OverRange ==
  ASSUME NEW T, NEW K, NEW c \in CyclesOver(T, K), NEW d, NEW b \in Nat, NEW e \in Nat
  PROVE  RotateRange(c, d, b, e) \in CyclesOver(T, K)
BY RotateRangeHolds DEF CyclesOver, Holds

----------------------------------------------------------------------------
(* The methods of a workspace.                                             *)

Shaped(T, K) == WorkspaceRecords(CyclesOver(T, K), K)

\* activate_track and the like: a view of K may be the active one.
LEMMA ActivatedShape ==
  ASSUME NEW T, NEW K, K \subseteq T, NEW w \in Shaped(T, K), NEW v \in K \cup {Null}
  PROVE  Activated(w, v) \in Shaped(T, K)
<1>1. w.views \in CyclesOver(T, K) BY DEF Shaped, WorkspaceRecords
<1>2. ActivateElement(w.views, v) \in CyclesOver(T, K) BY <1>1, OverClosed
<1> DEFINE views == IF v # Null THEN ActivateElement(w.views, v) ELSE w.views
<1>3. views \in CyclesOver(T, K) BY <1>1, <1>2
<1>4. Activated(w, v) = [w EXCEPT !.active = v, !.views = views] BY DEF Activated
<1> HIDE DEF views
<1> QED BY <1>3, <1>4 DEF Shaped, WorkspaceRecords

\* activate_track (workspace.cc) keeps the shape.
LEMMA ActivateTrackShape ==
  ASSUME NEW T, NEW K, K \subseteq T, NEW w \in Shaped(T, K), NEW l \in TrackLayers
  PROVE  ActivateTrack(w, l) \in Shaped(T, K)
<1> DEFINE x == [w EXCEPT !.track = l, !.prevTrackLayer = w.trackLayer, !.trackLayer = l]
           a == ActiveElement(w.tracks[l])
<1>1. a \in K \cup {Null} BY OverFacts DEF Shaped, WorkspaceRecords
<1>2. x \in Shaped(T, K) BY DEF Shaped, WorkspaceRecords
<1>3. ActivateTrack(w, l) = Activated(x, a) BY DEF ActivateTrack
<1> HIDE DEF x, a
<1> QED BY <1>1, <1>2, <1>3, ActivatedShape

\* Of the tracks that are not empty one is the nearest.
LEMMA NextTrackLayerType ==
  ASSUME NEW w, w.trackLayer \in TrackLayers, NEW d
  PROVE  /\ NextTrackLayer(w, d) \in TrackLayers
         /\ FilledTracks(w) # {} => NextTrackLayer(w, d) \in FilledTracks(w)
<1> DEFINE F == FilledTracks(w)
           steps(l) == Steps(w.trackLayer, l, d)
           N == {steps(l) : l \in F}
<1>1. F \subseteq TrackLayers BY DEF FilledTracks
<1>2. CASE F = {} BY <1>2 DEF NextTrackLayer
<1>3. CASE F # {}
  <2>1. \A l \in TrackLayers : steps(l) \in Nat
    BY DEF TrackLayers, TILE, FREE, OVERLAY, LayerCount, Steps
  <2> HIDE DEF F, steps
  <2>2. N \subseteq Nat /\ N # {} BY <1>1, <1>3, <2>1
  <2>3. PICK x \in N : \A y \in N : x <= y
    <3> HIDE DEF N
    <3> QED BY <2>2, LeastNumber
  <2>4. PICK l \in F : x = steps(l) BY <2>3
  <2>5. \A k \in F : steps(l) <= steps(k) BY <2>3, <2>4
  <2>6. \E ll \in F : \A k \in F : steps(ll) <= steps(k) BY <2>5
  <2>7. (CHOOSE ll \in F : \A k \in F : steps(ll) <= steps(k)) \in F BY <2>6
  <2>8. NextTrackLayer(w, d) = CHOOSE ll \in F : \A k \in F : steps(ll) <= steps(k)
    BY <1>3 DEF NextTrackLayer, F, steps
  <2> QED BY <1>1, <2>7, <2>8 DEF F
<1> QED BY <1>2, <1>3 DEF F

\* cycle_track keeps the shape.
LEMMA CycleTrackShape ==
  ASSUME NEW T, NEW K, K \subseteq T, NEW w \in Shaped(T, K), NEW d
  PROVE  CycleTrack(w, d) \in Shaped(T, K)
<1> DEFINE l == NextTrackLayer(w, d)
           x == [w EXCEPT !.trackLayer = l]
<1>1. l \in TrackLayers BY NextTrackLayerType DEF Shaped, WorkspaceRecords
<1>2. CycleTrack(w, d) = ActivateTrack(x, l) BY DEF CycleTrack
<1> HIDE DEF l
<1>3. x \in Shaped(T, K) BY <1>1 DEF Shaped, WorkspaceRecords
<1> HIDE DEF x
<1> QED BY <1>1, <1>2, <1>3, ActivateTrackShape

\* add_view_to_track keeps the shape.
LEMMA AddViewToTrackShape ==
  ASSUME NEW T, NEW K, K \subseteq T, NEW w \in Shaped(T, K), NEW v \in K,
         NEW l \in TrackLayers, NEW shift
  PROVE  AddViewToTrack(w, v, l, shift) \in Shaped(T, K)
<1> DEFINE tracks == [w.tracks EXCEPT ![l] = InsertAtBack(@, v)]
           tl == IF shift \/ Size(tracks[w.trackLayer]) = 0 THEN l ELSE w.trackLayer
           a  == IF shift \/ l = tl THEN v ELSE w.active
<1>1. InsertAtBack(w.tracks[l], v) \in CyclesOver(T, K)
  BY OverClosed DEF Shaped, WorkspaceRecords
<1>2. tracks \in [TrackLayers -> CyclesOver(T, K)]
  BY <1>1 DEF Shaped, WorkspaceRecords
<1>3. tl \in TrackLayers BY DEF Shaped, WorkspaceRecords
<1>4. a \in K \cup {Null} BY DEF Shaped, WorkspaceRecords
<1>5. AddViewToTrack(w, v, l, shift)
        = IF Contains(w.tracks[l], v) THEN w
          ELSE [w EXCEPT !.tracks = tracks, !.trackLayer = tl, !.active = a]
  BY DEF AddViewToTrack
<1> HIDE DEF tracks, tl, a
<1> QED BY <1>2, <1>3, <1>4, <1>5 DEF Shaped, WorkspaceRecords

\* What follows a removal from a track keeps the shape.
LEMMA NextInTrackShape ==
  ASSUME NEW T, NEW K, K \subseteq T, NEW w \in Shaped(T, K), NEW l \in TrackLayers
  PROVE  NextInTrack(w, l) \in Shaped(T, K)
<1>1. ActiveElement(w.tracks[l]) \in K \cup {Null}
  BY OverFacts DEF Shaped, WorkspaceRecords
<1>2. Activated(w, ActiveElement(w.tracks[l])) \in Shaped(T, K) BY <1>1, ActivatedShape
<1>3. [w EXCEPT !.active = Null] \in Shaped(T, K) BY DEF Shaped, WorkspaceRecords
<1>4. CycleTrack([w EXCEPT !.active = Null], "Forward") \in Shaped(T, K)
  BY <1>3, CycleTrackShape
<1> QED BY <1>2, <1>4 DEF NextInTrack

\* remove_view_from_track keeps the shape.
LEMMA RemoveViewFromTrackShape ==
  ASSUME NEW T, NEW K, K \subseteq T, NEW w \in Shaped(T, K), NEW v, NEW l \in TrackLayers
  PROVE  RemoveViewFromTrack(w, v, l) \in Shaped(T, K)
<1> DEFINE x == [w EXCEPT !.tracks[l] = RemoveElement(@, v)]
<1>1. RemoveElement(w.tracks[l], v) \in CyclesOver(T, K)
  BY OverClosed DEF Shaped, WorkspaceRecords
<1>2. x \in Shaped(T, K) BY <1>1 DEF Shaped, WorkspaceRecords
<1>3. RemoveViewFromTrack(w, v, l) = NextInTrack(x, l) BY DEF RemoveViewFromTrack
<1> HIDE DEF x
<1> QED BY <1>2, <1>3, NextInTrackShape

\* change_view_track keeps the shape.
LEMMA ChangeViewTrackShape ==
  ASSUME NEW T, NEW K, K \subseteq T, NEW w \in Shaped(T, K), NEW v \in K,
         NEW from \in TrackLayers, NEW to \in TrackLayers, NEW shift
  PROVE  ChangeViewTrack(w, v, from, to, shift) \in Shaped(T, K)
<1>1. [w EXCEPT !.trackLayer = to, !.active = v] \in Shaped(T, K)
  BY DEF Shaped, WorkspaceRecords
<1>2. RemoveViewFromTrack(w, v, from) \in Shaped(T, K) BY RemoveViewFromTrackShape
<1>3. AddViewToTrack(RemoveViewFromTrack(w, v, from), v, to, shift) \in Shaped(T, K)
  BY <1>2, AddViewToTrackShape
<1> QED BY <1>1, <1>3 DEF ChangeViewTrack

\* The current track replaced, and what is active in it made active.
LEMMA RetrackedShape ==
  ASSUME NEW T, NEW K, K \subseteq T, NEW w \in Shaped(T, K), NEW c \in CyclesOver(T, K)
  PROVE  Activated([w EXCEPT !.tracks[w.track] = c], ActiveElement(c)) \in Shaped(T, K)
<1>1. [w EXCEPT !.tracks[w.track] = c] \in Shaped(T, K) BY DEF Shaped, WorkspaceRecords
<1> QED BY <1>1, OverFacts, ActivatedShape

\* The track mp_track points to is a cycle of K.
LEMMA CurrentTrackOver ==
  ASSUME NEW T, NEW K, NEW w \in Shaped(T, K)
  PROVE  CurrentTrack(w) \in CyclesOver(T, K)
BY DEF Shaped, WorkspaceRecords, CurrentTrack

\* cycle_focus_track keeps the shape.
LEMMA CycleFocusTrackShape ==
  ASSUME NEW T, NEW K, K \subseteq T, NEW w \in Shaped(T, K), NEW d
  PROVE  CycleFocusTrack(w, d) \in Shaped(T, K)
<1>1. CycleActive(CurrentTrack(w), d) \in CyclesOver(T, K) BY CurrentTrackOver, OverClosed
<1> QED BY <1>1, RetrackedShape DEF CycleFocusTrack

\* So does the entry into a track at one of its ends.
LEMMA EnterTrackShape ==
  ASSUME NEW T, NEW K, K \subseteq T, NEW w \in Shaped(T, K), NEW i \in Nat
  PROVE  EnterTrack(w, i) \in Shaped(T, K)
<1>1. ActivateAtIndex(CurrentTrack(w), i) \in CyclesOver(T, K)
  BY CurrentTrackOver, OverAtIndex
<1> QED BY <1>1, RetrackedShape DEF EnterTrack

\* cycle_focus keeps the shape.
LEMMA CycleFocusShape ==
  ASSUME NEW T, NEW K, K \subseteq T, NEW w \in Shaped(T, K), NEW d
  PROVE  CycleFocus(w, d) \in Shaped(T, K)
<1> DEFINE x == CycleTrack(w, d)
<1>1. x \in Shaped(T, K) BY CycleTrackShape
<1> HIDE DEF x
<1>2. CurrentTrack(x) \in Cycles(T) BY <1>1, CurrentTrackOver, OverFacts
<1>3. NearEnd(x, d) \in Nat BY <1>2 DEF NearEnd, LastIndex, Size, Cycles
<1>4. EnterNearEnd(x, d) \in Shaped(T, K) BY <1>1, <1>3, EnterTrackShape DEF EnterNearEnd
<1> QED BY <1>1, <1>4, CycleFocusTrackShape DEF CycleFocus, x

\* drag_focus_track keeps the shape.
LEMMA DragFocusTrackShape ==
  ASSUME NEW T, NEW K, K \subseteq T, NEW w \in Shaped(T, K), NEW d
  PROVE  DragFocusTrack(w, d) \in Shaped(T, K)
<1> DEFINE dragged == DragActive(CurrentTrack(w), d)
           view    == ActiveElement(dragged)
           passed  == dragged.elements[CurrentTrack(w).index + 1]
           x == [w EXCEPT !.tracks[w.track] = dragged, !.views = SwapElements(@, passed, view)]
<1>1. dragged \in CyclesOver(T, K) BY CurrentTrackOver, OverClosed
<1> HIDE DEF dragged
<1>2. view \in K \cup {Null} BY <1>1, OverFacts
<1> HIDE DEF view, passed
<1>3. SwapElements(w.views, passed, view) \in CyclesOver(T, K)
  BY OverClosed DEF Shaped, WorkspaceRecords
<1>4. x \in Shaped(T, K) BY <1>1, <1>3 DEF Shaped, WorkspaceRecords
<1>5. DragFocusTrack(w, d) = IF ~Layout(w).wraps /\ AtEnd(w, d) THEN w ELSE Activated(x, view)
  BY DEF DragFocusTrack, x, view, passed, dragged
<1> HIDE DEF x
<1> QED BY <1>2, <1>4, <1>5, ActivatedShape

\* m_views reordered, and what is active in it made active.
LEMMA ReorderedShape ==
  ASSUME NEW T, NEW K, NEW w \in Shaped(T, K), NEW c \in CyclesOver(T, K)
  PROVE  FromViews([w EXCEPT !.views = c]) \in Shaped(T, K)
<1>1. ActiveElement(c) \in K \cup {Null} BY OverFacts
<1>2. [w EXCEPT !.views = c] \in Shaped(T, K) BY DEF Shaped, WorkspaceRecords
<1>3. [w EXCEPT !.views = c].views = c BY DEF Shaped, WorkspaceRecords
<1> QED BY <1>1, <1>2, <1>3 DEF Shaped, WorkspaceRecords, FromViews

\* reverse, rotate, shuffle_main and shuffle_stack keep the shape.
LEMMA OrderShapes ==
  ASSUME NEW T, NEW K, K \subseteq T, NEW w \in Shaped(T, K), NEW d, NEW n \in Nat
  PROVE  /\ Reverse(w) \in Shaped(T, K) /\ Rotate(w, d) \in Shaped(T, K)
         /\ ShuffleMain(w, d, n) \in Shaped(T, K) /\ ShuffleStack(w, d, n) \in Shaped(T, K)
<1>1. w.views \in CyclesOver(T, K) BY DEF Shaped, WorkspaceRecords
<1>2. Size(w.views) \in Nat BY <1>1, OverFacts DEF Size, Cycles
<1>3. /\ ReverseCycle(w.views) \in CyclesOver(T, K)
      /\ RotateCycle(w.views, d) \in CyclesOver(T, K)
  BY <1>1, OverClosed
<1>4. /\ RotateRange(w.views, d, 0, n) \in CyclesOver(T, K)
      /\ RotateRange(w.views, d, n, Size(w.views)) \in CyclesOver(T, K)
  BY <1>1, <1>2, OverRange
<1> QED BY <1>3, <1>4, ReorderedShape DEF Reverse, Rotate, ShuffleMain, ShuffleStack

\* activate_view keeps the shape.
LEMMA ActivateViewShape ==
  ASSUME NEW T, NEW K, K \subseteq T, NEW w \in Shaped(T, K), NEW v \in K, NEW l \in TrackLayers
  PROVE  ActivateView(w, v, l) \in Shaped(T, K)
<1>1. /\ ActivateElement(w.views, v) \in CyclesOver(T, K)
      /\ ActivateElement(w.tracks[l], v) \in CyclesOver(T, K)
  BY OverClosed DEF Shaped, WorkspaceRecords
<1> QED BY <1>1 DEF ActivateView, Shaped, WorkspaceRecords

\* add_view keeps the shape.
LEMMA AddViewShape ==
  ASSUME NEW T, NEW K, K \subseteq T, NEW w \in Shaped(T, K), NEW v \in K, NEW l \in TrackLayers
  PROVE  AddView(w, v, l) \in Shaped(T, K)
<1>1. /\ InsertAtBack(w.views, v) \in CyclesOver(T, K)
      /\ InsertAtBack(w.tracks[l], v) \in CyclesOver(T, K)
  BY OverClosed DEF Shaped, WorkspaceRecords
<1> QED BY <1>1 DEF AddView, Shaped, WorkspaceRecords

\* remove_view keeps the shape.
LEMMA RemoveViewShape ==
  ASSUME NEW T, NEW K, K \subseteq T, NEW w \in Shaped(T, K), NEW v, NEW l \in TrackLayers
  PROVE  RemoveView(w, v, l) \in Shaped(T, K)
<1> DEFINE x == [w EXCEPT !.icons = RemoveElement(@, v), !.views = RemoveElement(@, v)]
<1>1. /\ RemoveElement(w.views, v) \in CyclesOver(T, K)
      /\ RemoveElement(w.icons, v) \in CyclesOver(T, K)
  BY OverClosed DEF Shaped, WorkspaceRecords
<1>2. x \in Shaped(T, K) BY <1>1 DEF Shaped, WorkspaceRecords
<1>3. RemoveView(w, v, l) = RemoveViewFromTrack(x, v, l) BY DEF RemoveView
<1> HIDE DEF x
<1> QED BY <1>2, <1>3, RemoveViewFromTrackShape

\* view_to_icon and icon_to_view keep the shape.
LEMMA IconShapes ==
  ASSUME NEW T, NEW K, K \subseteq T, NEW w \in Shaped(T, K), NEW v \in K, NEW l \in TrackLayers
  PROVE  ViewToIcon(w, v, l) \in Shaped(T, K) /\ IconToView(w, v, l) \in Shaped(T, K)
<1> DEFINE r == RemoveView(w, v, l)
           x == [w EXCEPT !.icons = RemoveElement(@, v)]
<1>1. r \in Shaped(T, K) BY RemoveViewShape
<1> HIDE DEF r
<1>2. InsertAtBack(r.icons, v) \in CyclesOver(T, K)
  BY <1>1, OverClosed DEF Shaped, WorkspaceRecords
<1>3. [r EXCEPT !.icons = InsertAtBack(@, v)] \in Shaped(T, K)
  BY <1>1, <1>2 DEF Shaped, WorkspaceRecords
<1>4. RemoveElement(w.icons, v) \in CyclesOver(T, K)
  BY OverClosed DEF Shaped, WorkspaceRecords
<1>5. x \in Shaped(T, K) BY <1>4 DEF Shaped, WorkspaceRecords
<1>6. AddView(x, v, l) \in Shaped(T, K)
  <2> HIDE DEF x
  <2> QED BY <1>5, AddViewShape
<1> QED BY <1>3, <1>6 DEF ViewToIcon, IconToView, r

\* pop_icon gives a view of K, if it gives one.
LEMMA PopIconType ==
  ASSUME NEW T, NEW K, NEW w \in Shaped(T, K)
  PROVE  PopIcon(w) \in K \cup {Null}
<1>1. w.icons \in Cycles(T) /\ Range(w.icons.elements) \subseteq K
  BY DEF Shaped, WorkspaceRecords, CyclesOver
<1>2. CASE Size(w.icons) = 0 BY <1>2 DEF PopIcon
<1>3. CASE Size(w.icons) # 0
  <2>1. Size(w.icons) \in DOMAIN w.icons.elements BY <1>1, <1>3 DEF Size, Cycles
  <2> QED BY <1>1, <1>3, <2>1 DEF PopIcon, Range
<1> QED BY <1>2, <1>3

\* set_layout and toggle_layout of the layout handler keep the shape.
LEMMA KindShapes ==
  ASSUME NEW T, NEW K, NEW w \in Shaped(T, K), NEW k \in DOMAIN LayoutKinds, NEW same
  PROVE  SetKind(w, k, same) \in Shaped(T, K) /\ SetPrevKind(w) \in Shaped(T, K)
<1>1. [w EXCEPT !.prevKind = w.kind, !.kind = k] \in Shaped(T, K)
  BY DEF Shaped, WorkspaceRecords
<1>2. [w EXCEPT !.kind = w.prevKind, !.prevKind = w.kind] \in Shaped(T, K)
  BY DEF Shaped, WorkspaceRecords
<1> QED BY <1>1, <1>2 DEF SetKind, SetPrevKind

\* A workspace begins with nothing in it.
LEMMA NewShape ==
  ASSUME NEW T, NEW K, NEW k \in DOMAIN LayoutKinds
  PROVE  NewWorkspace(k) \in Shaped(T, K)
<1> DEFINE nil == << >>
           e == EmptyCycle(TRUE)
           kinds == DOMAIN LayoutKinds
<1>1. nil \in Seq(T) /\ Range(nil) = {} BY DEF Range
<1>2. e = [elements |-> nil, index |-> 0, stack |-> nil, unwindable |-> TRUE] BY DEF EmptyCycle
<1> HIDE DEF nil, e
<1>3. e \in CyclesOver(T, K) BY <1>1, <1>2 DEF CyclesOver, Cycles
<1>4. FREE \in TrackLayers /\ TILE \in TrackLayers BY DEF TrackLayers
<1> QED BY <1>3, <1>4 DEF NewWorkspace, Shaped, WorkspaceRecords, e

Unmaps    == INSTANCE Folding WITH Op <- Unmap
Places    == INSTANCE Folding WITH Op <- PlaceView
Relayers  == INSTANCE Folding WITH Op <- RelayerView
LaysOut   == INSTANCE Folding WITH Op <- LayOutOutput
Pops      == INSTANCE Folding WITH Op <- PopAnother

----------------------------------------------------------------------------
(* Folds.                                                                  *)

\* A loop over views that unmaps each of them keeps what unmap keeps.
LEMMA UnmapFold ==
  ASSUME NEW G, NEW m \in G, NEW s, NEW n \in Nat, DOMAIN s = 1..n,
         \A x \in G, i \in 1..n : Unmap(x, s[i]) \in G
  PROVE  SE!FoldLeft(Unmap, m, s) \in G
<1>1. Unmaps!Folded(m, s) \in G BY Unmaps!FoldKeeps
<1>2. SE!FoldLeft(Unmap, m, s) = Unmaps!Folded(m, s)
  BY DEF Unmaps!Folded, SE!FoldLeft, Unmaps!FoldLeft, SE!MapThenFoldSet,
         Unmaps!MapThenFoldSet, SE!Max, Unmaps!Max
<1> QED BY <1>1, <1>2

\* The same for the loop of apply_layout over the placements.
LEMMA PlaceFold ==
  ASSUME NEW G, NEW m \in G, NEW s, NEW n \in Nat, DOMAIN s = 1..n,
         \A x \in G, i \in 1..n : PlaceView(x, s[i]) \in G
  PROVE  SE!FoldLeft(PlaceView, m, s) \in G
<1>1. Places!Folded(m, s) \in G BY Places!FoldKeeps
<1>2. SE!FoldLeft(PlaceView, m, s) = Places!Folded(m, s)
  BY DEF Places!Folded, SE!FoldLeft, Places!FoldLeft, SE!MapThenFoldSet,
         Places!MapThenFoldSet, SE!Max, Places!Max
<1> QED BY <1>1, <1>2

\* The same for the loop that puts the views of a workspace on their layers.
LEMMA RelayerFold ==
  ASSUME NEW G, NEW m \in G, NEW s, NEW n \in Nat, DOMAIN s = 1..n,
         \A x \in G, i \in 1..n : RelayerView(x, s[i]) \in G
  PROVE  SE!FoldLeft(RelayerView, m, s) \in G
<1>1. Relayers!Folded(m, s) \in G BY Relayers!FoldKeeps
<1>2. SE!FoldLeft(RelayerView, m, s) = Relayers!Folded(m, s)
  BY DEF Relayers!Folded, SE!FoldLeft, Relayers!FoldLeft, SE!MapThenFoldSet,
         Relayers!MapThenFoldSet, SE!Max, Relayers!Max
<1> QED BY <1>1, <1>2

\* The same for the loop of arrange_outputs over the outputs.
LEMMA LayOutFold ==
  ASSUME NEW G, NEW m \in G, NEW s, NEW n \in Nat, DOMAIN s = 1..n,
         \A x \in G, i \in 1..n : LayOutOutput(x, s[i]) \in G
  PROVE  SE!FoldLeft(LayOutOutput, m, s) \in G
<1>1. LaysOut!Folded(m, s) \in G BY LaysOut!FoldKeeps
<1>2. SE!FoldLeft(LayOutOutput, m, s) = LaysOut!Folded(m, s)
  BY DEF LaysOut!Folded, SE!FoldLeft, LaysOut!FoldLeft, SE!MapThenFoldSet,
         LaysOut!MapThenFoldSet, SE!Max, LaysOut!Max
<1> QED BY <1>1, <1>2

\* The same for the loop of deiconify_all.
LEMMA PopFold ==
  ASSUME NEW G, NEW m \in G, NEW s, NEW n \in Nat, DOMAIN s = 1..n,
         \A x \in G, i \in 1..n : PopAnother(x, s[i]) \in G
  PROVE  SE!FoldLeft(PopAnother, m, s) \in G
<1>1. Pops!Folded(m, s) \in G BY Pops!FoldKeeps
<1>2. SE!FoldLeft(PopAnother, m, s) = Pops!Folded(m, s)
  BY DEF Pops!Folded, SE!FoldLeft, Pops!FoldLeft, SE!MapThenFoldSet,
         Pops!MapThenFoldSet, SE!Max, Pops!Max
<1> QED BY <1>1, <1>2

----------------------------------------------------------------------------
(* Indices of workspaces and contexts.                                     *)

\* A null pointer points to no workspace, no context, no view and no output.
LEMMA NullFresh ==
  /\ Null \notin Workspaces /\ Null \notin Contexts /\ Null \notin Views /\ Null \notin Outputs
BY NullAssumption, CountsAssumption DEF Workspaces, Contexts

\* The context a workspace is in exists: the index of a workspace, divided by
\* the number of workspaces of a context.
LEMMA ContextOfType ==
  ASSUME NEW w \in Workspaces
  PROVE  ContextOf(w) \in Contexts
<1>1. w \in Nat /\ w < NContexts * NWorkspaces
  BY CountsAssumption DEF Workspaces
<1> DEFINE q == w \div NWorkspaces
<1>2. q \in Nat /\ q * NWorkspaces <= w BY <1>1, CountsAssumption
<1>3. q < NContexts
  <2>1. SUFFICES ASSUME q >= NContexts PROVE FALSE BY <1>2, CountsAssumption
  <2>2. q * NWorkspaces >= NContexts * NWorkspaces BY <1>2, <2>1, CountsAssumption
  <2>3. q * NWorkspaces \in Int /\ NContexts * NWorkspaces \in Int BY <1>2, CountsAssumption
  <2> QED BY <1>1, <1>2, <2>2, <2>3
<1> QED BY <1>2, <1>3, CountsAssumption DEF ContextOf, Contexts

\* The i-th workspace of a context exists and is in it.
LEMMA WorkspaceAtType ==
  ASSUME NEW c \in Contexts, NEW i \in 0..(NWorkspaces - 1)
  PROVE  WorkspaceAt(c, i) \in Workspaces /\ ContextOf(WorkspaceAt(c, i)) = c
<1>1. c \in Nat /\ c <= NContexts - 1 /\ NWorkspaces \in Nat /\ NWorkspaces > 0 /\ i \in Nat /\ i < NWorkspaces
  BY CountsAssumption DEF Contexts
<1>2. NWorkspaces * c \in Nat BY <1>1
<1>3. NWorkspaces * c <= NWorkspaces * (NContexts - 1) BY <1>1, CountsAssumption
<1>4. NWorkspaces * (NContexts - 1) = NContexts * NWorkspaces - NWorkspaces BY <1>1, CountsAssumption
<1>5. NWorkspaces * c + i < NContexts * NWorkspaces BY <1>1, <1>2, <1>3, <1>4, CountsAssumption
<1>6. (NWorkspaces * c + i) \div NWorkspaces = c BY <1>1, <1>2
<1> QED BY <1>1, <1>2, <1>5, <1>6, CountsAssumption DEF WorkspaceAt, Workspaces, ContextOf

----------------------------------------------------------------------------
(* A sound model, and what may change in it.                               *)

\* The same outputs, attached to the same contexts.
Wired(m, l) == /\ m.out = l.out /\ m.outputs = l.outputs /\ m.output = l.output
               /\ \A c \in Contexts : m.ctx[c].output = l.ctx[c].output

\* K are the views with a workspace; only they are mapped, or were.
KnownAre(m, K) == \A v \in Views : /\ v \in K <=> m.view[v].ws # Null
                                   /\ m.view[v].state # "gone" => v \in K
\* Only mp_focus is focused.
FocusedIs(m)   == \A v \in Views : m.view[v].focused => v = m.focus
\* The active workspace of a context is one of its own.
ContextsHome(m) == \A c \in Contexts : ContextOf(m.ctx[c].active) = c
\* The outputs of the model, and of a context, are attached.
OutputsLive(m) ==
  /\ m.output \in Range(m.outputs.elements) \cup {Null}
  /\ \A o \in Range(m.outputs.elements) : m.out[o] # Null
  /\ \A c \in Contexts : m.ctx[c].output # Null => m.out[m.ctx[c].output] # Null

\* The models in which the known views are K and the pointers are consistent,
\* whatever the place of a view: what every method keeps.
Sound(K) == {m \in ModelRecords(CyclesOver(Views, K), K) :
               KnownAre(m, K) /\ FocusedIs(m) /\ ContextsHome(m) /\ OutputsLive(m)}
\* Those wired as l is.
Fit(K, l) == {m \in Sound(K) : Wired(m, l)}

\* The parts of a sound model are what they should be.
LEMMA PartTypes ==
  ASSUME NEW K, NEW m \in Sound(K)
  PROVE  /\ \A w \in Workspaces : m.ws[w] \in Shaped(Views, K)
         /\ \A v \in Views : m.view[v] \in ViewRecords
         /\ m.workspace \in Workspaces /\ m.focus \in K \cup {Null}
BY DEF Sound, ModelRecords, Shaped

\* The same with the focus fixed: what laying out and relayering leave alone.
Still(K, l, f) == {m \in Fit(K, l) : m.focus = f}

\* A model that is still is sound.
LEMMA StillSound ==
  ASSUME NEW K, NEW l, NEW f, NEW m \in Still(K, l, f)
  PROVE  m \in Fit(K, l) /\ m \in Sound(K) /\ m.focus = f /\ f \in K \cup {Null}
BY PartTypes DEF Still, Fit

\* A workspace may be replaced by another of the right shape.
LEMMA SetWs ==
  ASSUME NEW K, NEW l, NEW f, NEW m \in Still(K, l, f), NEW w \in Workspaces,
         NEW x \in Shaped(Views, K)
  PROVE  [m EXCEPT !.ws[w] = x] \in Still(K, l, f)
<1> DEFINE n == [m EXCEPT !.ws[w] = x]
<1>1. m \in ModelRecords(CyclesOver(Views, K), K) BY DEF Still, Fit, Sound
<1>2. n \in ModelRecords(CyclesOver(Views, K), K) BY <1>1 DEF ModelRecords, Shaped
<1>3. /\ n.view = m.view /\ n.focus = m.focus /\ n.ctx = m.ctx /\ n.outputs = m.outputs
      /\ n.out = m.out /\ n.output = m.output
  BY <1>1 DEF ModelRecords
<1> HIDE DEF n
<1>4. n \in Still(K, l, f)
  BY <1>2, <1>3 DEF Still, Fit, Sound, KnownAre, FocusedIs, ContextsHome, OutputsLive, Wired
<1> QED BY <1>4 DEF n

\* A view may change as long as it points to the same workspace.
LEMMA SetView ==
  ASSUME NEW K, NEW l, NEW f, NEW m \in Still(K, l, f), NEW v \in Views, NEW r \in ViewRecords,
         r.ws = m.view[v].ws, r.state # "gone" => v \in K, r.focused => v = f
  PROVE  [m EXCEPT !.view[v] = r] \in Still(K, l, f)
<1> DEFINE n == [m EXCEPT !.view[v] = r]
<1>1. m \in ModelRecords(CyclesOver(Views, K), K) BY DEF Still, Fit, Sound
<1>2. n \in ModelRecords(CyclesOver(Views, K), K) BY <1>1 DEF ModelRecords
<1>3. /\ n.view = [m.view EXCEPT ![v] = r] /\ n.focus = m.focus /\ n.ctx = m.ctx
      /\ n.outputs = m.outputs /\ n.out = m.out /\ n.output = m.output
      /\ DOMAIN m.view = Views
  BY <1>1 DEF ModelRecords
<1> HIDE DEF n
<1>4. n \in Still(K, l, f)
  BY <1>2, <1>3 DEF Still, Fit, Sound, KnownAre, FocusedIs, ContextsHome, OutputsLive, Wired
<1> QED BY <1>4 DEF n

\* What is known of one view.
LEMMA ViewFacts ==
  ASSUME NEW K, NEW l, NEW f, NEW m \in Still(K, l, f), NEW v \in Views
  PROVE  /\ m.view[v] \in ViewRecords
         /\ m.view[v].focused => v = f
         /\ m.view[v].state # "gone" => v \in K
         /\ v \in K => m.view[v].ws \in Workspaces /\ m.view[v].layer \in TrackLayers
BY PartTypes, StillSound DEF Sound, FocusedIs, KnownAre, ViewRecords

\* r is o but for what says neither where it is nor that it has the focus.
Resembles(r, o) == /\ r \in ViewRecords /\ r.ws = o.ws /\ r.state = o.state
                   /\ r.focused => o.focused

\* A view may be replaced by one that resembles it.
LEMMA ResetView ==
  ASSUME NEW K, NEW l, NEW f, NEW m \in Still(K, l, f), NEW v \in Views, NEW r,
         Resembles(r, m.view[v])
  PROVE  [m EXCEPT !.view[v] = r] \in Still(K, l, f)
<1>1. /\ m.view[v].focused => v = f
      /\ m.view[v].state # "gone" => v \in K
  BY ViewFacts
<1> QED BY <1>1, SetView DEF Resembles

\* The changes of one field that resemble.
LEMMA FlagSet ==
  ASSUME NEW o \in ViewRecords, NEW b \in BOOLEAN
  PROVE  /\ Resembles([o EXCEPT !.mapped = b], o)
         /\ Resembles([o EXCEPT !.free = b], o)
         /\ Resembles([o EXCEPT !.floating = b], o)
         /\ Resembles([o EXCEPT !.fullscreen = b], o)
         /\ Resembles([o EXCEPT !.contained = b], o)
         /\ Resembles([o EXCEPT !.iconified = b], o)
         /\ Resembles([o EXCEPT !.managed = b], o)
BY DEF ViewRecords, Resembles

\* The other changes of one field that resemble.
LEMMA FieldSet ==
  ASSUME NEW o \in ViewRecords
  PROVE  /\ Resembles([o EXCEPT !.mapped = TRUE], o)
         /\ Resembles([o EXCEPT !.mapped = FALSE], o)
         /\ Resembles([o EXCEPT !.focused = FALSE], o)
         /\ \A k \in TrackLayers : Resembles([o EXCEPT !.layer = k], o)
BY DEF ViewRecords, Resembles

\* unfocus of a view keeps the model still.
LEMMA UnfocusStill ==
  ASSUME NEW K, K \subseteq Views, NEW l, NEW f, NEW m \in Still(K, l, f),
         NEW v \in Views \cup {Null}
  PROVE  Unfocus(m, v) \in Still(K, l, f)
<1>1. CASE v = Null BY <1>1 DEF Unfocus
<1>2. CASE v # Null
  <2> DEFINE r == [m.view[v] EXCEPT !.focused = FALSE]
  <2>1. v \in Views BY <1>2
  <2>2. Resembles(r, m.view[v])
    BY <2>1, ViewFacts, FieldSet 
  <2>3. Unfocus(m, v) = [m EXCEPT !.view[v] = r] BY <1>2 DEF Unfocus
  <2> HIDE DEF r
  <2> QED BY <2>1, <2>2, <2>3, ResetView
<1> QED BY <1>1, <1>2

\* map, unmap, and show or hide of a placement keep the model still.
LEMMA ShowStill ==
  ASSUME NEW K, K \subseteq Views, NEW l, NEW f, NEW m \in Still(K, l, f), NEW v \in Views,
         NEW shown
  PROVE  /\ Map(m, v) \in Still(K, l, f) /\ Unmap(m, v) \in Still(K, l, f)
         /\ Show(m, v, shown) \in Still(K, l, f)
<1> DEFINE r == [m.view[v] EXCEPT !.mapped = TRUE]
           u == Unfocus(m, v)
           s == [u.view[v] EXCEPT !.mapped = FALSE]
<1>1. Resembles(r, m.view[v])
  BY ViewFacts, FieldSet 
<1>2. Map(m, v) = [m EXCEPT !.view[v] = r] BY DEF Map
<1>3. u \in Still(K, l, f) BY UnfocusStill
<1>4. Unmap(m, v) = IF m.view[v].mapped THEN [u EXCEPT !.view[v] = s] ELSE m BY DEF Unmap
<1> HIDE DEF r, u
<1>5. Resembles(s, u.view[v])
  BY <1>3, ViewFacts, FieldSet 
<1> HIDE DEF s
<1>6. Map(m, v) \in Still(K, l, f) BY <1>1, <1>2, ResetView
<1>7. [u EXCEPT !.view[v] = s] \in Still(K, l, f) BY <1>3, <1>5, ResetView
<1> QED BY <1>4, <1>6, <1>7 DEF Show

\* move_view_to_track keeps the model still.
LEMMA MoveTrackStill ==
  ASSUME NEW K, K \subseteq Views, NEW l, NEW f, NEW m \in Still(K, l, f), NEW v \in K,
         NEW layer \in TrackLayers, NEW shift
  PROVE  MoveViewToTrack(m, v, layer, shift) \in Still(K, l, f)
<1> DEFINE w == m.view[v].ws
           x == ChangeViewTrack(m.ws[w], v, m.view[v].layer, layer, shift)
           n == [m EXCEPT !.ws[w] = x]
           r == [n.view[v] EXCEPT !.layer = layer]
<1>1. w \in Workspaces /\ m.view[v].layer \in TrackLayers BY ViewFacts
<1>2. m.ws[w] \in Shaped(Views, K) BY <1>1, StillSound, PartTypes
<1>3. x \in Shaped(Views, K) BY <1>1, <1>2, ChangeViewTrackShape
<1> HIDE DEF x, w
<1>4. n \in Still(K, l, f) BY <1>1, <1>3, SetWs
<1>5. [m EXCEPT !.ws[w] = x, !.view[v].layer = layer] = [n EXCEPT !.view[v] = r]
  OBVIOUS
<1>6. MoveViewToTrack(m, v, layer, shift) = [n EXCEPT !.view[v] = r]
  BY <1>5 DEF MoveViewToTrack, w, x
<1> HIDE DEF n
<1>7. Resembles(r, n.view[v])
  BY <1>4, ViewFacts, FieldSet 
<1> HIDE DEF r
<1> QED BY <1>4, <1>6, <1>7, ResetView

\* So does the activation of the track a view is in.
LEMMA ActivateTrackOfStill ==
  ASSUME NEW K, K \subseteq Views, NEW l, NEW f, NEW m \in Still(K, l, f), NEW v \in K
  PROVE  ActivateTrackOf(m, v) \in Still(K, l, f)
<1> DEFINE w == m.view[v].ws
           x == ActivateTrack(m.ws[w], m.view[v].layer)
<1>1. w \in Workspaces /\ m.view[v].layer \in TrackLayers BY ViewFacts
<1>2. m.ws[w] \in Shaped(Views, K) BY <1>1, StillSound, PartTypes
<1>3. x \in Shaped(Views, K) BY <1>1, <1>2, ActivateTrackShape
<1>4. ActivateTrackOf(m, v) = [m EXCEPT !.ws[w] = x] BY DEF ActivateTrackOf
<1> HIDE DEF x, w
<1> QED BY <1>1, <1>3, <1>4, SetWs

\* The placements arrange may make of known views.
PlacementsOf(K) ==
  [view : K, method : {"Free", "Tile", "Fullscreen"}, shown : BOOLEAN]

\* place_view keeps the model still: one turn of the loop of apply_layout.
LEMMA PlaceStill ==
  ASSUME NEW K, K \subseteq Views, NEW l, NEW f, NEW m \in Still(K, l, f),
         NEW p, p.view \in K, p.method \in {"Free", "Tile", "Fullscreen"}
  PROVE  PlaceView(m, p) \in Still(K, l, f)
<1> DEFINE v == p.view
           r == [m.view[v] EXCEPT !.free = PlacedFree(m, p)]
           n == [m EXCEPT !.view[v] = r]
           k == PlacedLayer[p.method]
<1>1. m.view[v] \in ViewRecords BY ViewFacts
<1>2. PlacedFree(m, p) \in BOOLEAN BY DEF PlacedFree
<1>3. Resembles(r, m.view[v])
  BY <1>1, <1>2, FlagSet 
<1> HIDE DEF r
<1>4. n \in Still(K, l, f) BY <1>3, ResetView
<1>5. PlaceView(m, p) = Show(MoveViewToTrack(n, v, k, FALSE), v, p.shown)
  BY DEF PlaceView, r
<1>6. k \in TrackLayers BY DEF PlacedLayer, TrackLayers
<1> HIDE DEF n, k
<1>7. MoveViewToTrack(n, v, k, FALSE) \in Still(K, l, f) BY <1>4, <1>6, MoveTrackStill
<1> QED BY <1>5, <1>7, ShowStill

\* So does one turn of the loop over the layers of the views.
LEMMA RelayerStill ==
  ASSUME NEW K, K \subseteq Views, NEW l, NEW f, NEW m \in Still(K, l, f), NEW v \in K
  PROVE  RelayerView(m, v) \in Still(K, l, f)
<1> DEFINE k == IF m.view[v].free THEN FREE ELSE IF m.view[v].fullscreen THEN OVERLAY ELSE TILE
<1>1. k \in TrackLayers BY DEF TrackLayers
<1> QED BY <1>1, MoveTrackStill DEF RelayerView

----------------------------------------------------------------------------
(* Layouts.                                                                *)

\* The elements of a cycle of K are a sequence of K.
LEMMA ElementsOver ==
  ASSUME NEW T, NEW K, NEW c \in CyclesOver(T, K)
  PROVE  c.elements \in Seq(K) /\ DOMAIN c.elements = 1..Len(c.elements)
<1>1. c.elements \in Seq(T) /\ Range(c.elements) \subseteq K BY DEF CyclesOver, Cycles
<1>2. /\ Len(c.elements) \in Nat /\ DOMAIN c.elements = 1..Len(c.elements)
      /\ \A i \in 1..Len(c.elements) : c.elements[i] \in K
  BY <1>1 DEF Range
<1> QED BY <1>1, <1>2

\* The views of a workspace are a sequence of K.
LEMMA ViewsOver ==
  ASSUME NEW K, NEW l, NEW f, NEW m \in Still(K, l, f), NEW w \in Workspaces
  PROVE  /\ m.ws[w] \in Shaped(Views, K)
         /\ m.ws[w].views \in CyclesOver(Views, K)
         /\ m.ws[w].views.elements \in Seq(K)
<1>1. m.ws[w] \in Shaped(Views, K) BY StillSound, PartTypes
<1>2. m.ws[w].views \in CyclesOver(Views, K) BY <1>1 DEF Shaped, WorkspaceRecords
<1> QED BY <1>1, <1>2, ElementsOver

\* arrange (workspace.cc) gives placements of known views.
LEMMA ArrangeFacts ==
  ASSUME NEW K, NEW l, NEW f, NEW m \in Still(K, l, f), NEW w \in Workspaces
  PROVE  Arrange(m, w) \in Seq(PlacementsOf(K))
<1> DEFINE views    == m.ws[w].views.elements
           layout   == Layout(m.ws[w])
           full     == {v \in Views : m.view[v].fullscreen /\ ~m.view[v].contained}
           floating == IF layout.free THEN {} ELSE {v \in Views \ full : m.view[v].floating}
           Chosen(S) == Kept(views, {i \in DOMAIN views : views[i] \in S})
           Place(method, S) ==
             [i \in DOMAIN Chosen(S) |->
               [view |-> Chosen(S)[i], method |-> method,
                shown |-> layout.single => m.view[Chosen(S)[i]].focused]]
<1>1. views \in Seq(K) BY ViewsOver
<1> HIDE DEF views, layout, full, floating
<1>2. ASSUME NEW a \in {"Free", "Tile", "Fullscreen"}, NEW S
      PROVE  Place(a, S) \in Seq(PlacementsOf(K))
  <2>1. Chosen(S) \in Seq(K) BY <1>1, KeptFacts
  <2> DEFINE c == Chosen(S)
  <2> HIDE DEF c
  <2>2. \A i \in 1..Len(c) : c[i] \in K BY <2>1 DEF c
  <2>3. DOMAIN c = 1..Len(c) /\ Len(c) \in Nat BY <2>1 DEF c
  <2> DEFINE t == [i \in DOMAIN c |-> [view |-> c[i], method |-> a,
                                       shown |-> layout.single => m.view[c[i]].focused]]
  <2>4. t \in Seq(PlacementsOf(K)) BY <2>2, <2>3 DEF PlacementsOf
  <2> QED BY <2>4 DEF c
<1>3. Arrange(m, w) = Place("Fullscreen", full) \o Place("Free", floating)
                      \o Place(IF layout.free THEN "Free" ELSE "Tile", Views \ (full \cup floating))
  BY DEF Arrange, views, layout, full, floating
<1> DEFINE a == Place("Fullscreen", full)
           b == Place("Free", floating)
           c == Place(IF layout.free THEN "Free" ELSE "Tile", Views \ (full \cup floating))
<1>4. a \in Seq(PlacementsOf(K)) /\ b \in Seq(PlacementsOf(K)) BY <1>2
<1>5. c \in Seq(PlacementsOf(K)) BY <1>2
<1>6. Arrange(m, w) = a \o b \o c BY <1>3
<1> HIDE DEF a, b, c, Place
<1> QED BY <1>4, <1>5, <1>6

\* apply_layout keeps the model still.
LEMMA ApplyLayoutStill ==
  ASSUME NEW K, K \subseteq Views, NEW l, NEW f, NEW m \in Still(K, l, f), NEW w \in Workspaces
  PROVE  ApplyLayout(m, w) \in Still(K, l, f)
<1> DEFINE s == Arrange(m, w)
<1>1. s \in Seq(PlacementsOf(K)) BY ArrangeFacts
<1> HIDE DEF s
<1>2. Len(s) \in Nat /\ DOMAIN s = 1..Len(s) BY <1>1
<1>3. \A x \in Still(K, l, f), i \in 1..Len(s) : PlaceView(x, s[i]) \in Still(K, l, f)
  <2> TAKE x \in Still(K, l, f), i \in 1..Len(s)
  <2>1. s[i] \in PlacementsOf(K) BY <1>1
  <2> QED BY <2>1, PlaceStill DEF PlacementsOf
<1>4. SE!FoldLeft(PlaceView, m, s) \in Still(K, l, f) BY <1>2, <1>3, PlaceFold
<1> QED BY <1>4 DEF ApplyLayout, s

\* So does hiding every view of a workspace.
LEMMA HideStill ==
  ASSUME NEW K, K \subseteq Views, NEW l, NEW f, NEW m \in Still(K, l, f), NEW w \in Workspaces
  PROVE  SE!FoldLeft(Unmap, m, m.ws[w].views.elements) \in Still(K, l, f)
<1> DEFINE s == m.ws[w].views.elements
<1>1. s \in Seq(K) BY ViewsOver
<1> HIDE DEF s
<1>2. Len(s) \in Nat /\ DOMAIN s = 1..Len(s) BY <1>1
<1>3. \A x \in Still(K, l, f), i \in 1..Len(s) : Unmap(x, s[i]) \in Still(K, l, f)
  <2> TAKE x \in Still(K, l, f), i \in 1..Len(s)
  <2>1. s[i] \in Views BY <1>1
  <2> QED BY <2>1, ShowStill
<1>4. SE!FoldLeft(Unmap, m, s) \in Still(K, l, f) BY <1>2, <1>3, UnmapFold
<1> QED BY <1>4 DEF s

\* So does what follows the focus after a layout.
LEMMA FollowFocusStill ==
  ASSUME NEW K, K \subseteq Views, NEW l, NEW f, NEW m \in Still(K, l, f)
  PROVE  FollowFocus(m) \in Still(K, l, f)
BY StillSound, ActivateTrackOfStill DEF FollowFocus

\* So does putting the views of a workspace on their layers.
LEMMA RelayerViewsStill ==
  ASSUME NEW K, K \subseteq Views, NEW l, NEW f, NEW m \in Still(K, l, f), NEW w \in Workspaces
  PROVE  RelayerViews(m, w) \in Still(K, l, f)
<1> DEFINE s == m.ws[w].views.elements
<1>1. s \in Seq(K) BY ViewsOver
<1> HIDE DEF s
<1>2. Len(s) \in Nat /\ DOMAIN s = 1..Len(s) BY <1>1
<1>3. \A x \in Still(K, l, f), i \in 1..Len(s) : RelayerView(x, s[i]) \in Still(K, l, f)
  <2> TAKE x \in Still(K, l, f), i \in 1..Len(s)
  <2>1. s[i] \in K BY <1>1
  <2> QED BY <2>1, RelayerStill
<1>4. SE!FoldLeft(RelayerView, m, s) \in Still(K, l, f) BY <1>2, <1>3, RelayerFold
<1> QED BY <1>4, FollowFocusStill DEF RelayerViews, s

\* The outputs attached show a workspace each.
LEMMA ShownWorkspace ==
  ASSUME NEW K, NEW l, NEW f, NEW m \in Still(K, l, f)
  PROVE  /\ \A o \in Range(m.outputs.elements) : m.ctx[m.out[o]].active \in Workspaces
         /\ \A c \in Contexts : m.ctx[c].active \in Workspaces
         /\ m.outputs \in Cycles(Outputs)
<1>1. /\ m \in ModelRecords(CyclesOver(Views, K), K) /\ OutputsLive(m)
  BY StillSound DEF Sound
<1>2. /\ m.ctx \in [Contexts -> ContextRecords] /\ m.out \in [Outputs -> Contexts \cup {Null}]
      /\ m.outputs \in Cycles(Outputs)
  BY <1>1 DEF ModelRecords
<1>3. Range(m.outputs.elements) \subseteq Outputs BY <1>2, RangeType
<1>4. \A o \in Range(m.outputs.elements) : m.out[o] \in Contexts
  BY <1>1, <1>2, <1>3 DEF OutputsLive
<1> QED BY <1>2, <1>4 DEF ContextRecords

\* So does the arrangement of every output.
LEMMA UpdateOutputsStill ==
  ASSUME NEW K, K \subseteq Views, NEW l, NEW f, NEW m \in Still(K, l, f)
  PROVE  UpdateOutputs(m) \in Still(K, l, f)
<1> DEFINE s == m.outputs.elements
<1>1. s \in Seq(Outputs) BY ShownWorkspace DEF Cycles
<1>2. Len(s) \in Nat /\ DOMAIN s = 1..Len(s) BY <1>1
<1>3. \A x \in Still(K, l, f), i \in 1..Len(s) : LayOutOutput(x, s[i]) \in Still(K, l, f)
  <2> TAKE x \in Still(K, l, f), i \in 1..Len(s)
  <2>1. x.outputs = m.outputs BY DEF Still, Fit, Wired
  <2>2. s[i] \in Range(x.outputs.elements) BY <2>1, <1>2 DEF Range
  <2>3. x.ctx[x.out[s[i]]].active \in Workspaces BY <2>2, ShownWorkspace
  <2> QED BY <2>3, ApplyLayoutStill DEF LayOutOutput
<1>4. SE!FoldLeft(LayOutOutput, m, s) \in Still(K, l, f)
  <2> HIDE DEF s
  <2> QED BY <1>2, <1>3, LayOutFold
<1> QED BY <1>4 DEF UpdateOutputs

----------------------------------------------------------------------------
(* The focus.                                                              *)

\* The current workspace may be replaced by one of the right shape.
LEMMA OnWorkspaceStill ==
  ASSUME NEW K, K \subseteq Views, NEW l, NEW f, NEW m \in Still(K, l, f), NEW x \in Shaped(Views, K)
  PROVE  OnWorkspace(m, x) \in Still(K, l, f)
<1>1. m.workspace \in Workspaces BY StillSound, PartTypes
<1> QED BY <1>1, SetWs DEF OnWorkspace

\* The current workspace is one, and has the right shape.
LEMMA CurrentShape ==
  ASSUME NEW K, NEW l, NEW f, NEW m \in Still(K, l, f)
  PROVE  m.workspace \in Workspaces /\ Current(m) \in Shaped(Views, K)
BY StillSound, PartTypes DEF Current

\* Laying out the current workspace keeps the model still.
LEMMA LaidOutStill ==
  ASSUME NEW K, K \subseteq Views, NEW l, NEW f, NEW m \in Still(K, l, f)
  PROVE  LaidOut(m) \in Still(K, l, f) /\ FitLayout(m) \in Still(K, l, f)
<1>1. m.workspace \in Workspaces BY CurrentShape
<1> QED BY <1>1, ApplyLayoutStill DEF LaidOut, FitLayout

\* So does making a known view the active one of its workspace.
LEMMA ActivateStill ==
  ASSUME NEW K, K \subseteq Views, NEW l, NEW f, NEW m \in Still(K, l, f), NEW v \in K
  PROVE  Activate(m, v) \in Still(K, l, f)
<1>1. Current(m) \in Shaped(Views, K) BY CurrentShape
<1>2. m.view[v].layer \in TrackLayers BY ViewFacts
<1>3. ActivateView(Current(m), v, m.view[v].layer) \in Shaped(Views, K)
  BY <1>1, <1>2, ActivateViewShape
<1> QED BY <1>3, OnWorkspaceStill DEF Activate

\* No view believes it has the focus.
Unfocused(m) == \A v \in Views : ~m.view[v].focused

\* After unfocus of mp_focus no view is focused.
LEMMA UnfocusFacts ==
  ASSUME NEW K, K \subseteq Views, NEW l, NEW f, NEW m \in Still(K, l, f)
  PROVE  Unfocus(m, m.focus) \in Still(K, l, f) /\ Unfocused(Unfocus(m, m.focus))
<1>1. /\ m.focus = f /\ f \in K \cup {Null}
      /\ \A v \in Views : m.view[v].focused => v = f
  BY StillSound, ViewFacts
<1>2. Unfocus(m, f) \in Still(K, l, f) BY <1>1, UnfocusStill
<1>3. /\ m \in ModelRecords(CyclesOver(Views, K), K)
  BY StillSound DEF Sound
<1>4. m.view \in [Views -> ViewRecords] BY <1>3 DEF ModelRecords
<1>5. CASE f = Null
  <2>1. Unfocus(m, f) = m BY <1>5 DEF Unfocus
  <2> QED BY <1>1, <1>2, <1>5, <2>1, NullFresh DEF Unfocused
<1>6. CASE f # Null
  <2>1. Unfocus(m, f) = [m EXCEPT !.view[f].focused = FALSE] BY <1>6 DEF Unfocus
  <2>2. Unfocus(m, f).view = [m.view EXCEPT ![f].focused = FALSE]
    BY <1>3, <2>1 DEF ModelRecords
  <2>3. ASSUME NEW v \in Views PROVE ~Unfocus(m, f).view[v].focused
    <3>1. m.view[v] \in ViewRecords BY <1>4
    <3> QED BY <1>1, <1>4, <2>2, <3>1 DEF ViewRecords
  <2> QED BY <1>1, <1>2, <2>3 DEF Unfocused
<1> QED BY <1>5, <1>6

\* With no view focused mp_focus may become any view that is known.
LEMMA MoveFocusStill ==
  ASSUME NEW K, K \subseteq Views, NEW l, NEW f, NEW m \in Still(K, l, f), Unfocused(m),
         NEW v \in K \cup {Null}, NEW a \in BOOLEAN
  PROVE  /\ [m EXCEPT !.focus = v] \in Still(K, l, v)
         /\ [m EXCEPT !.focus = v, !.astray = a] \in Still(K, l, v)
<1>1. m \in ModelRecords(CyclesOver(Views, K), K) BY DEF Still, Fit, Sound
<1>2. ASSUME NEW n, n = [m EXCEPT !.focus = v] \/ n = [m EXCEPT !.focus = v, !.astray = a]
      PROVE  n \in Still(K, l, v)
  <2>1. n \in ModelRecords(CyclesOver(Views, K), K) BY <1>1, <1>2, ZenonT(40) DEF ModelRecords
  <2>2. /\ n.view = m.view /\ n.focus = v /\ n.ctx = m.ctx /\ n.outputs = m.outputs
        /\ n.out = m.out /\ n.output = m.output
    BY <1>1, <1>2 DEF ModelRecords
  <2> QED BY <2>1, <2>2 DEF Unfocused, Still, Fit, Sound, KnownAre, FocusedIs, ContextsHome,
                            OutputsLive, Wired
<1> QED BY <1>2

\* focus_view passes the focus: the view it is given is mp_focus, and every
\* other is not focused.
LEMMA SwitchFocusStill ==
  ASSUME NEW K, K \subseteq Views, NEW l, NEW f, NEW m \in Still(K, l, f), NEW v \in K
  PROVE  SwitchFocus(m, v) \in Still(K, l, v)
<1> DEFINE u == Unfocus(m, m.focus)
           n == [u EXCEPT !.focus = v]
           r == [n.view[v] EXCEPT !.focused = TRUE]
<1>1. u \in Still(K, l, f) /\ Unfocused(u) BY UnfocusFacts
<1>2. SwitchFocus(m, v) = [u EXCEPT !.view[v].focused = TRUE, !.focus = v] BY DEF SwitchFocus
<1> HIDE DEF u
<1>3. n \in Still(K, l, v) BY <1>1, MoveFocusStill
<1>4. u \in ModelRecords(CyclesOver(Views, K), K) BY <1>1, StillSound DEF Sound
<1>5. SwitchFocus(m, v) = [n EXCEPT !.view[v] = r] BY <1>2, <1>4 DEF ModelRecords
<1> HIDE DEF n
<1>6. n.view[v] \in ViewRecords /\ (n.view[v].state # "gone" => v \in K)
  BY <1>3, ViewFacts
<1>7. r \in ViewRecords /\ r.ws = n.view[v].ws /\ r.state = n.view[v].state
  BY <1>6 DEF ViewRecords
<1> HIDE DEF r
<1> QED BY <1>3, <1>5, <1>6, <1>7, SetView

\* The same where focus_view lays out as well.
LEMMA GiveFocusStill ==
  ASSUME NEW K, K \subseteq Views, NEW l, NEW f, NEW m \in Still(K, l, f), NEW v \in K
  PROVE  GiveFocus(m, v) \in Still(K, l, v)
<1>1. Activate(m, v) \in Still(K, l, f) BY ActivateStill
<1>2. SwitchFocus(Activate(m, v), v) \in Still(K, l, v) BY <1>1, SwitchFocusStill
<1>3. FitLayout(SwitchFocus(Activate(m, v), v)) \in Still(K, l, v) BY <1>2, LaidOutStill
<1> QED BY <1>3, ActivateTrackOfStill DEF GiveFocus

\* Whether the recursion of focus_view is astray is for the checks alone.
LEMMA AstrayStill ==
  ASSUME NEW K, NEW l, NEW f, NEW m \in Still(K, l, f), NEW a \in BOOLEAN
  PROVE  [m EXCEPT !.focus = f, !.astray = a] \in Still(K, l, f)
<1> DEFINE n == [m EXCEPT !.focus = f, !.astray = a]
<1>1. m \in ModelRecords(CyclesOver(Views, K), K) /\ m.focus = f BY DEF Still, Fit, Sound
<1>2. n \in ModelRecords(CyclesOver(Views, K), K) BY <1>1 DEF ModelRecords
<1>3. /\ n.view = m.view /\ n.focus = m.focus /\ n.ctx = m.ctx /\ n.outputs = m.outputs
      /\ n.out = m.out /\ n.output = m.output
  BY <1>1 DEF ModelRecords
<1> HIDE DEF n
<1>4. n \in Still(K, l, f)
  BY <1>2, <1>3 DEF Still, Fit, Sound, KnownAre, FocusedIs, ContextsHome, OutputsLive, Wired
<1> QED BY <1>4 DEF n

\* sync_focus follows the active view of the current workspace.
LEMMA FollowActiveStill ==
  ASSUME NEW K, K \subseteq Views, NEW l, NEW f, NEW m \in Still(K, l, f), Unfocused(m),
         NEW v \in K
  PROVE  FollowActive(m, v) \in Still(K, l, v)
<1> DEFINE g == GiveFocus(m, v)
           a == g.astray \/ g.view[v].ws # m.workspace
           b == m.astray \/ m.view[v].ws # m.workspace
<1>1. g \in Still(K, l, v) BY GiveFocusStill
<1>2. FollowActive(m, v) = IF CanFocus(m, v)
                           THEN [g EXCEPT !.focus = v, !.astray = @ \/ m.view[v].ws # m.workspace]
                           ELSE [m EXCEPT !.focus = v, !.astray = b]
  BY DEF FollowActive
<1> HIDE DEF g
<1>3. (g.astray \/ m.view[v].ws # m.workspace) \in BOOLEAN /\ b \in BOOLEAN OBVIOUS
<1>4. [g EXCEPT !.focus = v, !.astray = @ \/ m.view[v].ws # m.workspace] \in Still(K, l, v)
  BY <1>1, <1>3, AstrayStill
<1>5. [m EXCEPT !.focus = v, !.astray = b] \in Still(K, l, v) BY <1>3, MoveFocusStill
<1> QED BY <1>2, <1>4, <1>5

\* Somebody's focus.
LEMMA FitStill ==
  ASSUME NEW K, NEW l, NEW m
  PROVE  /\ m \in Fit(K, l) => m \in Still(K, l, m.focus)
         /\ \A f : m \in Still(K, l, f) => m \in Fit(K, l)
BY DEF Still

\* sync_focus keeps the model sound.
LEMMA SyncFocusFit ==
  ASSUME NEW K, K \subseteq Views, NEW l, NEW m \in Fit(K, l)
  PROVE  SyncFocus(m) \in Fit(K, l)
<1> DEFINE u == Unfocus(m, m.focus)
           a == Current(m).active
<1>1. m \in Still(K, l, m.focus) BY FitStill
<1>2. u \in Still(K, l, m.focus) /\ Unfocused(u) BY <1>1, UnfocusFacts
<1>3. a \in K \cup {Null} BY <1>1, CurrentShape DEF Shaped, WorkspaceRecords
<1>4. SyncFocus(m) = IF a = m.focus THEN m ELSE IF a # Null THEN FollowActive(u, a)
                     ELSE IF Empty(m, m.workspace) THEN [u EXCEPT !.focus = Null] ELSE u
  BY DEF SyncFocus
<1> HIDE DEF u, a
<1>5. a \in K => FollowActive(u, a) \in Still(K, l, a) BY <1>2, FollowActiveStill
<1>6. [u EXCEPT !.focus = Null] \in Still(K, l, Null) BY <1>2, MoveFocusStill
<1> QED BY <1>1, <1>2, <1>3, <1>4, <1>5, <1>6, FitStill

\* The record after the switch of activate_workspace.
LEMMA SwitchedFit ==
  ASSUME NEW K, NEW l, NEW m \in Fit(K, l), NEW from \in Workspaces, NEW w \in Workspaces,
         NEW p \in Workspaces \cup {Null}
  PROVE  [m EXCEPT !.prevWorkspace = from, !.workspace = w, !.wsIndex = w,
                   !.ctx[ContextOf(w)].prev = p, !.ctx[ContextOf(w)].active = w] \in Fit(K, l)
<1> DEFINE c   == ContextOf(w)
           ctx == [m.ctx EXCEPT ![c].prev = p, ![c].active = w]
           n   == [m EXCEPT !.prevWorkspace = from, !.workspace = w, !.wsIndex = w, !.ctx = ctx]
<1>1. /\ m \in ModelRecords(CyclesOver(Views, K), K) /\ ContextsHome(m) /\ OutputsLive(m)
      /\ KnownAre(m, K) /\ FocusedIs(m) /\ Wired(m, l)
  BY DEF Fit, Sound
<1>2. c \in Contexts BY ContextOfType
<1>3. m.ctx \in [Contexts -> ContextRecords] BY <1>1 DEF ModelRecords
<1>4. ASSUME NEW d \in Contexts
      PROVE  /\ ctx[d] \in ContextRecords /\ ctx[d].output = m.ctx[d].output
             /\ ctx[d].active = IF d = c THEN w ELSE m.ctx[d].active
  <2>1. m.ctx[d] \in ContextRecords BY <1>3
  <2> QED BY <1>2, <1>3, <2>1 DEF ContextRecords
<1>5. DOMAIN ctx = Contexts BY <1>3
<1>6. ctx \in [Contexts -> ContextRecords]
  <2>1. ctx = [d \in Contexts |-> ctx[d]] BY <1>3
  <2> HIDE DEF ctx
  <2> QED BY <1>4, <2>1
<1>7. [m EXCEPT !.prevWorkspace = from, !.workspace = w, !.wsIndex = w,
                !.ctx[c].prev = p, !.ctx[c].active = w] = n
  <2> DEFINE x == [m EXCEPT !.prevWorkspace = from, !.workspace = w, !.wsIndex = w]
             y == [m.ctx EXCEPT ![c].prev = p]
  <2>1. [y EXCEPT ![c].active = w] = ctx OBVIOUS
  <2>2. x.ctx = m.ctx /\ DOMAIN x = DOMAIN m /\ "ctx" \in DOMAIN m BY <1>1 DEF ModelRecords
  <2>3. [x EXCEPT !.ctx[c].prev = p] = [x EXCEPT !.ctx = y] BY <2>2
  <2>4. [[x EXCEPT !.ctx = y] EXCEPT !.ctx[c].active = w] = [x EXCEPT !.ctx = ctx]
    <3> HIDE DEF x, y, ctx
    <3>1. [x EXCEPT !.ctx = y].ctx = y BY <2>2
    <3> QED BY <2>1, <3>1
  <2>5. [x EXCEPT !.ctx[c].prev = p, !.ctx[c].active = w] = [x EXCEPT !.ctx = ctx]
    BY <2>3, <2>4
  <2> QED BY <2>5
<1> HIDE DEF ctx
<1>8. n \in ModelRecords(CyclesOver(Views, K), K) BY <1>1, <1>6 DEF ModelRecords
<1>9. /\ n.view = m.view /\ n.focus = m.focus /\ n.ctx = ctx /\ n.outputs = m.outputs
      /\ n.out = m.out /\ n.output = m.output
  BY <1>1 DEF ModelRecords
<1>10. ContextsHome(n)
  <2> SUFFICES ASSUME NEW d \in Contexts PROVE ContextOf(ctx[d].active) = d
    BY <1>9 DEF ContextsHome
  <2>1. ContextOf(m.ctx[d].active) = d BY <1>1 DEF ContextsHome
  <2> QED BY <1>4, <2>1
<1> HIDE DEF n
<1>11. n \in Fit(K, l)
  BY <1>1, <1>4, <1>8, <1>9, <1>10 DEF Fit, Sound, KnownAre, FocusedIs, OutputsLive, Wired
<1> QED BY <1>7, <1>11

\* activate_workspace keeps the model sound: the workspace is in the context it
\* is made the active one of.
LEMMA ActivateWorkspaceFit ==
  ASSUME NEW K, K \subseteq Views, NEW l, NEW m \in Fit(K, l), NEW w \in Workspaces
  PROVE  ActivateWorkspace(m, w) \in Fit(K, l)
<1> DEFINE from == m.workspace
           hidden == IF ContextOf(w) = ContextOf(from)
                     THEN SE!FoldLeft(Unmap, m, m.ws[from].views.elements) ELSE m
           c == ContextOf(w)
           p == IF m.ctx[c].active # w THEN m.ctx[c].active ELSE hidden.ctx[c].prev
           switched == [hidden EXCEPT !.prevWorkspace = from, !.workspace = w, !.wsIndex = w,
                                      !.ctx[c].prev = p, !.ctx[c].active = w]
<1>1. m \in Still(K, l, m.focus) /\ from \in Workspaces BY FitStill, CurrentShape
<1>2. hidden \in Fit(K, l) BY <1>1, HideStill, FitStill
<1>3. c \in Contexts BY ContextOfType
<1>4. m.ctx[c].active \in Workspaces BY <1>1, <1>3, ShownWorkspace
<1> HIDE DEF hidden
<1>5. hidden.ctx[c] \in ContextRecords BY <1>2, <1>3 DEF Fit, Sound, ModelRecords
<1>6. p \in Workspaces \cup {Null} BY <1>4, <1>5 DEF ContextRecords
<1>7. ActivateWorkspace(m, w) = IF w = from THEN m ELSE SyncFocus(ApplyLayout(switched, w))
  BY DEF ActivateWorkspace, hidden
<1> HIDE DEF p
<1>8. switched \in Fit(K, l) BY <1>1, <1>2, <1>6, SwitchedFit
<1> HIDE DEF switched, from, c
<1>9. ApplyLayout(switched, w) \in Fit(K, l) BY <1>8, ApplyLayoutStill, FitStill
<1> QED BY <1>7, <1>9, SyncFocusFit

\* focus_view keeps the model sound, whatever view it is given.
LEMMA FocusViewFit ==
  ASSUME NEW K, K \subseteq Views, NEW l, NEW m \in Fit(K, l), NEW v \in Views \cup {Null}
  PROVE  FocusView(m, v) \in Fit(K, l)
<1>1. CASE ~CanFocus(m, v) BY <1>1 DEF FocusView
<1>2. CASE CanFocus(m, v)
  <2>1. v \in Views /\ m.view[v].ws # Null BY <1>2 DEF CanFocus
  <2>2. v \in K BY <2>1 DEF Fit, Sound, KnownAre
  <2>3. m.view[v].ws \in Workspaces BY <2>2, FitStill, ViewFacts
  <2>4. ActivateWorkspace(m, m.view[v].ws) \in Fit(K, l) BY <2>3, ActivateWorkspaceFit
  <2>5. GiveFocus(ActivateWorkspace(m, m.view[v].ws), v) \in Fit(K, l)
    BY <2>2, <2>4, GiveFocusStill, FitStill
  <2> QED BY <1>2, <2>5 DEF FocusView
<1> QED BY <1>1, <1>2

\* A failed assertion or a null pointer used changes nothing else.
LEMMA CrashedFit ==
  ASSUME NEW K, NEW l, NEW m \in Fit(K, l)
  PROVE  Crashed(m) \in Fit(K, l)
<1> DEFINE n == [m EXCEPT !.down = TRUE]
<1>1. m \in ModelRecords(CyclesOver(Views, K), K) BY DEF Fit, Sound
<1>2. n \in ModelRecords(CyclesOver(Views, K), K) BY <1>1 DEF ModelRecords
<1>3. /\ n.view = m.view /\ n.focus = m.focus /\ n.ctx = m.ctx /\ n.outputs = m.outputs
      /\ n.out = m.out /\ n.output = m.output
  BY <1>1 DEF ModelRecords
<1> HIDE DEF n
<1>4. n \in Fit(K, l)
  BY <1>2, <1>3 DEF Fit, Sound, KnownAre, FocusedIs, ContextsHome, OutputsLive, Wired
<1> QED BY <1>4 DEF n, Crashed

\* refocus keeps the model sound.
LEMMA RefocusFit ==
  ASSUME NEW K, K \subseteq Views, NEW l, NEW m \in Fit(K, l)
  PROVE  Refocus(m) \in Fit(K, l)
<1>1. ASSUME NEW n \in Fit(K, l) PROVE Refocused(n) \in Fit(K, l)
  <2> DEFINE f == n.focus
             a == Activate(n, f)
             r == [a.view[f] EXCEPT !.focused = TRUE]
  <2>1. n \in Still(K, l, f) /\ f \in K \cup {Null} BY FitStill, StillSound
  <2>2. CASE f = Null BY <2>2, CrashedFit DEF Refocused
  <2>3. CASE f # Null
    <3>1. a \in Still(K, l, f) /\ f \in K BY <2>1, <2>3, ActivateStill
    <3>2. Refocused(n) = FitLayout([a EXCEPT !.view[f] = r]) BY <2>3 DEF Refocused
    <3> HIDE DEF a, f
    <3>3. a.view[f] \in ViewRecords /\ (a.view[f].state # "gone" => f \in K)
      BY <3>1, ViewFacts
    <3>4. r \in ViewRecords /\ r.ws = a.view[f].ws /\ r.state = a.view[f].state
      BY <3>3 DEF ViewRecords
    <3> HIDE DEF r
    <3>5. [a EXCEPT !.view[f] = r] \in Still(K, l, f) BY <3>1, <3>3, <3>4, SetView
    <3> QED BY <3>2, <3>5, LaidOutStill, FitStill
  <2> QED BY <2>2, <2>3
<1>2. CASE m.focus # Null
  <2>1. m.focus \in K BY <1>2, FitStill, StillSound
  <2>2. m.view[m.focus].ws \in Workspaces BY <2>1, FitStill, ViewFacts
  <2>3. ActivateWorkspace(m, m.view[m.focus].ws) \in Fit(K, l) BY <2>2, ActivateWorkspaceFit
  <2> QED BY <1>1, <2>3 DEF Refocus
<1> QED BY <1>2 DEF Refocus

----------------------------------------------------------------------------
(* Commands.                                                               *)

\* What a command does to the current workspace, with what it calls after, keeps
\* the model sound.
LEMMA OnWorkspaceFit ==
  ASSUME NEW K, K \subseteq Views, NEW l, NEW m \in Fit(K, l), NEW x \in Shaped(Views, K)
  PROVE  /\ OnWorkspace(m, x) \in Fit(K, l) /\ SyncFocus(OnWorkspace(m, x)) \in Fit(K, l)
         /\ LaidOut(SyncFocus(OnWorkspace(m, x))) \in Fit(K, l)
         /\ LaidOut(OnWorkspace(m, x)) \in Fit(K, l)
<1>1. OnWorkspace(m, x) \in Fit(K, l) BY OnWorkspaceStill, FitStill
<1>2. SyncFocus(OnWorkspace(m, x)) \in Fit(K, l) BY <1>1, SyncFocusFit
<1> QED BY <1>1, <1>2, LaidOutStill, FitStill

\* So does a new layout with the layers of the views set.
LEMMA RelayerFit ==
  ASSUME NEW K, K \subseteq Views, NEW l, NEW m \in Fit(K, l), NEW w \in Workspaces
  PROVE  RelayerViews(m, w) \in Fit(K, l) /\ LaidOut(m) \in Fit(K, l)
         /\ ApplyLayout(m, w) \in Fit(K, l)
BY RelayerViewsStill, LaidOutStill, ApplyLayoutStill, FitStill

\* The current workspace of a sound model.
LEMMA CurrentFit ==
  ASSUME NEW K, NEW l, NEW m \in Fit(K, l)
  PROVE  m.workspace \in Workspaces /\ Current(m) \in Shaped(Views, K)
BY FitStill, CurrentShape

\* The commands that move the focus or reorder the views of the current
\* workspace keep the model sound.
LEMMA FocusCommandsFit ==
  ASSUME NEW K, K \subseteq Views, NEW l, NEW m \in Fit(K, l), NEW d, NEW n \in Nat
  PROVE  /\ CycleFocusCommand(m, d) \in Fit(K, l)
         /\ CycleFocusTrackCommand(m, d) \in Fit(K, l)
         /\ DragFocusTrackCommand(m, d) \in Fit(K, l)
         /\ CycleTrackCommand(m, d) \in Fit(K, l)
         /\ ReverseViews(m) \in Fit(K, l)
         /\ RotateViews(m, d) \in Fit(K, l)
         /\ ShuffleMainCommand(m, d, n) \in Fit(K, l)
         /\ ShuffleStackCommand(m, d, n) \in Fit(K, l)
<1> DEFINE w == Current(m)
<1>1. w \in Shaped(Views, K) BY CurrentFit
<1>2. CycleFocus(w, d) \in Shaped(Views, K) BY <1>1, CycleFocusShape
<1>3. CycleFocusTrack(w, d) \in Shaped(Views, K) BY <1>1, CycleFocusTrackShape
<1>4. DragFocusTrack(w, d) \in Shaped(Views, K) BY <1>1, DragFocusTrackShape
<1>5. CycleTrack(w, d) \in Shaped(Views, K) BY <1>1, CycleTrackShape
<1>6. /\ Reverse(w) \in Shaped(Views, K) /\ Rotate(w, d) \in Shaped(Views, K)
      /\ ShuffleMain(w, d, n) \in Shaped(Views, K) /\ ShuffleStack(w, d, n) \in Shaped(Views, K)
  BY <1>1, OrderShapes
<1>7. CycleFocusCommand(m, d) \in Fit(K, l) BY <1>2, OnWorkspaceFit DEF CycleFocusCommand
<1>8. CycleFocusTrackCommand(m, d) \in Fit(K, l)
  BY <1>3, OnWorkspaceFit DEF CycleFocusTrackCommand
<1>9. DragFocusTrackCommand(m, d) \in Fit(K, l)
  BY <1>4, OnWorkspaceFit DEF DragFocusTrackCommand
<1>10. CycleTrackCommand(m, d) \in Fit(K, l) BY <1>5, OnWorkspaceFit DEF CycleTrackCommand
<1>11. ReverseViews(m) \in Fit(K, l) BY <1>6, OnWorkspaceFit DEF ReverseViews
<1>12. RotateViews(m, d) \in Fit(K, l) BY <1>6, OnWorkspaceFit DEF RotateViews
<1>13. ShuffleMainCommand(m, d, n) \in Fit(K, l) BY <1>6, OnWorkspaceFit DEF ShuffleMainCommand
<1>14. ShuffleStackCommand(m, d, n) \in Fit(K, l)
  BY <1>6, OnWorkspaceFit DEF ShuffleStackCommand
<1> QED BY <1>7, <1>8, <1>9, <1>10, <1>11, <1>12, <1>13, <1>14

\* So does the choice of a track.
LEMMA ActivateTrackCommandFit ==
  ASSUME NEW K, K \subseteq Views, NEW l, NEW m \in Fit(K, l), NEW layer \in TrackLayers
  PROVE  ActivateTrackCommand(m, layer) \in Fit(K, l)
<1>1. ActivateTrack(Current(m), layer) \in Shaped(Views, K) BY CurrentFit, ActivateTrackShape
<1> QED BY <1>1, OnWorkspaceFit DEF ActivateTrackCommand

\* So do the commands that choose a layout.
LEMMA LayoutCommandsFit ==
  ASSUME NEW K, K \subseteq Views, NEW l, NEW m \in Fit(K, l), NEW k \in DOMAIN LayoutKinds,
         NEW same
  PROVE  /\ SetLayout(m, k, same) \in Fit(K, l) /\ ToggleLayout(m) \in Fit(K, l)
         /\ SetLayoutRetainRegion(m, k, same) \in Fit(K, l)
<1> DEFINE x == SetKind(Current(m), k, same)
           y == SetPrevKind(Current(m))
<1>1. m.workspace \in Workspaces BY CurrentFit
<1>2. x \in Shaped(Views, K) /\ y \in Shaped(Views, K) BY CurrentFit, KindShapes
<1> HIDE DEF x, y
<1>3. /\ LaidOut(OnWorkspace(m, x)) \in Fit(K, l) /\ LaidOut(OnWorkspace(m, y)) \in Fit(K, l)
      /\ OnWorkspace(m, x) \in Fit(K, l)
  BY <1>2, OnWorkspaceFit
<1>4. /\ RelayerViews(LaidOut(OnWorkspace(m, x)), m.workspace) \in Fit(K, l)
      /\ RelayerViews(LaidOut(OnWorkspace(m, y)), m.workspace) \in Fit(K, l)
  BY <1>1, <1>3, RelayerFit
<1>5. RelayerViews(OnWorkspace(m, x), m.workspace) \in Fit(K, l) BY <1>1, <1>3, RelayerFit
<1>6. LaidOut(RelayerViews(OnWorkspace(m, x), m.workspace)) \in Fit(K, l)
  BY <1>1, <1>5, RelayerFit
<1> QED BY <1>4, <1>6 DEF SetLayout, ToggleLayout, SetLayoutRetainRegion, x, y

----------------------------------------------------------------------------
(* Commands on one view.                                                   *)

\* A known view of a sound model.
LEMMA KnownFit ==
  ASSUME NEW K, K \subseteq Views, NEW l, NEW m \in Fit(K, l), NEW v \in K
  PROVE  /\ m.view[v].ws \in Workspaces /\ m.view[v].layer \in TrackLayers
         /\ m.view[v] \in ViewRecords
BY FitStill, ViewFacts

\* A workspace replaced, in a sound model.
LEMMA SetWsFit ==
  ASSUME NEW K, NEW l, NEW m \in Fit(K, l), NEW w \in Workspaces, NEW x \in Shaped(Views, K)
  PROVE  [m EXCEPT !.ws[w] = x] \in Fit(K, l)
BY SetWs, FitStill

\* A view replaced, in a sound model.
LEMMA ResetViewFit ==
  ASSUME NEW K, NEW l, NEW m \in Fit(K, l), NEW v \in Views, NEW r, Resembles(r, m.view[v])
  PROVE  [m EXCEPT !.view[v] = r] \in Fit(K, l)
BY ResetView, FitStill

\* A workspace of a sound model.
LEMMA WsFit ==
  ASSUME NEW K, NEW l, NEW m \in Fit(K, l), NEW w \in Workspaces
  PROVE  m.ws[w] \in Shaped(Views, K)
BY FitStill, ViewsOver

\* The first half of move_view_to_workspace, which takes the view out of its
\* workspace.
LEMMA LeaveFit ==
  ASSUME NEW K, K \subseteq Views, NEW l, NEW m \in Fit(K, l), NEW v \in K,
         NEW w \in Workspaces \cup {Null}
  PROVE  LeaveWorkspace(m, v, w) \in Fit(K, l)
<1>1. CASE w = Null BY <1>1 DEF LeaveWorkspace
<1>2. CASE w # Null
  <2> DEFINE x == RemoveView(m.ws[w], v, m.view[v].layer)
  <2>1. x \in Shaped(Views, K) BY <1>2, WsFit, KnownFit, RemoveViewShape
  <2>2. LeaveWorkspace(m, v, w) = ApplyLayout([m EXCEPT !.ws[w] = x], w)
    BY <1>2 DEF LeaveWorkspace
  <2> HIDE DEF x
  <2>3. [m EXCEPT !.ws[w] = x] \in Fit(K, l) BY <1>2, <2>1, SetWsFit
  <2> QED BY <1>2, <2>2, <2>3, RelayerFit
<1> QED BY <1>1, <1>2

\* The second half, which puts it into the other one.
LEMMA JoinFit ==
  ASSUME NEW K, K \subseteq Views, NEW l, NEW m \in Fit(K, l), NEW v \in K, NEW w \in Workspaces
  PROVE  JoinWorkspace(m, v, w) \in Fit(K, l)
<1> DEFINE x == AddView(m.ws[w], v, m.view[v].layer)
<1>1. x \in Shaped(Views, K) BY WsFit, KnownFit, AddViewShape
<1>2. JoinWorkspace(m, v, w) = ApplyLayout([m EXCEPT !.ws[w] = x], w) BY DEF JoinWorkspace
<1> HIDE DEF x
<1>3. [m EXCEPT !.ws[w] = x] \in Fit(K, l) BY <1>1, SetWsFit
<1> QED BY <1>2, <1>3, RelayerFit

\* A view sent from one workspace to another. What is asked of m is asked of
\* it with the view's pointer already changed: a new view points nowhere.
LEMMA MoveToWorkspaceFit ==
  ASSUME NEW K, K \subseteq Views, NEW l, NEW m, NEW v \in K, NEW to \in Workspaces,
         [m EXCEPT !.view[v].ws = to] \in Fit(K, l),
         m.view[v].ws \in Workspaces \cup {Null}, m.view[v].ws = to => m \in Fit(K, l)
  PROVE  MoveViewToWorkspace(m, v, to) \in Fit(K, l)
<1> DEFINE moved == [m EXCEPT !.view[v].ws = to]
           left == LeaveWorkspace(moved, v, m.view[v].ws)
           joined == JoinWorkspace(left, v, to)
           shown == ShowIfVisible(joined, v)
<1>1. moved \in Fit(K, l) OBVIOUS
<1>2. MoveViewToWorkspace(m, v, to) = IF to = m.view[v].ws THEN m ELSE SyncFocus(shown)
  BY DEF MoveViewToWorkspace
<1> HIDE DEF moved
<1>3. left \in Fit(K, l) BY <1>1, LeaveFit
<1> HIDE DEF left
<1>4. joined \in Fit(K, l) BY <1>3, JoinFit
<1> HIDE DEF joined
<1>5. shown \in Fit(K, l) BY <1>4, ShowStill, FitStill DEF ShowIfVisible
<1> HIDE DEF shown
<1> QED BY <1>2, <1>5, SyncFocusFit

\* set_floating keeps the model sound.
LEMMA SetFloatingFit ==
  ASSUME NEW K, K \subseteq Views, NEW l, NEW m \in Fit(K, l), NEW v \in K, NEW b \in BOOLEAN
  PROVE  SetFloating(m, v, b) \in Fit(K, l)
<1> DEFINE o == m.view[v]
           k == IF o.floating = b \/ o.free # b THEN o.layer ELSE IF b THEN FREE ELSE TILE
           r == [o EXCEPT !.floating = b, !.layer = k]
           t == [m EXCEPT !.view[v] = r]
           a == ApplyLayout(t, o.ws)
<1>1. o \in ViewRecords /\ o.ws \in Workspaces /\ o.layer \in TrackLayers BY KnownFit
<1>2. k \in TrackLayers BY <1>1 DEF TrackLayers
<1>3. Tile(m, v, b) = [m EXCEPT !.view[v].floating = b, !.view[v].layer = k]
  BY DEF Tile
<1>4. v \in DOMAIN m.view /\ "view" \in DOMAIN m BY DEF Fit, Sound, ModelRecords
<1>5. Tile(m, v, b) = t BY <1>3, <1>4
<1> HIDE DEF k
<1>6. Resembles(r, o) BY <1>1, <1>2 DEF Resembles, ViewRecords
<1>7. t.view[v].ws = o.ws BY <1>4, <1>6 DEF Resembles
<1>8. t \in Fit(K, l) BY <1>6, ResetViewFit
<1> HIDE DEF t, o
<1>9. a \in Fit(K, l) BY <1>1, <1>8, RelayerFit
<1>10. SetFloating(m, v, b) = FollowIfFocus(a, v) BY <1>5 DEF SetFloating, o
<1> HIDE DEF a
<1> QED BY <1>9, <1>10, ActivateTrackOfStill, FitStill DEF FollowIfFocus

----------------------------------------------------------------------------
(* Windows.                                                                *)

\* set_fullscreen keeps the model sound.
LEMMA SetFullscreenFit ==
  ASSUME NEW K, K \subseteq Views, NEW l, NEW m \in Fit(K, l), NEW v \in K, NEW b \in BOOLEAN
  PROVE  SetFullscreen(m, v, b) \in Fit(K, l)
<1> DEFINE o == m.view[v]
           k == IF b THEN OVERLAY ELSE IF o.free THEN FREE ELSE TILE
           r == [o EXCEPT !.fullscreen = b]
           s == [m EXCEPT !.view[v] = r]
           t == IF b /\ o.contained THEN s ELSE MoveViewToTrack(s, v, k, FALSE)
           u == ActivateTrackIfFocus(t, v, k)
<1>1. o \in ViewRecords /\ o.ws \in Workspaces BY KnownFit
<1>2. k \in TrackLayers BY DEF TrackLayers
<1>3. Resembles(r, o) BY <1>1, FlagSet
<1>4. s \in Fit(K, l) BY <1>3, ResetViewFit
<1>5. SetFullscreen(m, v, b) = IF o.fullscreen = b THEN m ELSE ApplyLayout(u, o.ws)
  BY DEF SetFullscreen
<1> HIDE DEF s, k, o
<1>6. t \in Fit(K, l) BY <1>2, <1>4, MoveTrackStill, FitStill
<1> HIDE DEF t
<1>7. u \in Fit(K, l) BY <1>2, <1>6, ActivateTrackCommandFit DEF ActivateTrackIfFocus
<1> HIDE DEF u
<1> QED BY <1>1, <1>5, <1>7, RelayerFit

\* set_contained keeps the model sound.
LEMMA SetContainedFit ==
  ASSUME NEW K, K \subseteq Views, NEW l, NEW m \in Fit(K, l), NEW v \in K, NEW b \in BOOLEAN
  PROVE  SetContained(m, v, b) \in Fit(K, l)
<1> DEFINE o == m.view[v]
           r == [o EXCEPT !.contained = b]
           s == [m EXCEPT !.view[v] = r]
<1>1. o \in ViewRecords /\ o.ws \in Workspaces BY KnownFit
<1>2. Resembles(r, o) BY <1>1, FlagSet
<1>3. s \in Fit(K, l) BY <1>2, ResetViewFit
<1>4. SetContained(m, v, b) = ApplyLayout(s, o.ws) BY DEF SetContained
<1> HIDE DEF s, o
<1> QED BY <1>1, <1>3, <1>4, RelayerFit

\* set_iconify keeps the model sound.
LEMMA SetIconifyFit ==
  ASSUME NEW K, K \subseteq Views, NEW l, NEW m \in Fit(K, l), NEW v \in K, NEW b \in BOOLEAN
  PROVE  SetIconify(m, v, b) \in Fit(K, l)
<1> DEFINE o == m.view[v]
           x == IF b THEN ViewToIcon(m.ws[o.ws], v, o.layer) ELSE IconToView(m.ws[o.ws], v, o.layer)
           s == [m EXCEPT !.ws[o.ws] = x]
           r == [s.view[v] EXCEPT !.iconified = b]
           t == [s EXCEPT !.view[v] = r]
           u == IF b THEN Unmap(t, v) ELSE t
<1>1. o.ws \in Workspaces /\ o.layer \in TrackLayers BY KnownFit
<1>2. m.ws[o.ws] \in Shaped(Views, K) BY <1>1, WsFit
<1>3. x \in Shaped(Views, K) BY <1>1, <1>2, IconShapes
<1>4. [m EXCEPT !.ws[o.ws] = IF b THEN ViewToIcon(@, v, o.layer) ELSE IconToView(@, v, o.layer),
                !.view[v].iconified = b] = t
  OBVIOUS
<1>5. SetIconify(m, v, b) = IF o.iconified = b THEN m ELSE SyncFocus(ApplyLayout(u, o.ws))
  BY <1>4 DEF SetIconify
<1> HIDE DEF x, o
<1>6. s \in Fit(K, l) BY <1>1, <1>3, SetWsFit
<1> HIDE DEF s
<1>7. Resembles(r, s.view[v]) BY <1>6, KnownFit, FlagSet
<1> HIDE DEF r
<1>8. t \in Fit(K, l) BY <1>6, <1>7, ResetViewFit
<1> HIDE DEF t
<1>9. u \in Fit(K, l) BY <1>8, ShowStill, FitStill
<1> HIDE DEF u
<1>10. ApplyLayout(u, o.ws) \in Fit(K, l) BY <1>1, <1>9, RelayerFit
<1> QED BY <1>5, <1>10, SyncFocusFit

\* pop_deiconify keeps the model sound.
LEMMA PopFit ==
  ASSUME NEW K, K \subseteq Views, NEW l, NEW m \in Fit(K, l)
  PROVE  PopDeiconify(m) \in Fit(K, l)
<1>1. PopIcon(Current(m)) \in K \cup {Null} BY CurrentFit, PopIconType
<1> QED BY <1>1, SetIconifyFit DEF PopDeiconify

\* deiconify_all keeps the model sound.
LEMMA DeiconifyAllFit ==
  ASSUME NEW K, K \subseteq Views, NEW l, NEW m \in Fit(K, l)
  PROVE  DeiconifyAll(m) \in Fit(K, l)
<1> DEFINE s == Current(m).icons.elements
<1>1. Current(m).icons \in CyclesOver(Views, K) BY CurrentFit DEF Shaped, WorkspaceRecords
<1>2. s \in Seq(K) /\ DOMAIN s = 1..Len(s) BY <1>1, ElementsOver
<1> HIDE DEF s
<1>3. Len(s) \in Nat BY <1>2
<1>4. \A x \in Fit(K, l), i \in 1..Len(s) : PopAnother(x, s[i]) \in Fit(K, l)
  BY PopFit DEF PopAnother
<1>5. SE!FoldLeft(PopAnother, m, s) \in Fit(K, l) BY <1>2, <1>3, <1>4, PopFold
<1> QED BY <1>5 DEF DeiconifyAll, s

\* Nudging a view, which makes it float, keeps the model sound.
LEMMA NudgeFit ==
  ASSUME NEW K, K \subseteq Views, NEW l, NEW m \in Fit(K, l), NEW v \in K
  PROVE  NudgeView(m, v) \in Fit(K, l)
<1> DEFINE p == [view |-> v, method |-> "Free", shown |-> TRUE]
<1>1. p.view \in K /\ p.method \in {"Free", "Tile", "Fullscreen"} OBVIOUS
<1>2. NudgeView(m, v) = IF m.view[v].free THEN PlaceView(m, p) ELSE m BY DEF NudgeView
<1> HIDE DEF p
<1> QED BY <1>1, <1>2, PlaceStill, FitStill

\* Jumping to a view and back keeps the model sound.
LEMMA JumpFit ==
  ASSUME NEW K, K \subseteq Views, NEW l, NEW m \in Fit(K, l), NEW v \in Views
  PROVE  JumpView(m, v) \in Fit(K, l)
<1> DEFINE target == IF v = m.focus /\ m.jumpedFrom # Null THEN m.jumpedFrom ELSE v
           j == IF m.focus # Null THEN m.focus ELSE m.jumpedFrom
           n == [m EXCEPT !.jumpedFrom = j]
<1>1. m \in ModelRecords(CyclesOver(Views, K), K) BY DEF Fit, Sound
<1>2. target \in Views /\ j \in Views \cup {Null} BY <1>1 DEF ModelRecords
<1>3. n \in ModelRecords(CyclesOver(Views, K), K) BY <1>1, <1>2 DEF ModelRecords
<1>4. /\ n.view = m.view /\ n.focus = m.focus /\ n.ctx = m.ctx /\ n.outputs = m.outputs
      /\ n.out = m.out /\ n.output = m.output
  BY <1>1 DEF ModelRecords
<1>5. JumpView(m, v) = IF m.view[target].state = "gone" THEN Crashed(m) ELSE FocusView(n, target)
  BY DEF JumpView
<1> HIDE DEF n, target, j
<1>6. n \in Fit(K, l)
  BY <1>3, <1>4 DEF Fit, Sound, KnownAre, FocusedIs, ContextsHome, OutputsLive, Wired
<1>7. FocusView(n, target) \in Fit(K, l) BY <1>2, <1>6, FocusViewFit
<1> QED BY <1>5, <1>7, CrashedFit

----------------------------------------------------------------------------
(* Windows come and go.                                                    *)

\* More cycles and more views that may be active make more workspaces.
LEMMA RecordsGrow ==
  ASSUME NEW C, NEW D, C \subseteq D, NEW K, NEW J, K \subseteq J,
         NEW m \in ModelRecords(C, K)
  PROVE  m \in ModelRecords(D, J)
<1>1. m.ws \in [Workspaces -> WorkspaceRecords(C, K)] BY DEF ModelRecords
<1>2. \A w \in WorkspaceRecords(C, K) : w \in WorkspaceRecords(D, J) BY DEF WorkspaceRecords
<1>3. m.ws \in [Workspaces -> WorkspaceRecords(D, J)] BY <1>1, <1>2
<1> QED BY <1>3 DEF ModelRecords

\* A cycle of K is one of every larger set.
LEMMA OverGrows ==
  ASSUME NEW T, NEW K, NEW J, K \subseteq J
  PROVE  CyclesOver(T, K) \subseteq CyclesOver(T, J) /\ CyclesOver(T, K) \subseteq Cycles(T)
BY DEF CyclesOver

\* A sound model is of the type the specification gives it.
LEMMA SoundType ==
  ASSUME NEW K, K \subseteq Views, NEW m \in Sound(K)
  PROVE  m \in ModelRecords(Cycles(Views), Views)
<1>1. m \in ModelRecords(CyclesOver(Views, K), K) BY DEF Sound
<1> QED BY <1>1, OverGrows, RecordsGrow

\* A window that gets a workspace is known.
LEMMA NewcomerFit ==
  ASSUME NEW K, K \subseteq Views, NEW l, NEW m \in Fit(K, l), NEW v \in Views,
         NEW r \in ViewRecords, r.ws # Null, r.focused => v = m.focus
  PROVE  [m EXCEPT !.view[v] = r] \in Fit(K \cup {v}, l)
<1> DEFINE J == K \cup {v}
           n == [m EXCEPT !.view[v] = r]
<1>1. m \in ModelRecords(CyclesOver(Views, K), K) BY DEF Fit, Sound
<1>2. m \in ModelRecords(CyclesOver(Views, J), J) BY <1>1, OverGrows, RecordsGrow
<1> HIDE DEF J
<1>3. n \in ModelRecords(CyclesOver(Views, J), J) BY <1>2 DEF ModelRecords
<1>4. /\ n.view = [m.view EXCEPT ![v] = r] /\ n.focus = m.focus /\ n.ctx = m.ctx
      /\ n.outputs = m.outputs /\ n.out = m.out /\ n.output = m.output
      /\ DOMAIN m.view = Views
  BY <1>1 DEF ModelRecords
<1> HIDE DEF n
<1>5. KnownAre(n, J) BY <1>4 DEF J, KnownAre, Fit, Sound
<1>6. n \in Fit(J, l)
  BY <1>3, <1>4, <1>5 DEF Fit, Sound, FocusedIs, ContextsHome, OutputsLive, Wired
<1> QED BY <1>6 DEF n, J

\* What register_view does once the view is in its workspace keeps the model
\* sound.
LEMMA RegisteredFit ==
  ASSUME NEW K, K \subseteq Views, NEW l, NEW m \in Fit(K, l), NEW v \in K
  PROVE  Registered(m, v) \in Fit(K, l)
<1>1. m.view[v].layer \in TrackLayers BY KnownFit
<1>2. MoveViewToTrack(m, v, m.view[v].layer, TRUE) \in Fit(K, l)
  BY <1>1, MoveTrackStill, FitStill
<1> QED BY <1>2, SyncFocusFit DEF Registered

RuleRecords == [context : Contexts \cup {Null}, workspace : 0..(NWorkspaces - 1) \cup {Null},
                prefersFloating : BOOLEAN, float : BOOLEAN \cup {Null}, fullscreen : BOOLEAN]

\* The output that shows a workspace has a context.
LEMMA OutputOfLive ==
  ASSUME NEW K, NEW l, NEW m \in Fit(K, l), NEW w \in Workspaces, OutputOf(m, w) # Null
  PROVE  m.out[OutputOf(m, w)] \in Contexts
<1>1. ContextOf(w) \in Contexts BY ContextOfType
<1>2. /\ m.ctx \in [Contexts -> ContextRecords] /\ m.out \in [Outputs -> Contexts \cup {Null}]
  BY DEF Fit, Sound, ModelRecords
<1>3. OutputOf(m, w) \in Outputs BY <1>1, <1>2 DEF OutputOf, ContextRecords
<1>4. m.out[OutputOf(m, w)] # Null BY <1>1 DEF OutputOf, Fit, Sound, OutputsLive
<1> QED BY <1>2, <1>3, <1>4

\* register_view keeps the model sound, with one more view known.
LEMMA RegisterFit ==
  ASSUME NEW K, K \subseteq Views, NEW l, NEW m \in Fit(K, l), NEW v \in Views,
         NEW asked \in Workspaces, NEW rules \in RuleRecords
  PROVE  \E J \in SUBSET Views : RegisterView(m, v, asked, rules) \in Fit(J, l)
<1> DEFINE o == m.view[v]
           output == OutputOf(m, asked)
           context == IF rules.context # Null THEN rules.context ELSE m.out[output]
           to == IF rules.workspace # Null THEN WorkspaceAt(context, rules.workspace)
                 ELSE m.ctx[context].active
           k == IF rules.float = TRUE THEN FREE ELSE TILE
           b == IF rules.float # Null THEN rules.float ELSE rules.prefersFloating
           r == [o EXCEPT !.state = "mapped", !.mapped = TRUE, !.layer = k, !.floating = b]
           mapped == [m EXCEPT !.view[v].state = "mapped", !.view[v].mapped = TRUE,
                               !.view[v].layer = k, !.view[v].floating = b]
           J == K \cup {v}
           there == MoveViewToWorkspace(mapped, v, to)
<1>1. RegisterView(m, v, asked, rules) =
        IF output = Null /\ rules.context = Null THEN Crashed(m)
        ELSE IF rules.fullscreen THEN Registered(SetFullscreen(there, v, TRUE), v)
        ELSE Registered(there, v)
  BY DEF RegisterView
<1>2. CASE output = Null /\ rules.context = Null
  <2>1. RegisterView(m, v, asked, rules) \in Fit(K, l) BY <1>1, <1>2, CrashedFit
  <2> QED BY <2>1
<1>3. CASE ~(output = Null /\ rules.context = Null)
  <2>1. context \in Contexts
    <3>1. CASE rules.context # Null BY <3>1 DEF RuleRecords
    <3>2. CASE rules.context = Null BY <1>3, <3>2, OutputOfLive
    <3> QED BY <3>1, <3>2
  <2> HIDE DEF context
  <2>2. to \in Workspaces
    <3>1. rules.workspace # Null => rules.workspace \in 0..(NWorkspaces - 1) BY DEF RuleRecords
    <3>2. m.ctx[context].active \in Workspaces BY <2>1, FitStill, ShownWorkspace
    <3> QED BY <2>1, <3>1, <3>2, WorkspaceAtType
  <2> HIDE DEF to
  <2>3. o \in ViewRecords /\ (o.focused => v = m.focus) BY FitStill, ViewFacts
  <2>4. k \in TrackLayers /\ b \in BOOLEAN BY DEF RuleRecords, TrackLayers
  <2>5. mapped = [m EXCEPT !.view[v] = r]
    <3>1. v \in DOMAIN m.view /\ "view" \in DOMAIN m BY DEF Fit, Sound, ModelRecords
    <3> HIDE DEF k, b
    <3> QED BY <3>1
  <2> HIDE DEF k, b, mapped
  <2>6. r \in ViewRecords /\ r.ws = o.ws /\ (r.focused => v = m.focus)
    BY <2>3, <2>4 DEF ViewRecords
  <2> DEFINE s == [r EXCEPT !.ws = to]
  <2>7. s \in ViewRecords /\ s.ws = to /\ (s.focused => v = m.focus)
    BY <2>2, <2>6 DEF ViewRecords
  <2> HIDE DEF r
  <2>8. [m EXCEPT !.view[v] = s] \in Fit(J, l) BY <2>2, <2>7, NullFresh, NewcomerFit
  <2>9. [mapped EXCEPT !.view[v].ws = to] = [m EXCEPT !.view[v] = s] /\ mapped.view[v] = r
    <3>1. v \in DOMAIN m.view /\ "view" \in DOMAIN m BY DEF Fit, Sound, ModelRecords
    <3> QED BY <2>5, <3>1
  <2>10. r.ws \in Workspaces \cup {Null} BY <2>6 DEF ViewRecords
  <2>11. r.ws = to => mapped \in Fit(J, l)
    BY <2>2, <2>5, <2>6, NullFresh, NewcomerFit
  <2>12. v \in J /\ J \subseteq Views OBVIOUS
  <2> HIDE DEF J
  <2>13. there \in Fit(J, l) BY <2>2, <2>8, <2>9, <2>10, <2>11, <2>12, MoveToWorkspaceFit
  <2> HIDE DEF there
  <2>14. SetFullscreen(there, v, TRUE) \in Fit(J, l) BY <2>12, <2>13, SetFullscreenFit
  <2>15. RegisterView(m, v, asked, rules) \in Fit(J, l)
    BY <1>1, <1>3, <2>12, <2>13, <2>14, RegisteredFit
  <2> QED BY <2>12, <2>15
<1> QED BY <1>2, <1>3

\* unregister_view keeps the model sound; the view is still known.
LEMMA UnregisterFit ==
  ASSUME NEW K, K \subseteq Views, NEW l, NEW m \in Fit(K, l), NEW v \in K
  PROVE  UnregisterView(m, v) \in Fit(K, l)
<1> DEFINE x == LeaveWorkspace(m, v, m.view[v].ws)
           y == SyncFocus(x)
           r == [y.view[v] EXCEPT !.state = "unmapped", !.managed = FALSE]
           n == [y EXCEPT !.view[v] = r]
<1>1. x \in Fit(K, l) BY KnownFit, LeaveFit
<1> HIDE DEF x
<1>2. y \in Fit(K, l) BY <1>1, SyncFocusFit
<1>3. UnregisterView(m, v) = IF x.output = Null THEN Crashed(x)
                             ELSE ApplyLayout([y EXCEPT !.view[v].state = "unmapped",
                                                        !.view[v].managed = FALSE],
                                              x.view[v].ws)
  BY DEF UnregisterView, Unregistered, x
<1> HIDE DEF y
<1>4. [y EXCEPT !.view[v].state = "unmapped", !.view[v].managed = FALSE] = n
  <2>1. v \in DOMAIN y.view /\ "view" \in DOMAIN y BY <1>2 DEF Fit, Sound, ModelRecords
  <2> QED BY <2>1
<1>5. y.view[v] \in ViewRecords /\ (y.view[v].focused => v = y.focus)
  BY <1>2, FitStill, ViewFacts
<1>6. r \in ViewRecords /\ r.ws = y.view[v].ws /\ (r.focused => v = y.focus)
  BY <1>5 DEF ViewRecords
<1> HIDE DEF r
<1>7. n \in Fit(K, l) BY <1>2, <1>6, SetView, FitStill
<1> HIDE DEF n
<1>8. x.view[v].ws \in Workspaces BY <1>1, KnownFit
<1>9. ApplyLayout(n, x.view[v].ws) \in Fit(K, l) BY <1>7, <1>8, ApplyLayoutStill, FitStill
<1> QED BY <1>1, <1>3, <1>4, <1>9, CrashedFit

----------------------------------------------------------------------------
(* Contexts and outputs.                                                   *)

\* A workspace that does not refer to v.
LEMMA WithoutView ==
  ASSUME NEW T, NEW K, NEW w \in Shaped(T, K), NEW v, w.active # v,
         \A c \in {w.views, w.icons} \cup Range(w.tracks) : ~Contains(c, v)
  PROVE  w \in Shaped(T, K \ {v})
<1>1. ASSUME NEW c \in CyclesOver(T, K), ~Contains(c, v) PROVE c \in CyclesOver(T, K \ {v})
  BY <1>1 DEF CyclesOver, Contains
<1>2. /\ w.views \in CyclesOver(T, K \ {v}) /\ w.icons \in CyclesOver(T, K \ {v})
  BY <1>1 DEF Shaped, WorkspaceRecords
<1>3. w.tracks \in [TrackLayers -> CyclesOver(T, K)] BY DEF Shaped, WorkspaceRecords
<1>4. \A k \in TrackLayers : w.tracks[k] \in CyclesOver(T, K \ {v})
  <2> TAKE k \in TrackLayers
  <2>1. w.tracks[k] \in Range(w.tracks) /\ w.tracks[k] \in CyclesOver(T, K) BY <1>3 DEF Range
  <2> QED BY <1>1, <2>1
<1>5. w.tracks \in [TrackLayers -> CyclesOver(T, K \ {v})] BY <1>3, <1>4
<1> QED BY <1>2, <1>5 DEF Shaped, WorkspaceRecords

\* destroy_view: with the process going on the view was forgotten by its
\* workspace, and is not known any more.
LEMMA DestroyFit ==
  ASSUME NEW K, K \subseteq Views, NEW l, NEW m \in Fit(K, l), NEW v \in Views
  PROVE  /\ DestroyView(m, v) \in ModelRecords(Cycles(Views), Views)
         /\ ~DestroyView(m, v).down => DestroyView(m, v) \in Fit(K \ {v}, l)
<1> DEFINE n == DestroyView(m, v)
           d == m.down \/ Referenced(m, v)
           J == K \ {v}
<1>1. m \in ModelRecords(CyclesOver(Views, K), K) BY DEF Fit, Sound
<1>2. m \in ModelRecords(Cycles(Views), Views) BY SoundType DEF Fit
<1>3. NewView \in ViewRecords /\ NewView.ws = Null /\ NewView.state = "gone" /\ ~NewView.focused
  BY DEF NewView, ViewRecords, TrackLayers
<1>4. n = [m EXCEPT !.view[v] = NewView, !.down = d]
  BY <1>1 DEF DestroyView, ModelRecords
<1>5. d \in BOOLEAN BY <1>1 DEF ModelRecords
<1> HIDE DEF n, d
<1>6. n \in ModelRecords(Cycles(Views), Views) BY <1>2, <1>3, <1>4, <1>5 DEF ModelRecords
<1>7. /\ n.view = [m.view EXCEPT ![v] = NewView] /\ n.focus = m.focus /\ n.ctx = m.ctx
      /\ n.outputs = m.outputs /\ n.out = m.out /\ n.output = m.output /\ n.ws = m.ws
      /\ n.down = d /\ DOMAIN m.view = Views
  BY <1>1, <1>4 DEF ModelRecords
<1>8. ASSUME ~n.down PROVE n \in Fit(J, l)
  <2>1. ~Referenced(m, v) BY <1>7, <1>8 DEF d
  <2>2. m.focus # v /\ \A w \in Workspaces :
          /\ m.ws[w].active # v
          /\ \A c \in {m.ws[w].views, m.ws[w].icons} \cup Range(m.ws[w].tracks) : ~Contains(c, v)
    BY <2>1 DEF Referenced
  <2>3. \A w \in Workspaces : m.ws[w] \in Shaped(Views, J)
    <3> TAKE w \in Workspaces
    <3>1. m.ws[w] \in Shaped(Views, K) BY WsFit
    <3> QED BY <2>2, <3>1, WithoutView
  <2>4. n.ws \in [Workspaces -> Shaped(Views, J)] /\ n.focus \in J \cup {Null}
    <3>1. m.ws \in [Workspaces -> Shaped(Views, K)] /\ m.focus \in K \cup {Null}
      BY <1>1 DEF ModelRecords, Shaped
    <3> QED BY <1>7, <2>2, <2>3, <3>1
  <2> HIDE DEF J
  <2>5. n \in ModelRecords(CyclesOver(Views, J), J)
    BY <1>6, <2>4 DEF ModelRecords, Shaped
  <2>6. KnownAre(n, J) BY <1>3, <1>7 DEF J, KnownAre, Fit, Sound
  <2>7. FocusedIs(n) BY <1>3, <1>7 DEF FocusedIs, Fit, Sound
  <2> QED BY <1>7, <2>5, <2>6, <2>7 DEF Fit, Sound, ContextsHome, OutputsLive, Wired
<1> QED BY <1>6, <1>8 DEF n, J

----------------------------------------------------------------------------
(* Contexts and outputs.                                                   *)

\* A model is wired as itself.
LEMMA FitSound ==
  ASSUME NEW K, NEW m
  PROVE  (m \in Sound(K) <=> m \in Fit(K, m)) /\ \A l : m \in Fit(K, l) => m \in Sound(K)
BY DEF Fit, Wired

\* set_context (output.cc) keeps the model sound.
LEMMA SetContextSound ==
  ASSUME NEW K, NEW m \in Sound(K), NEW o \in Outputs, NEW c \in Contexts
  PROVE  SetContext(m, o, c) \in Sound(K)
<1> DEFINE ctx == [d \in Contexts |-> IF d = c THEN [m.ctx[d] EXCEPT !.output = o]
                                      ELSE IF d = m.out[o] THEN [m.ctx[d] EXCEPT !.output = Null]
                                      ELSE m.ctx[d]]
           out == [m.out EXCEPT ![o] = c]
           n   == [m EXCEPT !.ctx = ctx, !.out = out]
<1>1. /\ m \in ModelRecords(CyclesOver(Views, K), K) /\ ContextsHome(m) /\ OutputsLive(m)
      /\ KnownAre(m, K) /\ FocusedIs(m)
  BY DEF Sound
<1>2. m.ctx \in [Contexts -> ContextRecords] /\ m.out \in [Outputs -> Contexts \cup {Null}]
  BY <1>1 DEF ModelRecords
<1>3. SetContext(m, o, c) = n BY <1>1 DEF SetContext, ModelRecords
<1>4. ASSUME NEW d \in Contexts
      PROVE  /\ ctx[d] \in ContextRecords /\ ctx[d].active = m.ctx[d].active
             /\ ctx[d].output \in {m.ctx[d].output, o, Null}
  <2>1. m.ctx[d] \in ContextRecords BY <1>2
  <2> QED BY <2>1 DEF ContextRecords
<1>5. ctx \in [Contexts -> ContextRecords] BY <1>4
<1>6. out \in [Outputs -> Contexts \cup {Null}] BY <1>2
<1>7. \A p \in Outputs : out[p] = IF p = o THEN c ELSE m.out[p] BY <1>2
<1> HIDE DEF ctx, out
<1>8. n \in ModelRecords(CyclesOver(Views, K), K) BY <1>1, <1>5, <1>6 DEF ModelRecords
<1>9. /\ n.view = m.view /\ n.focus = m.focus /\ n.ctx = ctx /\ n.outputs = m.outputs
      /\ n.out = out /\ n.output = m.output
  BY <1>1 DEF ModelRecords
<1> HIDE DEF n
<1>10. KnownAre(n, K) /\ FocusedIs(n) /\ ContextsHome(n)
  BY <1>1, <1>4, <1>9 DEF KnownAre, FocusedIs, ContextsHome
<1>11. OutputsLive(n)
  <2>1. m.outputs \in Cycles(Outputs) BY <1>1 DEF ModelRecords
  <2>2. Range(m.outputs.elements) \subseteq Outputs BY <2>1, RangeType
  <2>3. c # Null BY NullFresh
  <2>4. \A p \in Range(n.outputs.elements) : n.out[p] # Null
    BY <1>1, <1>7, <1>9, <2>2, <2>3 DEF OutputsLive
  <2>5. ASSUME NEW d \in Contexts, n.ctx[d].output # Null PROVE n.out[n.ctx[d].output] # Null
    <3>1. n.ctx[d].output \in Outputs BY <1>5, <1>9, <2>5 DEF ContextRecords
    <3>2. m.ctx[d].output # Null => m.out[m.ctx[d].output] # Null BY <1>1 DEF OutputsLive
    <3> QED BY <1>4, <1>7, <1>9, <2>3, <2>5, <3>1, <3>2
  <2> QED BY <1>1, <1>9, <2>4, <2>5 DEF OutputsLive
<1> QED BY <1>3, <1>8, <1>10, <1>11 DEF Sound

\* The current context may be any.
LEMMA ContextChosenFit ==
  ASSUME NEW K, NEW m \in Sound(K), NEW from \in Contexts, NEW c \in Contexts
  PROVE  [m EXCEPT !.prevContext = from, !.context = c, !.ctxIndex = c] \in Fit(K, m)
<1> DEFINE n == [m EXCEPT !.prevContext = from, !.context = c, !.ctxIndex = c]
<1>1. m \in ModelRecords(CyclesOver(Views, K), K) BY DEF Sound
<1>2. n \in ModelRecords(CyclesOver(Views, K), K) BY <1>1 DEF ModelRecords
<1>3. /\ n.view = m.view /\ n.focus = m.focus /\ n.ctx = m.ctx /\ n.outputs = m.outputs
      /\ n.out = m.out /\ n.output = m.output
  BY <1>1 DEF ModelRecords
<1> HIDE DEF n
<1>4. n \in Fit(K, m)
  BY <1>2, <1>3 DEF Fit, Sound, KnownAre, FocusedIs, ContextsHome, OutputsLive, Wired
<1> QED BY <1>4 DEF n

\* activate_context keeps the model sound.
LEMMA ActivateContextSound ==
  ASSUME NEW K, K \subseteq Views, NEW m \in Sound(K), NEW c \in Contexts
  PROVE  ActivateContext(m, c) \in Sound(K)
<1> DEFINE hidden  == SE!FoldLeft(Unmap, m, Current(m).views.elements)
           there   == m.ctx[c].output
           swapped == IF there # Null /\ there # m.output
                      THEN SetContext(hidden, there, m.context) ELSE hidden
           set     == SetContext(swapped, m.output, c)
           shown   == [set EXCEPT !.prevContext = m.context, !.context = c, !.ctxIndex = c]
<1>1. m \in Fit(K, m) /\ m \in Still(K, m, m.focus) BY FitSound, FitStill
<1>2. /\ m.workspace \in Workspaces /\ m.context \in Contexts
      /\ m.ctx[c] \in ContextRecords /\ m.output \in Outputs \cup {Null}
  BY DEF Sound, ModelRecords
<1>3. hidden \in Sound(K) BY <1>1, <1>2, HideStill, FitStill, FitSound DEF Current
<1>4. there \in Outputs \cup {Null} /\ m.ctx[c].active \in Workspaces
  BY <1>2 DEF ContextRecords
<1>5. ActivateContext(m, c) = IF c = m.context THEN m
                              ELSE IF m.output = Null THEN Crashed(hidden)
                              ELSE ActivateWorkspace(shown, m.ctx[c].active)
  BY DEF ActivateContext
<1> HIDE DEF hidden, there
<1>6. Crashed(hidden) \in Sound(K) BY <1>3, FitSound, CrashedFit
<1>7. swapped \in Sound(K) BY <1>2, <1>3, <1>4, SetContextSound
<1> HIDE DEF swapped
<1>8. ASSUME m.output # Null PROVE ActivateWorkspace(shown, m.ctx[c].active) \in Sound(K)
  <2>1. set \in Sound(K) BY <1>2, <1>7, <1>8, SetContextSound
  <2> HIDE DEF set
  <2>2. shown \in Sound(K) BY <1>2, <2>1, ContextChosenFit, FitSound
  <2> HIDE DEF shown
  <2> QED BY <1>4, <2>2, FitSound, ActivateWorkspaceFit
<1> QED BY <1>5, <1>6, <1>8

\* A new output keeps the model sound, whether a context is left for it or the
\* process ends.
LEMMA NewOutputSound ==
  ASSUME NEW K, K \subseteq Views, NEW m \in Sound(K), NEW o \in Outputs
  PROVE  NewOutput(m, o) \in Sound(K)
<1> DEFINE u == UpdateOutputs(m)
           unshown == {c \in Contexts : u.ctx[c].output = Null}
           c == CHOOSE c \in unshown : \A d \in unshown : c <= d
           set == SetContext(u, o, c)
           outputs == InsertAtBack(set.outputs, o)
           n == [set EXCEPT !.outputs = outputs, !.output = o, !.context = c,
                            !.workspace = u.ctx[c].active]
<1>1. u \in Sound(K) BY UpdateOutputsStill, FitStill, FitSound
<1>2. NewOutput(m, o) = IF unshown = {} THEN Crashed(u) ELSE n
  BY DEF NewOutput, RegisterOutput
<1> HIDE DEF u
<1>3. Crashed(u) \in Sound(K) BY <1>1, FitSound, CrashedFit
<1>4. ASSUME unshown # {} PROVE n \in Sound(K)
  <2>1. unshown \subseteq Nat BY CountsAssumption DEF Contexts
  <2> HIDE DEF unshown
  <2>2. c \in unshown BY <1>4, <2>1, LeastNumber
  <2> USE DEF unshown
  <2>3. c \in Contexts BY <2>2
  <2> HIDE DEF unshown, c
  <2>4. u.ctx[c].active \in Workspaces BY <1>1, <2>3 DEF Sound, ModelRecords, ContextRecords
  <2>5. set \in Sound(K) BY <1>1, <2>3, SetContextSound
  <2>6. set.out[o] = c
    BY <1>1 DEF Sound, ModelRecords, SetContext
  <2> HIDE DEF set
  <2>7. set \in ModelRecords(CyclesOver(Views, K), K) BY <2>5 DEF Sound
  <2>8. outputs \in Cycles(Outputs) /\ Range(outputs.elements) = Range(set.outputs.elements) \cup {o}
    <3>1. set.outputs \in Cycles(Outputs) BY <2>7 DEF ModelRecords
    <3>2. Holds(InsertAtBack(set.outputs, o), Outputs, Range(set.outputs.elements) \cup {o})
      BY <3>1, InsertHolds
    <3> QED BY <3>2 DEF Holds
  <2> HIDE DEF outputs
  <2>9. n \in ModelRecords(CyclesOver(Views, K), K) BY <2>3, <2>4, <2>7, <2>8 DEF ModelRecords
  <2>10. /\ n.view = set.view /\ n.focus = set.focus /\ n.ctx = set.ctx
         /\ n.outputs = outputs /\ n.out = set.out /\ n.output = o
    BY <2>7 DEF ModelRecords
  <2> HIDE DEF n
  <2>11. OutputsLive(n) BY <2>3, <2>5, <2>6, <2>8, <2>10, NullFresh DEF Sound, OutputsLive
  <2> QED BY <2>5, <2>9, <2>10, <2>11 DEF Sound, KnownAre, FocusedIs, ContextsHome
<1> QED BY <1>2, <1>3, <1>4

\* The end of an output keeps the model sound: unless the process ends, no
\* context shows it any more.
LEMMA DestroyOutputSound ==
  ASSUME NEW K, K \subseteq Views, NEW m \in Sound(K), NEW o \in Outputs, m.out[o] # Null
  PROVE  /\ DestroyOutput(m, o) \in ModelRecords(Cycles(Views), Views)
         /\ ~DestroyOutput(m, o).down => DestroyOutput(m, o) \in Sound(K)
<1> DEFINE u == UpdateOutputs(m)
           outputs == RemoveElement(m.outputs, o)
           a == ActiveElement(outputs)
           c == m.out[o]
           other == {d \in Contexts \ {c} : m.ctx[d].output = o}
           down == u.down \/ other # {}
           ctx == [u.ctx EXCEPT ![c].output = Null]
           out == [u.out EXCEPT ![o] = Null]
           n == [u EXCEPT !.ctx = ctx, !.out = out, !.outputs = outputs, !.output = a, !.down = down]
<1>1. m \in ModelRecords(CyclesOver(Views, K), K) /\ OutputsLive(m) BY DEF Sound
<1>2. u \in Fit(K, m) BY UpdateOutputsStill, FitStill, FitSound
<1>3. /\ u \in ModelRecords(CyclesOver(Views, K), K) /\ ContextsHome(u) /\ OutputsLive(u)
      /\ KnownAre(u, K) /\ FocusedIs(u) /\ Wired(u, m)
  BY <1>2 DEF Fit, Sound
<1>4. DestroyOutput(m, o) = n BY <1>3 DEF DestroyOutput, ModelRecords
<1>5. c \in Contexts BY <1>1 DEF ModelRecords
<1>6. outputs \in Cycles(Outputs) /\ Range(outputs.elements) = Range(m.outputs.elements) \ {o}
  BY <1>1, RemoveHolds DEF ModelRecords, Holds
<1>7. Range(outputs.elements) \subseteq Outputs BY <1>6, RangeType
<1>8. a \in Range(outputs.elements) \cup {Null} BY <1>6, ActiveOrNull
<1>9. u.ctx \in [Contexts -> ContextRecords] /\ u.out \in [Outputs -> Contexts \cup {Null}]
  BY <1>3 DEF ModelRecords
<1>10. ASSUME NEW d \in Contexts
       PROVE  /\ ctx[d] \in ContextRecords /\ ctx[d].active = u.ctx[d].active
              /\ ctx[d].output = IF d = c THEN Null ELSE m.ctx[d].output
  <2>1. u.ctx[d] \in ContextRecords /\ u.ctx[d].output = m.ctx[d].output BY <1>3, <1>9 DEF Wired
  <2> QED BY <1>9, <2>1 DEF ContextRecords
<1>11. ctx \in [Contexts -> ContextRecords]
  <2>1. ctx = [d \in Contexts |-> ctx[d]] BY <1>9
  <2> HIDE DEF ctx
  <2> QED BY <1>10, <2>1
<1>12. /\ out \in [Outputs -> Contexts \cup {Null}]
       /\ \A p \in Outputs : out[p] = IF p = o THEN Null ELSE m.out[p]
  BY <1>3, <1>9 DEF Wired
<1>13. down \in BOOLEAN BY <1>3 DEF ModelRecords
<1> HIDE DEF u, outputs, a, ctx, out, down
<1>14. n \in ModelRecords(CyclesOver(Views, K), K)
  BY <1>3, <1>6, <1>7, <1>8, <1>11, <1>12, <1>13 DEF ModelRecords
<1>15. /\ n.view = u.view /\ n.focus = u.focus /\ n.ctx = ctx /\ n.outputs = outputs
       /\ n.out = out /\ n.down = down /\ n.output = a
  BY <1>3 DEF ModelRecords
<1> HIDE DEF n
<1>16. n \in ModelRecords(Cycles(Views), Views) BY <1>14, OverGrows, RecordsGrow
<1>17. KnownAre(n, K) /\ FocusedIs(n) /\ ContextsHome(n)
  BY <1>3, <1>10, <1>15 DEF KnownAre, FocusedIs, ContextsHome
<1>18. ASSUME ~n.down PROVE OutputsLive(n)
  <2>1. other = {} BY <1>15, <1>18 DEF down
  <2>2. \A p \in Range(n.outputs.elements) : n.out[p] # Null
    BY <1>1, <1>6, <1>7, <1>12, <1>15 DEF OutputsLive
  <2>3. ASSUME NEW d \in Contexts, n.ctx[d].output # Null PROVE n.out[n.ctx[d].output] # Null
    <3>1. d # c /\ n.ctx[d].output = m.ctx[d].output BY <1>10, <1>15, <2>3
    <3>2. m.ctx[d].output # o BY <2>1, <3>1
    <3>3. m.out[m.ctx[d].output] # Null BY <1>1, <2>3, <3>1 DEF OutputsLive
    <3>4. m.ctx[d].output \in Outputs
      BY <1>11, <1>15, <2>3, <3>1 DEF ContextRecords
    <3> QED BY <1>12, <1>15, <3>1, <3>2, <3>3, <3>4
  <2> QED BY <1>8, <1>15, <2>2, <2>3 DEF OutputsLive
<1> QED BY <1>4, <1>14, <1>16, <1>17, <1>18 DEF Sound

----------------------------------------------------------------------------
(* Consistent models.                                                      *)

\* Of its type, and sound as long as the process runs.
Consistent(m) ==
  /\ m \in ModelRecords(Cycles(Views), Views)
  /\ ~m.down => \E K \in SUBSET Views : m \in Sound(K)

\* The inductive invariant.
ModelInvariant == Consistent(model)

\* Sound for any known views is consistent.
LEMMA SoundConsistent ==
  ASSUME NEW K, K \subseteq Views, NEW m \in Sound(K)
  PROVE  Consistent(m)
BY SoundType DEF Consistent

\* n is consistent and its outputs are as in m.
Follows(n, m) == Consistent(n) /\ Wired(n, m)

\* What keeps a model sound and wired as it was is a step that follows.
LEMMA FitFollows ==
  ASSUME NEW K, K \subseteq Views, NEW l, NEW m \in Fit(K, l)
  PROVE  Follows(m, l)
BY SoundConsistent, FitSound DEF Follows, Fit

\* The constructor of Model makes a sound model in which no view is known.
LEMMA ConstructedSound ==
  ASSUME NEW kind \in DOMAIN LayoutKinds
  PROVE  Constructed(kind) \in Sound({})
<1> DEFINE n == Constructed(kind)
           e == EmptyCycle(TRUE)
<1>1. \A c \in Contexts : WorkspaceAt(c, 0) \in Workspaces /\ ContextOf(WorkspaceAt(c, 0)) = c
  BY WorkspaceAtType, CountsAssumption
<1>2. 0 \in Workspaces /\ 0 \in Contexts
  <2>1. NContexts * NWorkspaces > 0 /\ NContexts * NWorkspaces \in Nat BY CountsAssumption
  <2> QED BY <2>1, CountsAssumption DEF Workspaces, Contexts
<1>3. NewWorkspace(kind) \in Shaped(Views, {}) BY NewShape
<1>4. NewView \in ViewRecords /\ NewView.ws = Null /\ NewView.state = "gone" /\ ~NewView.focused
  BY DEF NewView, ViewRecords, TrackLayers
<1>5. e \in Cycles(Outputs) /\ Range(e.elements) = {}
  BY DEF EmptyCycle, Cycles, Range
<1> HIDE DEF e
<1>6. [c \in Contexts |-> [output |-> Null, active |-> WorkspaceAt(c, 0), prev |-> Null]]
        \in [Contexts -> ContextRecords]
  BY <1>1 DEF ContextRecords
<1>7. n = [ws |-> [w \in Workspaces |-> NewWorkspace(kind)],
           view |-> [v \in Views |-> NewView],
           ctx |-> [c \in Contexts |-> [output |-> Null, active |-> WorkspaceAt(c, 0), prev |-> Null]],
           out |-> [o \in Outputs |-> Null], outputs |-> e,
           wsIndex |-> 0, ctxIndex |-> 0,
           output |-> Null, context |-> 0, workspace |-> 0,
           prevContext |-> Null, prevWorkspace |-> Null,
           focus |-> Null, jumpedFrom |-> Null, down |-> FALSE, astray |-> FALSE]
  BY DEF Constructed, e
<1> HIDE DEF n
<1>8. n \in ModelRecords(CyclesOver(Views, {}), {})
  BY <1>2, <1>3, <1>4, <1>5, <1>6, <1>7 DEF ModelRecords, Shaped
<1>9. KnownAre(n, {}) /\ FocusedIs(n) BY <1>4, <1>7 DEF KnownAre, FocusedIs
<1>10. ContextsHome(n) /\ OutputsLive(n) BY <1>1, <1>5, <1>7 DEF ContextsHome, OutputsLive
<1> QED BY <1>8, <1>9, <1>10 DEF Sound, n

\* The model is consistent when the first output has been registered.
THEOREM ModelStarts == Init => ModelInvariant
<1> SUFFICES ASSUME NEW o \in Outputs, model = NewOutput(Constructed(InitialKind), o)
             PROVE  Consistent(model)
  BY DEF Init, ModelInvariant
<1>1. Constructed(InitialKind) \in Sound({}) BY ConstructedSound, KindsAssumption
<1>2. NewOutput(Constructed(InitialKind), o) \in Sound({}) BY <1>1, NewOutputSound
<1> QED BY <1>2, SoundConsistent

\* A mapped window, and the focus, is a view that is known.
LEMMA MappedKnown ==
  ASSUME NEW K, NEW l, model \in Fit(K, l)
  PROVE  Mapped \subseteq K /\ (focus # Null => focus \in K)
BY DEF Mapped, focus, Fit, Sound, KnownAre, ModelRecords

\* The actions of the windows: every handler of a client's request or of a
\* command on a view leaves a consistent model and touches no output.
LEMMA WindowStep ==
  ASSUME NEW K, K \subseteq Views, model \in Fit(K, model), NEW v \in Views,
         \/ \E asked \in AskedWorkspaces, rules \in RuleSets : MapView(v, asked, rules)
         \/ \E on \in BOOLEAN : RequestFullscreen(v, on)
         \/ \E w \in Workspaces : MoveToWorkspace(v, w)
         \/ UnmapView(v) \/ Destroy(v) \/ FocusUnderCursor(v) \/ RequestActivate(v)
         \/ ReverseFloating(v) \/ ReverseFullscreen(v) \/ Nudge(v) \/ Jump(v)
         \/ MapOnNoOutput(v)
  PROVE  Follows(model', model)
<1>1. ASSUME NEW asked \in AskedWorkspaces, NEW rules \in RuleSets, MapView(v, asked, rules)
      PROVE  Follows(model', model)
  <2>1. asked \in Workspaces
    <3>1. /\ model.workspace \in Workspaces /\ model.out \in [Outputs -> Contexts \cup {Null}]
          /\ model.ctx \in [Contexts -> ContextRecords]
      BY DEF Fit, Sound, ModelRecords
    <3> QED BY <3>1 DEF AskedWorkspaces, Attached, ContextRecords
  <2>2. rules \in RuleRecords BY DEF RuleSets, RuleRecords
  <2>3. model' = RegisterView(model, v, asked, rules) BY <1>1 DEF MapView
  <2>4. PICK J \in SUBSET Views : RegisterView(model, v, asked, rules) \in Fit(J, model)
    BY <2>1, <2>2, RegisterFit
  <2> QED BY <2>3, <2>4, FitFollows
<1>2. ASSUME NEW on \in BOOLEAN, RequestFullscreen(v, on) PROVE Follows(model', model)
  <2>1. v \in K BY <1>2, MappedKnown DEF RequestFullscreen
  <2> QED BY <1>2, <2>1, SetFullscreenFit, FitFollows DEF RequestFullscreen
<1>3. ASSUME v = focus \/ v \in Pointable PROVE v \in K
  BY <1>3, MappedKnown, NullFresh DEF Pointable
<1>4. ASSUME NEW w \in Workspaces, MoveToWorkspace(v, w) PROVE Follows(model', model)
  <2>1. v \in K BY <1>3, <1>4 DEF MoveToWorkspace
  <2> DEFINE r == [model.view[v] EXCEPT !.ws = w]
             n == [model EXCEPT !.view[v] = r]
  <2>2. model.view[v] \in ViewRecords /\ (model.view[v].focused => v = model.focus)
        /\ model.view[v].ws \in Workspaces
    BY <2>1, FitStill, ViewFacts
  <2>3. r \in ViewRecords /\ r.ws # Null /\ (r.focused => v = model.focus)
    BY <2>2, NullFresh DEF ViewRecords
  <2>4. K \cup {v} = K BY <2>1
  <2>5. n \in Fit(K, model)
    <3> HIDE DEF r
    <3> QED BY <2>3, <2>4, NewcomerFit
  <2>6. [model EXCEPT !.view[v].ws = w] = n OBVIOUS
  <2>7. MoveViewToWorkspace(model, v, w) \in Fit(K, model)
    BY <2>1, <2>2, <2>5, <2>6, MoveToWorkspaceFit
  <2> QED BY <1>4, <2>7, FitFollows DEF MoveToWorkspace
<1>5. CASE UnmapView(v)
  <2>1. v \in K BY <1>5, MappedKnown DEF UnmapView
  <2> QED BY <1>5, <2>1, UnregisterFit, FitFollows DEF UnmapView
<1>6. CASE Destroy(v)
  <2>1. model' = DestroyView(model, v) BY <1>6 DEF Destroy
  <2>2. /\ model' \in ModelRecords(Cycles(Views), Views)
        /\ ~model'.down => model' \in Fit(K \ {v}, model)
    BY <2>1, DestroyFit
  <2>3. Wired(model', model)
    BY <2>1 DEF DestroyView, Wired, Fit, Sound, ModelRecords
  <2> QED BY <2>2, <2>3, FitSound DEF Follows, Consistent
<1>7. CASE FocusUnderCursor(v)
  BY <1>7, FocusViewFit, FitFollows DEF FocusUnderCursor
<1>8. CASE RequestActivate(v)
  BY <1>8, FocusViewFit, FitFollows DEF RequestActivate
<1>9. ASSUME NEW n \in Fit(K, model) PROVE FocusManaged(n, v) \in Fit(K, model)
  BY FocusViewFit DEF FocusManaged
<1>10. CASE ReverseFloating(v)
  <2>1. v \in K BY <1>3, <1>10 DEF ReverseFloating
  <2>2. (~model.view[v].floating) \in BOOLEAN OBVIOUS
  <2>3. SetFloating(model, v, ~model.view[v].floating) \in Fit(K, model)
    BY <2>1, <2>2, SetFloatingFit
  <2> QED BY <1>9, <1>10, <2>3, FitFollows DEF ReverseFloating
<1>11. CASE ReverseFullscreen(v)
  <2>1. v \in K BY <1>3, <1>11 DEF ReverseFullscreen
  <2>2. (~model.view[v].fullscreen) \in BOOLEAN OBVIOUS
  <2>3. SetFullscreen(model, v, ~model.view[v].fullscreen) \in Fit(K, model)
    BY <2>1, <2>2, SetFullscreenFit
  <2> QED BY <1>9, <1>11, <2>3, FitFollows DEF ReverseFullscreen
<1>12. CASE Nudge(v)
  <2>1. v \in K BY <1>3, <1>12 DEF Nudge
  <2> QED BY <1>12, <2>1, NudgeFit, FitFollows DEF Nudge
<1>13. CASE Jump(v)
  BY <1>13, JumpFit, FitFollows DEF Jump
<1>14. CASE MapOnNoOutput(v)
  BY <1>14, CrashedFit, FitFollows DEF MapOnNoOutput
<1> QED BY <1>1, <1>2, <1>4, <1>5, <1>6, <1>7, <1>8, <1>10, <1>11, <1>12, <1>13, <1>14

\* The actions of the key bindings on the focus, the layout and the workspaces:
\* the same.
LEMMA BindingStep ==
  ASSUME NEW K, K \subseteq Views, model \in Fit(K, model),
         \/ \E d \in Directions : MoveFocus(d) \/ DragFocus(d) \/ Reorder(d)
         \/ \E d \in Directions, n \in 0..2 : Shuffle(d, n)
         \/ \E k \in Kinds, same \in BOOLEAN : ChooseLayout(k, same)
         \/ SwitchLayout \/ ReverseContained \/ ReverseIconify \/ Deiconify
         \/ \E w \in Workspaces : SwitchWorkspace(w)
         \/ RegainFocus \/ Relayout
  PROVE  Follows(model', model)
<1>1. ASSUME NEW d \in Directions, MoveFocus(d) \/ DragFocus(d) \/ Reorder(d)
      PROVE  Follows(model', model)
  <2>1. /\ CycleFocusCommand(model, d) \in Fit(K, model)
        /\ CycleFocusTrackCommand(model, d) \in Fit(K, model)
        /\ DragFocusTrackCommand(model, d) \in Fit(K, model)
        /\ CycleTrackCommand(model, d) \in Fit(K, model)
        /\ ReverseViews(model) \in Fit(K, model) /\ RotateViews(model, d) \in Fit(K, model)
    <3>1. 0 \in Nat OBVIOUS
    <3> QED BY <3>1, FocusCommandsFit
  <2> QED BY <1>1, <2>1, FitFollows DEF MoveFocus, DragFocus, Reorder
<1>2. ASSUME NEW d \in Directions, NEW n \in 0..2, Shuffle(d, n) PROVE Follows(model', model)
  <2>1. n \in Nat OBVIOUS
  <2>2. /\ ShuffleMainCommand(model, d, n) \in Fit(K, model)
        /\ ShuffleStackCommand(model, d, n) \in Fit(K, model)
    BY <2>1, FocusCommandsFit
  <2> QED BY <1>2, <2>2, FitFollows DEF Shuffle
<1>3. ASSUME NEW k \in Kinds, NEW same \in BOOLEAN, ChooseLayout(k, same)
      PROVE  Follows(model', model)
  <2>1. k \in DOMAIN LayoutKinds BY KindsAssumption
  <2>2. /\ SetLayout(model, k, same) \in Fit(K, model)
        /\ SetLayoutRetainRegion(model, k, same) \in Fit(K, model)
    BY <2>1, LayoutCommandsFit
  <2> QED BY <1>3, <2>2, FitFollows DEF ChooseLayout
<1>4. CASE SwitchLayout
  <2>1. InitialKind \in DOMAIN LayoutKinds BY KindsAssumption
  <2>2. ToggleLayout(model) \in Fit(K, model) BY <2>1, LayoutCommandsFit
  <2> QED BY <1>4, <2>2, FitFollows DEF SwitchLayout
<1>5. CASE ReverseContained
  <2>1. focus \in K BY <1>5, MappedKnown DEF ReverseContained
  <2>2. (~model.view[focus].contained) \in BOOLEAN OBVIOUS
  <2>3. SetContained(model, focus, ~model.view[focus].contained) \in Fit(K, model)
    BY <2>1, <2>2, SetContainedFit
  <2> QED BY <1>5, <2>3, FitFollows DEF ReverseContained
<1>6. CASE ReverseIconify
  <2>1. focus \in K BY <1>6, MappedKnown DEF ReverseIconify
  <2>2. (~model.view[focus].iconified) \in BOOLEAN OBVIOUS
  <2>3. SetIconify(model, focus, ~model.view[focus].iconified) \in Fit(K, model)
    BY <2>1, <2>2, SetIconifyFit
  <2> QED BY <1>6, <2>3, FitFollows DEF ReverseIconify
<1>7. CASE Deiconify
  BY <1>7, PopFit, DeiconifyAllFit, FitFollows DEF Deiconify
<1>8. ASSUME NEW w \in Workspaces, SwitchWorkspace(w) PROVE Follows(model', model)
  BY <1>8, ActivateWorkspaceFit, FitFollows DEF SwitchWorkspace
<1>9. CASE RegainFocus
  BY <1>9, RefocusFit, FitFollows DEF RegainFocus
<1>10. CASE Relayout
  <2>1. UpdateOutputs(model) \in Fit(K, model) BY UpdateOutputsStill, FitStill
  <2> QED BY <1>10, <2>1, FitFollows DEF Relayout
<1> QED BY <1>1, <1>2, <1>3, <1>4, <1>5, <1>6, <1>7, <1>8, <1>9, <1>10

\* The actions on contexts and outputs leave a consistent model.
LEMMA OutputStep ==
  ASSUME NEW K, K \subseteq Views, model \in Sound(K),
         \/ \E c \in Contexts : SwitchContext(c)
         \/ \E o \in Outputs : AttachOutput(o) \/ DetachOutput(o)
  PROVE  Consistent(model')
<1>1. ASSUME NEW c \in Contexts, SwitchContext(c) PROVE Consistent(model')
  BY <1>1, ActivateContextSound, SoundConsistent DEF SwitchContext
<1>2. ASSUME NEW o \in Outputs, AttachOutput(o) PROVE Consistent(model')
  BY <1>2, NewOutputSound, SoundConsistent DEF AttachOutput
<1>3. ASSUME NEW o \in Outputs, DetachOutput(o) PROVE Consistent(model')
  <2>1. model' = DestroyOutput(model, o) /\ model.out[o] # Null
    BY <1>3 DEF DetachOutput, Attached
  <2> QED BY <2>1, DestroyOutputSound DEF Consistent
<1> QED BY <1>1, <1>2, <1>3

\* A step is taken by a model that is not down, and whose focus was settled.
LEMMA StepRuns == Next => ~model.down /\ ~model.astray
BY DEF Next, Handled, MapView, MapOnNoOutput, UnmapView, Destroy, RequestFullscreen,
       FocusUnderCursor, RequestActivate, MoveFocus, DragFocus, Reorder, Shuffle, ChooseLayout,
       SwitchLayout, ReverseFloating, ReverseFullscreen, ReverseContained, ReverseIconify,
       Deiconify, Nudge, Jump, MoveToWorkspace, SwitchWorkspace, SwitchContext, AttachOutput,
       DetachOutput, RegainFocus, Relayout, Uses

\* It leaves the outputs and the contexts alone, or is about them.
LEMMA StepKinds ==
  ASSUME Consistent(model), Next
  PROVE  \E K \in SUBSET Views :
           /\ model \in Sound(K)
           /\ Consistent(model')
           /\ \/ Wired(model', model)
              \/ \E c \in Contexts : SwitchContext(c)
              \/ \E o \in Outputs : AttachOutput(o) \/ DetachOutput(o)
<1>1. ~model.down BY StepRuns
<1>2. PICK K \in SUBSET Views : model \in Sound(K) BY <1>1 DEF Consistent
<1>3. model \in Fit(K, model) BY <1>2, FitSound
<1> QED BY <1>2, <1>3, WindowStep, BindingStep, OutputStep DEF Next, Handled, Follows

\* The inductive step: every handler leaves a consistent model.
THEOREM ModelSteps == ModelInvariant /\ [Next]_model => ModelInvariant'
<1> SUFFICES ASSUME Consistent(model), [Next]_model PROVE Consistent(model')
  BY DEF ModelInvariant
<1>1. CASE UNCHANGED model BY <1>1
<1>2. CASE Next BY <1>2, StepKinds
<1> QED BY <1>1, <1>2

\* The model is always consistent: for any number of windows, outputs, contexts
\* and workspaces, any layouts and any of the families of actions, also after
\* the process was about to end.
THEOREM ModelAlways == Spec => []ModelInvariant
BY ModelStarts, ModelSteps, PTL DEF Spec

\* A consistent model has the type the runs check.
LEMMA ConsistentType == ModelInvariant => TypeOK
BY DEF ModelInvariant, Consistent, TypeOK

\* In a consistent model only mp_focus is focused.
LEMMA ConsistentFocus == ModelInvariant => OneIsFocused
BY DEF ModelInvariant, Consistent, OneIsFocused, Sound, FocusedIs, focus

\* In every state of the program every pointer is null or points to an object of
\* its kind, and no index is negative.
THEOREM TypesAreKept == Spec => []TypeOK
BY ModelAlways, ConsistentType, PTL

\* In every state in which the process runs, no view but mp_focus is shown as
\* focused: every path that sets mp_focus has unfocused the view before.
THEOREM OneFocusAlways == Spec => []OneIsFocused
BY ModelAlways, ConsistentFocus, PTL

----------------------------------------------------------------------------
(* Contexts and outputs.                                                   *)

\* m_context of an output and m_output of a context are inverse of each other.
Matched(m) ==
  /\ \A o \in Outputs : m.out[o] # Null => m.ctx[m.out[o]].output = o
  /\ \A c \in Contexts : m.ctx[c].output # Null => m.out[m.ctx[c].output] = c

\* Contexts do not change places, or there is nothing to change with.
ContextsStay == "context" \notin Families \/ \A o, p \in Outputs : o = p

\* Actions that do not touch outputs keep contexts and outputs matched.
LEMMA WiredMatched ==
  ASSUME NEW m, NEW n, Wired(n, m), Matched(m), NEW K, m \in Sound(K)
  PROVE  Matched(n)
<1>1. m.out \in [Outputs -> Contexts \cup {Null}] BY DEF Sound, ModelRecords
<1> QED BY <1>1 DEF Wired, Matched

\* What set_context does to both sides of the relation.
LEMMA SetContextFacts ==
  ASSUME NEW K, NEW m \in Sound(K), NEW o \in Outputs, NEW c \in Contexts
  PROVE  /\ \A p \in Outputs : SetContext(m, o, c).out[p] = IF p = o THEN c ELSE m.out[p]
         /\ \A d \in Contexts : SetContext(m, o, c).ctx[d].output =
              IF d = c THEN o ELSE IF d = m.out[o] THEN Null ELSE m.ctx[d].output
<1>1. m \in ModelRecords(CyclesOver(Views, K), K) BY DEF Sound
<1>2. m.ctx \in [Contexts -> ContextRecords] /\ m.out \in [Outputs -> Contexts \cup {Null}]
  BY <1>1 DEF ModelRecords
<1> DEFINE ctx == [d \in Contexts |-> IF d = c THEN [m.ctx[d] EXCEPT !.output = o]
                                      ELSE IF d = m.out[o] THEN [m.ctx[d] EXCEPT !.output = Null]
                                      ELSE m.ctx[d]]
           out == [m.out EXCEPT ![o] = c]
<1>3. SetContext(m, o, c).ctx = ctx /\ SetContext(m, o, c).out = out
  BY <1>1 DEF SetContext, ModelRecords
<1>4. \A d \in Contexts : ctx[d].output =
              IF d = c THEN o ELSE IF d = m.out[o] THEN Null ELSE m.ctx[d].output
  <2> TAKE d \in Contexts
  <2>1. m.ctx[d] \in ContextRecords BY <1>2
  <2> QED BY <2>1 DEF ContextRecords
<1>5. \A p \in Outputs : out[p] = IF p = o THEN c ELSE m.out[p] BY <1>2
<1> QED BY <1>3, <1>4, <1>5

\* A new output is given a context that no output has, and points to it.
LEMMA NewOutputMatched ==
  ASSUME NEW K, K \subseteq Views, NEW m \in Sound(K), Matched(m), NEW o \in Outputs,
         m.out[o] = Null
  PROVE  Matched(NewOutput(m, o))
<1> DEFINE u == UpdateOutputs(m)
           unshown == {c \in Contexts : u.ctx[c].output = Null}
           c == CHOOSE c \in unshown : \A d \in unshown : c <= d
           set == SetContext(u, o, c)
           outputs == InsertAtBack(set.outputs, o)
           n == [set EXCEPT !.outputs = outputs, !.output = o, !.context = c,
                            !.workspace = u.ctx[c].active]
<1>1. u \in Fit(K, m) /\ u \in Sound(K) BY UpdateOutputsStill, FitStill, FitSound
<1>2. Wired(u, m) /\ Matched(u) BY <1>1, WiredMatched DEF Fit
<1>3. NewOutput(m, o) = IF unshown = {} THEN Crashed(u) ELSE n
  BY DEF NewOutput, RegisterOutput
<1> HIDE DEF u
<1>4. Crashed(u).ctx = u.ctx /\ Crashed(u).out = u.out
  BY <1>1 DEF Sound, ModelRecords, Crashed
<1>5. Matched(Crashed(u)) BY <1>2, <1>4 DEF Matched
<1>6. ASSUME unshown # {} PROVE Matched(n)
  <2>1. unshown \subseteq Nat BY CountsAssumption DEF Contexts
  <2> HIDE DEF unshown
  <2>2. c \in unshown BY <1>6, <2>1, LeastNumber
  <2> USE DEF unshown
  <2>3. c \in Contexts /\ u.ctx[c].output = Null BY <2>2
  <2> HIDE DEF unshown, c
  <2>4. u.out[o] = Null BY <1>2 DEF Wired
  <2>5. /\ \A p \in Outputs : set.out[p] = IF p = o THEN c ELSE u.out[p]
        /\ \A d \in Contexts : set.ctx[d].output = IF d = c THEN o ELSE u.ctx[d].output
    BY <1>1, <2>3, <2>4, SetContextFacts, NullFresh
  <2>6. set \in ModelRecords(CyclesOver(Views, K), K)
    BY <1>1, <2>3, SetContextSound DEF Sound
  <2> HIDE DEF set
  <2>7. n.ctx = set.ctx /\ n.out = set.out BY <2>6 DEF ModelRecords
  <2> HIDE DEF n
  <2>8. /\ u.out \in [Outputs -> Contexts \cup {Null}] /\ u.ctx \in [Contexts -> ContextRecords]
    BY <1>1 DEF Sound, ModelRecords
  <2>9. ASSUME NEW p \in Outputs, n.out[p] # Null PROVE n.ctx[n.out[p]].output = p
    <3>1. CASE p = o BY <2>3, <2>5, <2>7, <3>1
    <3>2. CASE p # o
      <4>1. n.out[p] = u.out[p] /\ u.out[p] \in Contexts BY <2>5, <2>7, <2>8, <2>9, <3>2
      <4>2. u.ctx[u.out[p]].output = p BY <1>2, <4>1, NullFresh DEF Matched
      <4>3. u.out[p] # c BY <2>3, <4>2, NullFresh
      <4> QED BY <2>5, <2>7, <4>1, <4>2, <4>3
    <3> QED BY <3>1, <3>2
  <2>10. ASSUME NEW d \in Contexts, n.ctx[d].output # Null PROVE n.out[n.ctx[d].output] = d
    <3>1. CASE d = c BY <2>3, <2>5, <2>7, <3>1
    <3>2. CASE d # c
      <4>1. n.ctx[d].output = u.ctx[d].output BY <2>5, <2>7, <3>2
      <4>2. u.out[u.ctx[d].output] = d BY <1>2, <2>10, <4>1 DEF Matched
      <4>3. u.ctx[d].output \in Outputs BY <2>8, <2>10, <4>1 DEF ContextRecords
      <4>4. u.ctx[d].output # o BY <2>4, <4>2, NullFresh
      <4> QED BY <2>5, <2>7, <4>1, <4>2, <4>3, <4>4
    <3> QED BY <3>1, <3>2
  <2> QED BY <2>9, <2>10 DEF Matched
<1> QED BY <1>3, <1>5, <1>6

\* What the end of an output does to both sides of the relation.
LEMMA DestroyOutputFacts ==
  ASSUME NEW K, K \subseteq Views, NEW m \in Sound(K), NEW o \in Outputs, m.out[o] # Null
  PROVE  /\ \A p \in Outputs : DestroyOutput(m, o).out[p] = IF p = o THEN Null ELSE m.out[p]
         /\ \A d \in Contexts : DestroyOutput(m, o).ctx[d].output =
              IF d = m.out[o] THEN Null ELSE m.ctx[d].output
<1> DEFINE u == UpdateOutputs(m)
           c == m.out[o]
           ctx == [u.ctx EXCEPT ![c].output = Null]
           out == [u.out EXCEPT ![o] = Null]
<1>1. u \in Fit(K, m) BY UpdateOutputsStill, FitStill, FitSound
<1>2. u \in ModelRecords(CyclesOver(Views, K), K) /\ Wired(u, m) BY <1>1 DEF Fit, Sound
<1>3. DestroyOutput(m, o).ctx = ctx /\ DestroyOutput(m, o).out = out
  BY <1>2 DEF DestroyOutput, ModelRecords
<1>4. u.ctx \in [Contexts -> ContextRecords] /\ u.out \in [Outputs -> Contexts \cup {Null}]
  BY <1>2 DEF ModelRecords
<1>5. ASSUME NEW d \in Contexts PROVE ctx[d].output = IF d = c THEN Null ELSE m.ctx[d].output
  <2>1. u.ctx[d] \in ContextRecords /\ u.ctx[d].output = m.ctx[d].output
    BY <1>2, <1>4 DEF Wired
  <2> QED BY <1>4, <2>1 DEF ContextRecords
<1>6. \A p \in Outputs : out[p] = IF p = o THEN Null ELSE m.out[p]
  BY <1>2, <1>4 DEF Wired
<1> QED BY <1>3, <1>5, <1>6

\* An output that ends leaves the context it had.
LEMMA DestroyOutputMatched ==
  ASSUME NEW K, K \subseteq Views, NEW m \in Sound(K), Matched(m), NEW o \in Outputs,
         m.out[o] # Null
  PROVE  Matched(DestroyOutput(m, o))
<1> DEFINE n == DestroyOutput(m, o)
           c == m.out[o]
<1>1. /\ m.out \in [Outputs -> Contexts \cup {Null}] /\ m.ctx \in [Contexts -> ContextRecords]
  BY DEF Sound, ModelRecords
<1>2. c \in Contexts /\ m.ctx[c].output = o BY <1>1 DEF Matched
<1>3. /\ \A p \in Outputs : n.out[p] = IF p = o THEN Null ELSE m.out[p]
      /\ \A d \in Contexts : n.ctx[d].output = IF d = c THEN Null ELSE m.ctx[d].output
  BY DestroyOutputFacts
<1> HIDE DEF n, c
<1>4. ASSUME NEW p \in Outputs, n.out[p] # Null PROVE n.ctx[n.out[p]].output = p
  <2>1. p # o /\ n.out[p] = m.out[p] BY <1>3, <1>4
  <2>2. m.out[p] \in Contexts /\ m.ctx[m.out[p]].output = p BY <1>1, <1>4, <2>1 DEF Matched
  <2> QED BY <1>2, <1>3, <2>1, <2>2
<1>5. ASSUME NEW d \in Contexts, n.ctx[d].output # Null PROVE n.out[n.ctx[d].output] = d
  <2>1. d # c /\ n.ctx[d].output = m.ctx[d].output BY <1>3, <1>5
  <2>2. m.ctx[d].output \in Outputs /\ m.out[m.ctx[d].output] = d
    BY <1>1, <1>5, <2>1 DEF Matched, ContextRecords
  <2>3. m.ctx[d].output # o BY <2>1, <2>2 DEF c
  <2> QED BY <1>3, <2>1, <2>2, <2>3
<1> QED BY <1>4, <1>5 DEF Matched, n

\* With one output at most, a context takes it from the other context.
LEMMA ActivateContextMatched ==
  ASSUME NEW K, K \subseteq Views, NEW m \in Sound(K), Matched(m), NEW c \in Contexts,
         \A o, p \in Outputs : o = p
  PROVE  Matched(ActivateContext(m, c))
<1> DEFINE hidden == SE!FoldLeft(Unmap, m, Current(m).views.elements)
           there  == m.ctx[c].output
           o      == m.output
           set    == SetContext(hidden, o, c)
           shown  == [set EXCEPT !.prevContext = m.context, !.context = c, !.ctxIndex = c]
           last   == ActivateWorkspace(shown, m.ctx[c].active)
<1>1. m \in Fit(K, m) /\ m \in Still(K, m, m.focus) BY FitSound, FitStill
<1>2. /\ m.workspace \in Workspaces /\ m.context \in Contexts
      /\ m.ctx[c] \in ContextRecords /\ o \in Outputs \cup {Null}
  BY DEF Sound, ModelRecords
<1>3. hidden \in Fit(K, m) BY <1>1, <1>2, HideStill, FitStill, FitSound DEF Current
<1>4. there \in Outputs \cup {Null} /\ m.ctx[c].active \in Workspaces
  BY <1>2 DEF ContextRecords
<1>5. ~(there # Null /\ there # o /\ o # Null) BY <1>2, <1>4
<1>6. ActivateContext(m, c) = IF c = m.context THEN m ELSE IF o = Null THEN Crashed(hidden)
                              ELSE last
  BY <1>5 DEF ActivateContext
<1> HIDE DEF hidden, there
<1>7. Matched(Crashed(hidden))
  <2>1. Crashed(hidden) \in Fit(K, m) BY <1>3, CrashedFit
  <2> QED BY <2>1, WiredMatched DEF Fit
<1>8. ASSUME o # Null PROVE Matched(last)
  <2>1. hidden \in Sound(K) /\ Matched(hidden) BY <1>3, WiredMatched, FitSound DEF Fit
  <2>2. o \in Outputs BY <1>2, <1>8
  <2>3. set \in Sound(K) BY <2>1, <2>2, SetContextSound
  <2>4. /\ \A p \in Outputs : set.out[p] = IF p = o THEN c ELSE hidden.out[p]
        /\ \A d \in Contexts : set.ctx[d].output =
             IF d = c THEN o ELSE IF d = hidden.out[o] THEN Null ELSE hidden.ctx[d].output
    BY <2>1, <2>2, SetContextFacts
  <2> HIDE DEF set, o
  <2>5. ASSUME NEW d \in Contexts, set.ctx[d].output # Null PROVE d = c
    <3>1. SUFFICES ASSUME d # c PROVE FALSE OBVIOUS
    <3>2. d # hidden.out[o] /\ set.ctx[d].output = hidden.ctx[d].output BY <2>4, <2>5, <3>1
    <3>3. hidden.out[hidden.ctx[d].output] = d BY <2>1, <2>5, <3>2 DEF Matched
    <3>4. hidden.ctx[d].output \in Outputs
      BY <2>1, <2>5, <3>2 DEF Sound, ModelRecords, ContextRecords
    <3> QED BY <2>2, <3>2, <3>3, <3>4
  <2>6. Matched(set)
    <3>1. \A p \in Outputs : p = o BY <2>2
    <3> QED BY <2>2, <2>4, <2>5, <3>1 DEF Matched
  <2>7. shown \in Fit(K, set) BY <1>2, <2>3, ContextChosenFit
  <2>8. shown \in Sound(K) /\ Matched(shown) BY <2>3, <2>6, <2>7, WiredMatched, FitSound DEF Fit
  <2> HIDE DEF shown
  <2>9. last \in Fit(K, shown) BY <1>4, <2>8, FitSound, ActivateWorkspaceFit
  <2> QED BY <2>8, <2>9, WiredMatched DEF Fit
<1> QED BY <1>6, <1>7, <1>8

\* The constructor attaches nothing.
LEMMA ConstructedMatched ==
  ASSUME NEW kind
  PROVE  Matched(Constructed(kind))
BY DEF Matched, Constructed

\* The inductive invariant.
ModelAndOutputs == ModelInvariant /\ Matched(model)

\* Contexts and outputs match when the first output is registered.
THEOREM MatchedStarts == Init => ModelAndOutputs
<1> SUFFICES ASSUME NEW o \in Outputs, model = NewOutput(Constructed(InitialKind), o)
             PROVE  Matched(model)
  BY ModelStarts DEF Init, ModelAndOutputs
<1> DEFINE n == Constructed(InitialKind)
<1>1. n \in Sound({}) BY ConstructedSound, KindsAssumption
<1>2. Matched(n) BY ConstructedMatched
<1>3. n.out[o] = Null BY DEF Constructed
<1> HIDE DEF n
<1>4. Matched(NewOutput(n, o)) BY <1>1, <1>2, <1>3, NewOutputMatched
<1> QED BY <1>4 DEF n

\* The inductive step: unless contexts change places between outputs, every
\* handler leaves contexts and outputs matched.
THEOREM MatchedSteps ==
  ASSUME ContextsStay
  PROVE  ModelAndOutputs /\ [Next]_model => ModelAndOutputs'
<1> SUFFICES ASSUME Consistent(model), Matched(model), [Next]_model
             PROVE  Consistent(model') /\ Matched(model')
  BY DEF ModelAndOutputs, ModelInvariant
<1>1. CASE UNCHANGED model BY <1>1
<1>2. CASE Next
  <2>1. PICK K \in SUBSET Views :
           /\ model \in Sound(K)
           /\ Consistent(model')
           /\ \/ Wired(model', model)
              \/ \E c \in Contexts : SwitchContext(c)
              \/ \E o \in Outputs : AttachOutput(o) \/ DetachOutput(o)
    BY <1>2, StepKinds
  <2>2. CASE Wired(model', model) BY <2>1, <2>2, WiredMatched
  <2>3. ASSUME NEW c \in Contexts, SwitchContext(c) PROVE Matched(model')
    <3>1. \A o, p \in Outputs : o = p BY <2>3 DEF SwitchContext, Uses, ContextsStay
    <3> QED BY <2>1, <2>3, <3>1, ActivateContextMatched DEF SwitchContext
  <2>4. ASSUME NEW o \in Outputs, AttachOutput(o) PROVE Matched(model')
    BY <2>1, <2>4, NewOutputMatched DEF AttachOutput, Attached
  <2>5. ASSUME NEW o \in Outputs, DetachOutput(o) PROVE Matched(model')
    BY <2>1, <2>5, DestroyOutputMatched DEF DetachOutput, Attached
  <2> QED BY <2>1, <2>2, <2>3, <2>4, <2>5
<1> QED BY <1>1, <1>2

\* Matched is what the runs check.
LEMMA MatchedIs == ModelAndOutputs => ContextsMatchOutputs
BY DEF ModelAndOutputs, Matched, ContextsMatchOutputs, Attached

\* An output and the context on it point to each other, always, as long as
\* contexts do not change places between two outputs (run swapped_contexts shows
\* what happens when they do).
THEOREM OutputsMatchAlways ==
  ASSUME ContextsStay
  PROVE  Spec => []ContextsMatchOutputs
<1>1. Spec => []ModelAndOutputs BY MatchedStarts, MatchedSteps, PTL DEF Spec
<1> QED BY <1>1, MatchedIs, PTL

----------------------------------------------------------------------------
(* Cycles of known contents.                                               *)

\* A well formed cycle of the views M.
Has(c, M) == IsCycle(c, Views) /\ Range(c.elements) = M

\* An empty cycle stays as it is.
LEMMA EmptyStays ==
  ASSUME NEW c, IsCycle(c, Views), Size(c) = 0, NEW d \in Directions
  PROVE  /\ CycleActive(c, d) = c /\ DragActive(c, d) = c /\ RotateCycle(c, d) = c
<1>1. c.index = 0 /\ ~HasActive(c) BY CycleParts DEF HasActive
<1>2. PushActive(c) = c BY <1>1 DEF PushActive
<1>3. NextIndex(c, d) = 0 BY <1>1 DEF NextIndex, LastIndex
<1>4. c \in Cycles(Views) /\ Len(c.elements) = 0 BY DEF IsCycle, Size
<1>5. [c EXCEPT !.index = 0] = c BY <1>1, <1>4 DEF Cycles
<1>6. CycleActive(c, d) = c BY <1>2, <1>3, <1>5 DEF CycleActive
<1>7. DragActive(c, d) = c BY <1>1, <1>6 DEF DragActive
<1>8. TurnLeft(c.elements, 0, 0) = c.elements /\ TurnRight(c.elements, 0, 0) = c.elements
  BY <1>4, TurnNothing DEF Cycles
<1>9. [c EXCEPT !.elements = c.elements] = c BY <1>4 DEF Cycles
<1>10. RotateCycle(c, d) = c BY <1>4, <1>8, <1>9 DEF RotateCycle
<1> QED BY <1>6, <1>7, <1>10

\* What the methods of Cycle do to the contents.
LEMMA HasKept ==
  ASSUME NEW M, NEW c, Has(c, M), NEW e, NEW f, NEW d \in Directions, NEW n \in Nat, NEW k \in Nat
  PROVE  /\ Has(ActivateElement(c, e), M)
         /\ (n = 0 \/ n < Size(c)) => Has(ActivateAtIndex(c, n), M)
         /\ Has(SwapElements(c, e, f), M)
         /\ Has(ReverseCycle(c), M)
         /\ Has(RotateRange(c, d, n, k), M)
         /\ Has(RotateCycle(c, d), M)
         /\ Has(CycleActive(c, d), M)
         /\ Has(DragActive(c, d), M)
         /\ Has(RemoveElement(c, e), M \ {e})
         /\ e \in Views \ M => Has(InsertAtBack(c, e), M \cup {e})
<1>1. IsCycle(c, Views) /\ Range(c.elements) = M /\ c \in Cycles(Views) BY DEF Has, IsCycle
<1>2. Has(ActivateElement(c, e), M)
  BY <1>1, ActivateElementKeepsCycle, ElementHolds DEF Has, Holds
<1>3. ASSUME n = 0 \/ n < Size(c) PROVE Has(ActivateAtIndex(c, n), M)
  BY <1>1, <1>3, ActivateAtIndexKeepsCycle, AtIndexHolds DEF Has, Holds
<1>4. Has(SwapElements(c, e, f), M) BY <1>1, SwapKeepsCycle, SwapHolds DEF Has, Holds
<1>5. Has(ReverseCycle(c), M) BY <1>1, ReverseKeepsCycle, ReverseHolds DEF Has, Holds
<1>6. Has(RotateRange(c, d, n, k), M)
  BY <1>1, RotateRangeKeepsCycle, RotateRangeHolds DEF Has, Holds
<1>7. Size(c) \in Nat BY <1>1, CycleParts
<1>8. Has(RotateCycle(c, d), M)
  <2>1. CASE Size(c) = 0 BY <1>1, <2>1, EmptyStays
  <2>2. CASE Size(c) > 0 BY <1>1, <2>2, RotateKeepsCycle, RotateHolds DEF Has, Holds
  <2> QED BY <1>7, <2>1, <2>2
<1>9. Has(CycleActive(c, d), M)
  <2>1. CASE Size(c) = 0 BY <1>1, <2>1, EmptyStays
  <2>2. CASE Size(c) > 0 BY <1>1, <2>2, CycleActiveKeepsCycle, CycleHolds DEF Has, Holds
  <2> QED BY <1>7, <2>1, <2>2
<1>10. Has(DragActive(c, d), M)
  <2>1. CASE Size(c) = 0 BY <1>1, <2>1, EmptyStays
  <2>2. CASE Size(c) > 0 BY <1>1, <2>2, DragKeepsCycle, DragHolds DEF Has, Holds
  <2> QED BY <1>7, <2>1, <2>2
<1>11. Has(RemoveElement(c, e), M \ {e})
  BY <1>1, RemoveKeepsCycle, RemoveHolds DEF Has, Holds
<1>12. ASSUME e \in Views \ M PROVE Has(InsertAtBack(c, e), M \cup {e})
  BY <1>1, <1>12, InsertKeepsCycle, InsertHolds DEF Has, Holds, Contains
<1> QED BY <1>2, <1>3, <1>4, <1>5, <1>6, <1>8, <1>9, <1>10, <1>11, <1>12

----------------------------------------------------------------------------
(* The methods of a workspace, and where they leave the views.             *)

\* The workspaces with the views V, the icons I and the views T[l] in the track
\* of layer l.
Sited(V, I, T) == {w \in Shaped(Views, Views) :
                     /\ Has(w.views, V) /\ Has(w.icons, I)
                     /\ \A l \in TrackLayers : Has(w.tracks[l], T[l])}

\* The containers replaced by others of the same contents, or by none.
LEMMA SameSite ==
  ASSUME NEW V, NEW I, NEW T, NEW w \in Sited(V, I, T), NEW x \in Shaped(Views, Views),
         x.icons = w.icons, x.views = w.views \/ Has(x.views, V),
         \A l \in TrackLayers : x.tracks[l] = w.tracks[l] \/ Has(x.tracks[l], T[l])
  PROVE  x \in Sited(V, I, T)
BY DEF Sited

\* The active element of a track is a view.
LEMMA ActiveInTrack ==
  ASSUME NEW w \in Shaped(Views, Views), NEW l \in TrackLayers
  PROVE  ActiveElement(w.tracks[l]) \in Views \cup {Null}
BY OverFacts DEF Shaped, WorkspaceRecords

\* activate_track and the like.
LEMMA ActivatedSited ==
  ASSUME NEW V, NEW I, NEW T, NEW w \in Sited(V, I, T), NEW v \in Views \cup {Null}
  PROVE  Activated(w, v) \in Sited(V, I, T)
<1>1. w \in Shaped(Views, Views) BY DEF Sited
<1>2. Activated(w, v) \in Shaped(Views, Views) BY <1>1, ActivatedShape
<1> DEFINE views == IF v # Null THEN ActivateElement(w.views, v) ELSE w.views
           x == [w EXCEPT !.active = v, !.views = views]
<1>3. "Forward" \in Directions /\ 0 \in Nat BY DEF Directions
<1>4. Has(views, V) BY <1>3, HasKept DEF Sited
<1>5. Activated(w, v) = x BY DEF Activated
<1> HIDE DEF views
<1>6. x.icons = w.icons /\ x.views = views /\ x.tracks = w.tracks
  BY <1>1 DEF Shaped, WorkspaceRecords
<1> QED BY <1>2, <1>4, <1>5, <1>6, SameSite

\* activate_track moves nothing.
LEMMA ActivateTrackSited ==
  ASSUME NEW V, NEW I, NEW T, NEW w \in Sited(V, I, T), NEW l \in TrackLayers
  PROVE  ActivateTrack(w, l) \in Sited(V, I, T)
<1> DEFINE x == [w EXCEPT !.track = l, !.prevTrackLayer = w.trackLayer, !.trackLayer = l]
           a == ActiveElement(w.tracks[l])
<1>1. w \in Shaped(Views, Views) BY DEF Sited
<1>2. x \in Shaped(Views, Views) /\ x.icons = w.icons /\ x.views = w.views /\ x.tracks = w.tracks
  BY <1>1 DEF Shaped, WorkspaceRecords
<1>3. ActivateTrack(w, l) = Activated(x, a) BY DEF ActivateTrack
<1> HIDE DEF x
<1>4. x \in Sited(V, I, T) BY <1>2, SameSite
<1>5. a \in Views \cup {Null} BY <1>1, ActiveInTrack
<1> QED BY <1>3, <1>4, <1>5, ActivatedSited

\* Nor does cycle_track.
LEMMA CycleTrackSited ==
  ASSUME NEW V, NEW I, NEW T, NEW w \in Sited(V, I, T), NEW d
  PROVE  CycleTrack(w, d) \in Sited(V, I, T)
<1> DEFINE l == NextTrackLayer(w, d)
           x == [w EXCEPT !.trackLayer = l]
<1>1. w \in Shaped(Views, Views) BY DEF Sited
<1>2. l \in TrackLayers BY <1>1, NextTrackLayerType DEF Shaped, WorkspaceRecords
<1>3. CycleTrack(w, d) = ActivateTrack(x, l) BY DEF CycleTrack
<1> HIDE DEF l
<1>4. x \in Shaped(Views, Views) /\ x.icons = w.icons /\ x.views = w.views /\ x.tracks = w.tracks
  BY <1>1, <1>2 DEF Shaped, WorkspaceRecords
<1> HIDE DEF x
<1>5. x \in Sited(V, I, T) BY <1>4, SameSite
<1> QED BY <1>2, <1>3, <1>5, ActivateTrackSited

\* Nor does the choice of what takes over in a track.
LEMMA NextInTrackSited ==
  ASSUME NEW V, NEW I, NEW T, NEW w \in Sited(V, I, T), NEW l \in TrackLayers
  PROVE  NextInTrack(w, l) \in Sited(V, I, T)
<1> DEFINE x == [w EXCEPT !.active = Null]
<1>1. w \in Shaped(Views, Views) BY DEF Sited
<1>2. Activated(w, ActiveElement(w.tracks[l])) \in Sited(V, I, T)
  BY <1>1, ActiveInTrack, ActivatedSited
<1>3. x \in Shaped(Views, Views) /\ x.icons = w.icons /\ x.views = w.views /\ x.tracks = w.tracks
  BY <1>1 DEF Shaped, WorkspaceRecords
<1> HIDE DEF x
<1>4. x \in Sited(V, I, T) BY <1>3, SameSite
<1>5. CycleTrack(x, "Forward") \in Sited(V, I, T) BY <1>4, CycleTrackSited
<1> QED BY <1>2, <1>5 DEF NextInTrack, x

\* A track replaced.
LEMMA TrackReplaced ==
  ASSUME NEW V, NEW I, NEW T, NEW w \in Sited(V, I, T), NEW l \in TrackLayers, NEW c, NEW M,
         Has(c, M), M \subseteq Views, T \in [TrackLayers -> SUBSET Views]
  PROVE  [w EXCEPT !.tracks[l] = c] \in Sited(V, I, [T EXCEPT ![l] = M])
<1> DEFINE x == [w EXCEPT !.tracks[l] = c]
           tracks == [w.tracks EXCEPT ![l] = c]
<1>1. w \in Shaped(Views, Views) BY DEF Sited
<1>2. c \in CyclesOver(Views, Views) BY DEF Has, IsCycle, CyclesOver
<1>3. x = [w EXCEPT !.tracks = tracks] BY <1>1 DEF Shaped, WorkspaceRecords
<1>4. /\ tracks \in [TrackLayers -> CyclesOver(Views, Views)]
      /\ \A k \in TrackLayers : tracks[k] = IF k = l THEN c ELSE w.tracks[k]
  BY <1>1, <1>2 DEF Shaped, WorkspaceRecords
<1> HIDE DEF tracks, x
<1>5. x \in Shaped(Views, Views) /\ x.icons = w.icons /\ x.views = w.views /\ x.tracks = tracks
  BY <1>1, <1>3, <1>4 DEF Shaped, WorkspaceRecords
<1>6. \A k \in TrackLayers : [T EXCEPT ![l] = M][k] = IF k = l THEN M ELSE T[k]
  OBVIOUS
<1>7. \A k \in TrackLayers : Has(w.tracks[k], T[k]) BY DEF Sited
<1>8. \A k \in TrackLayers : Has(x.tracks[k], [T EXCEPT ![l] = M][k])
  BY <1>4, <1>5, <1>6, <1>7
<1>9. Has(x.views, V) /\ Has(x.icons, I) BY <1>5 DEF Sited
<1>10. x \in Sited(V, I, [T EXCEPT ![l] = M]) BY <1>5, <1>8, <1>9 DEF Sited
<1> QED BY <1>10 DEF x

\* The same replaced by one of the same contents.
LEMMA TrackChanged ==
  ASSUME NEW V, NEW I, NEW T, NEW w \in Sited(V, I, T), NEW l \in TrackLayers, NEW c,
         Has(c, T[l]), T \in [TrackLayers -> SUBSET Views]
  PROVE  [w EXCEPT !.tracks[l] = c] \in Sited(V, I, T)
<1>1. Range(c.elements) \subseteq Views BY RangeType DEF Has, IsCycle
<1>2. T[l] \subseteq Views BY <1>1 DEF Has
<1>3. [T EXCEPT ![l] = T[l]] = T OBVIOUS
<1> QED BY <1>2, <1>3, TrackReplaced

\* What a track holds are views.
LEMMA SiteParts ==
  ASSUME NEW V, NEW I, NEW T, NEW w \in Sited(V, I, T)
  PROVE  /\ w \in Shaped(Views, Views) /\ Has(w.views, V) /\ Has(w.icons, I)
         /\ \A l \in TrackLayers : Has(w.tracks[l], T[l]) /\ T[l] \subseteq Views
         /\ V \subseteq Views /\ I \subseteq Views
         /\ w.track \in TrackLayers /\ Has(CurrentTrack(w), T[w.track])
<1>1. \A c, M : Has(c, M) => M \subseteq Views
  <2> SUFFICES ASSUME NEW c, NEW M, Has(c, M) PROVE M \subseteq Views OBVIOUS
  <2>1. Range(c.elements) \subseteq Views BY RangeType DEF Has, IsCycle
  <2> QED BY <2>1 DEF Has
<1>2. /\ w \in Shaped(Views, Views) /\ Has(w.views, V) /\ Has(w.icons, I)
      /\ \A l \in TrackLayers : Has(w.tracks[l], T[l])
  BY DEF Sited
<1>3. w.track \in TrackLayers BY <1>2 DEF Shaped, WorkspaceRecords
<1> QED BY <1>1, <1>2, <1>3 DEF CurrentTrack

\* The current track changed in place, and what is active in it made active.
LEMMA RetrackedSited ==
  ASSUME NEW V, NEW I, NEW T, NEW w \in Sited(V, I, T), NEW c, Has(c, T[w.track]),
         T \in [TrackLayers -> SUBSET Views]
  PROVE  Activated([w EXCEPT !.tracks[w.track] = c], ActiveElement(c)) \in Sited(V, I, T)
<1>1. w.track \in TrackLayers BY SiteParts
<1>2. [w EXCEPT !.tracks[w.track] = c] \in Sited(V, I, T) BY <1>1, TrackChanged
<1>3. c \in Cycles(Views) BY DEF Has, IsCycle
<1>4. ActiveElement(c) \in Views \cup {Null} BY <1>3, ActiveOrNull, RangeType
<1> QED BY <1>2, <1>4, ActivatedSited

\* cycle_focus_track moves nothing.
LEMMA CycleFocusTrackSited ==
  ASSUME NEW V, NEW I, NEW T, NEW w \in Sited(V, I, T), NEW d \in Directions,
         T \in [TrackLayers -> SUBSET Views]
  PROVE  CycleFocusTrack(w, d) \in Sited(V, I, T)
<1>1. 0 \in Nat /\ Has(CurrentTrack(w), T[w.track]) BY SiteParts
<1>2. Has(CycleActive(CurrentTrack(w), d), T[w.track]) BY <1>1, HasKept
<1> QED BY <1>2, RetrackedSited DEF CycleFocusTrack

\* Nor does cycle_focus.
LEMMA CycleFocusSited ==
  ASSUME NEW V, NEW I, NEW T, NEW w \in Sited(V, I, T), NEW d \in Directions,
         T \in [TrackLayers -> SUBSET Views]
  PROVE  CycleFocus(w, d) \in Sited(V, I, T)
<1> DEFINE x == CycleTrack(w, d)
           i == NearEnd(x, d)
           c == CurrentTrack(x)
<1>1. x \in Sited(V, I, T) BY CycleTrackSited
<1> HIDE DEF x
<1>2. Has(c, T[x.track]) BY <1>1, SiteParts
<1>3. Size(c) \in Nat BY <1>2, CycleParts DEF Has
<1>4. i \in Nat /\ (i = 0 \/ i < Size(c)) BY <1>3 DEF NearEnd, LastIndex
<1> HIDE DEF i, c
<1>5. Has(ActivateAtIndex(c, i), T[x.track]) BY <1>2, <1>4, HasKept
<1>6. EnterNearEnd(x, d) \in Sited(V, I, T)
  BY <1>1, <1>5, RetrackedSited DEF EnterNearEnd, EnterTrack, c, i
<1> QED BY <1>1, <1>6, CycleFocusTrackSited DEF CycleFocus, x

\* Nor does drag_focus_track, but for the order.
LEMMA DragFocusTrackSited ==
  ASSUME NEW V, NEW I, NEW T, NEW w \in Sited(V, I, T), NEW d \in Directions,
         T \in [TrackLayers -> SUBSET Views]
  PROVE  DragFocusTrack(w, d) \in Sited(V, I, T)
<1> DEFINE dragged == DragActive(CurrentTrack(w), d)
           view    == ActiveElement(dragged)
           passed  == dragged.elements[CurrentTrack(w).index + 1]
           y == [w EXCEPT !.tracks[w.track] = dragged]
           x == [w EXCEPT !.tracks[w.track] = dragged, !.views = SwapElements(@, passed, view)]
<1>1. 0 \in Nat /\ Has(CurrentTrack(w), T[w.track]) /\ w.track \in TrackLayers
      /\ Has(w.views, V) /\ w \in Shaped(Views, Views)
  BY SiteParts
<1>2. Has(dragged, T[w.track]) BY <1>1, HasKept
<1>3. DragFocusTrack(w, d) = IF ~Layout(w).wraps /\ AtEnd(w, d) THEN w ELSE Activated(x, view)
  BY DEF DragFocusTrack
<1> HIDE DEF dragged
<1>4. dragged \in Cycles(Views) BY <1>2 DEF Has, IsCycle
<1>5. view \in Views \cup {Null} BY <1>4, ActiveOrNull, RangeType
<1> HIDE DEF view, passed
<1>6. Has(SwapElements(w.views, passed, view), V) BY <1>1, HasKept
<1>7. y \in Sited(V, I, T) BY <1>1, <1>2, TrackChanged
<1>8. y \in Shaped(Views, Views) BY <1>7, SiteParts
<1>9. x = [y EXCEPT !.views = SwapElements(w.views, passed, view)] /\ y.views = w.views
  BY <1>1 DEF Shaped, WorkspaceRecords
<1> HIDE DEF x, y
<1>10. SwapElements(w.views, passed, view) \in CyclesOver(Views, Views)
  BY <1>1, OverClosed DEF Shaped, WorkspaceRecords
<1>11. x \in Shaped(Views, Views) /\ x.icons = y.icons /\ x.tracks = y.tracks
       /\ x.views = SwapElements(w.views, passed, view)
  BY <1>8, <1>9, <1>10 DEF Shaped, WorkspaceRecords
<1>12. x \in Sited(V, I, T) BY <1>6, <1>7, <1>11, SameSite
<1> QED BY <1>3, <1>5, <1>12, ActivatedSited

\* The views reordered, and what is active among them made active.
LEMMA ReorderedSited ==
  ASSUME NEW V, NEW I, NEW T, NEW w \in Sited(V, I, T), NEW c, Has(c, V)
  PROVE  FromViews([w EXCEPT !.views = c]) \in Sited(V, I, T)
<1> DEFINE x == FromViews([w EXCEPT !.views = c])
<1>1. w \in Shaped(Views, Views) BY SiteParts
<1>2. c \in CyclesOver(Views, Views) BY RangeType DEF Has, IsCycle, CyclesOver
<1>3. x \in Shaped(Views, Views) BY <1>1, <1>2, ReorderedShape
<1>4. x.icons = w.icons /\ x.views = c /\ x.tracks = w.tracks
  BY <1>1 DEF Shaped, WorkspaceRecords, FromViews
<1> HIDE DEF x
<1>5. x \in Sited(V, I, T) BY <1>3, <1>4, SameSite
<1> QED BY <1>5 DEF x

\* reverse, rotate, shuffle_main and shuffle_stack keep the views.
LEMMA OrderSited ==
  ASSUME NEW V, NEW I, NEW T, NEW w \in Sited(V, I, T), NEW d \in Directions, NEW n \in Nat
  PROVE  /\ Reverse(w) \in Sited(V, I, T) /\ Rotate(w, d) \in Sited(V, I, T)
         /\ ShuffleMain(w, d, n) \in Sited(V, I, T) /\ ShuffleStack(w, d, n) \in Sited(V, I, T)
<1>1. Has(w.views, V) BY SiteParts
<1>2. Size(w.views) \in Nat /\ 0 \in Nat BY <1>1, CycleParts DEF Has
<1>3. /\ Has(ReverseCycle(w.views), V) /\ Has(RotateCycle(w.views, d), V)
      /\ Has(RotateRange(w.views, d, 0, n), V)
      /\ Has(RotateRange(w.views, d, n, Size(w.views)), V)
  BY <1>1, <1>2, HasKept
<1> QED BY <1>3, ReorderedSited DEF Reverse, Rotate, ShuffleMain, ShuffleStack

\* set_kind and the like are about the layout alone.
LEMMA KindSited ==
  ASSUME NEW V, NEW I, NEW T, NEW w \in Sited(V, I, T), NEW k \in DOMAIN LayoutKinds, NEW same
  PROVE  SetKind(w, k, same) \in Sited(V, I, T) /\ SetPrevKind(w) \in Sited(V, I, T)
<1> DEFINE x == SetKind(w, k, same)
           y == SetPrevKind(w)
<1>1. w \in Shaped(Views, Views) BY SiteParts
<1>2. x \in Shaped(Views, Views) /\ y \in Shaped(Views, Views) BY <1>1, KindShapes
<1>3. /\ x.icons = w.icons /\ x.views = w.views /\ x.tracks = w.tracks
      /\ y.icons = w.icons /\ y.views = w.views /\ y.tracks = w.tracks
  BY <1>1 DEF Shaped, WorkspaceRecords, SetKind, SetPrevKind
<1> HIDE DEF x, y
<1>4. x \in Sited(V, I, T) /\ y \in Sited(V, I, T) BY <1>2, <1>3, SameSite
<1> QED BY <1>4 DEF x, y

\* activate_view moves nothing.
LEMMA ActivateViewSited ==
  ASSUME NEW V, NEW I, NEW T \in [TrackLayers -> SUBSET Views], NEW w \in Sited(V, I, T),
         NEW v \in Views, NEW l \in TrackLayers
  PROVE  ActivateView(w, v, l) \in Sited(V, I, T)
<1> DEFINE y == [w EXCEPT !.tracks[l] = ActivateElement(@, v)]
           x == [w EXCEPT !.views = ActivateElement(@, v),
                          !.tracks[l] = ActivateElement(@, v), !.active = v]
<1>1. w \in Shaped(Views, Views) /\ Has(w.views, V) /\ Has(w.tracks[l], T[l]) BY SiteParts
<1>2. "Forward" \in Directions /\ 0 \in Nat BY DEF Directions
<1>3. Has(ActivateElement(w.views, v), V) /\ Has(ActivateElement(w.tracks[l], v), T[l])
  BY <1>1, <1>2, HasKept
<1>4. y \in Sited(V, I, T) BY <1>3, TrackChanged
<1>5. ActivateView(w, v, l) = IF Contains(w.views, v) THEN x ELSE w BY DEF ActivateView
<1>6. ActivateView(w, v, l) \in Shaped(Views, Views) BY <1>1, ActivateViewShape
<1>7. /\ x.icons = y.icons /\ x.views = ActivateElement(w.views, v) /\ x.tracks = y.tracks
  BY <1>1 DEF Shaped, WorkspaceRecords
<1> HIDE DEF x, y
<1>8. x \in Shaped(Views, Views) => x \in Sited(V, I, T) BY <1>3, <1>4, <1>7, SameSite
<1> QED BY <1>5, <1>6, <1>8

\* Views and icons replaced, the tracks as they are.
LEMMA Resited ==
  ASSUME NEW V, NEW I, NEW T, NEW w \in Sited(V, I, T), NEW x \in Shaped(Views, Views),
         NEW W, NEW J, Has(x.views, W), Has(x.icons, J), x.tracks = w.tracks
  PROVE  x \in Sited(W, J, T)
BY DEF Sited

\* add_view puts the view among the views and into the track of its layer.
LEMMA AddViewSited ==
  ASSUME NEW V, NEW I, NEW T \in [TrackLayers -> SUBSET Views], NEW w \in Sited(V, I, T),
         NEW v \in Views, NEW l \in TrackLayers, v \notin V, v \notin T[l]
  PROVE  AddView(w, v, l) \in Sited(V \cup {v}, I, [T EXCEPT ![l] = T[l] \cup {v}])
<1> DEFINE M == T[l] \cup {v}
           c == InsertAtBack(w.tracks[l], v)
           y == [w EXCEPT !.tracks[l] = c]
           x == AddView(w, v, l)
<1>1. w \in Shaped(Views, Views) /\ Has(w.views, V) /\ Has(w.tracks[l], T[l]) /\ Has(w.icons, I)
  BY SiteParts
<1>2. "Forward" \in Directions /\ 0 \in Nat BY DEF Directions
<1>3. Has(InsertAtBack(w.views, v), V \cup {v}) /\ Has(c, M) BY <1>1, <1>2, HasKept
<1>4. ~Contains(w.views, v) BY <1>1 DEF Has, Contains
<1>5. x \in Shaped(Views, Views) BY <1>1, AddViewShape
<1>6. x.icons = y.icons /\ x.views = InsertAtBack(w.views, v) /\ x.tracks = y.tracks /\ y.icons = w.icons
  BY <1>1, <1>4 DEF Shaped, WorkspaceRecords, AddView
<1> HIDE DEF x, c
<1>7. M \subseteq Views OBVIOUS
<1> HIDE DEF M
<1>8. y \in Sited(V, I, [T EXCEPT ![l] = M]) BY <1>3, <1>7, TrackReplaced
<1> HIDE DEF y
<1>9. x \in Sited(V \cup {v}, I, [T EXCEPT ![l] = M]) BY <1>1, <1>3, <1>5, <1>6, <1>8, Resited
<1> QED BY <1>9 DEF x, M

\* add_view_to_track puts it into the track alone.
LEMMA AddToTrackSited ==
  ASSUME NEW V, NEW I, NEW T \in [TrackLayers -> SUBSET Views], NEW w \in Sited(V, I, T),
         NEW v \in Views, NEW l \in TrackLayers, NEW shift
  PROVE  AddViewToTrack(w, v, l, shift) \in Sited(V, I, [T EXCEPT ![l] = T[l] \cup {v}])
<1> DEFINE M == T[l] \cup {v}
           c == InsertAtBack(w.tracks[l], v)
           y == [w EXCEPT !.tracks[l] = c]
           x == AddViewToTrack(w, v, l, shift)
<1>1. w \in Shaped(Views, Views) /\ Has(w.views, V) /\ Has(w.tracks[l], T[l]) /\ Has(w.icons, I)
  BY SiteParts
<1>2. CASE v \in T[l]
  <2>1. T[l] \cup {v} = T[l] /\ [T EXCEPT ![l] = T[l]] = T BY <1>2
  <2>2. x = w BY <1>1, <1>2 DEF AddViewToTrack, Has, Contains
  <2> QED BY <2>1, <2>2
<1>3. CASE v \notin T[l]
  <2>1. "Forward" \in Directions /\ 0 \in Nat BY DEF Directions
  <2>2. Has(c, M) BY <1>1, <1>3, <2>1, HasKept
  <2>3. ~Contains(w.tracks[l], v) BY <1>1, <1>3 DEF Has, Contains
  <2>4. x \in Shaped(Views, Views) BY <1>1, AddViewToTrackShape
  <2>5. x.icons = w.icons /\ x.views = w.views /\ x.tracks = y.tracks
        /\ y.icons = w.icons /\ y.views = w.views
    BY <1>1, <2>3 DEF Shaped, WorkspaceRecords, AddViewToTrack
  <2> HIDE DEF x, c
  <2>6. M \subseteq Views OBVIOUS
  <2> HIDE DEF M
  <2>7. y \in Sited(V, I, [T EXCEPT ![l] = M]) BY <2>2, <2>6, TrackReplaced
  <2> HIDE DEF y
  <2>8. x \in Sited(V, I, [T EXCEPT ![l] = M]) BY <2>4, <2>5, <2>7, SameSite
  <2> QED BY <2>8 DEF x, M
<1> QED BY <1>2, <1>3

\* remove_view_from_track takes it out of the track alone.
LEMMA RemoveFromTrackSited ==
  ASSUME NEW V, NEW I, NEW T \in [TrackLayers -> SUBSET Views], NEW w \in Sited(V, I, T),
         NEW v, NEW l \in TrackLayers
  PROVE  RemoveViewFromTrack(w, v, l) \in Sited(V, I, [T EXCEPT ![l] = T[l] \ {v}])
<1> DEFINE M == T[l] \ {v}
           c == RemoveElement(w.tracks[l], v)
           y == [w EXCEPT !.tracks[l] = c]
<1>1. Has(w.tracks[l], T[l]) BY SiteParts
<1>2. "Forward" \in Directions /\ 0 \in Nat BY DEF Directions
<1>3. Has(c, M) BY <1>1, <1>2, HasKept
<1>4. M \subseteq Views OBVIOUS
<1>5. RemoveViewFromTrack(w, v, l) = NextInTrack(y, l) BY DEF RemoveViewFromTrack
<1> HIDE DEF M, c
<1>6. y \in Sited(V, I, [T EXCEPT ![l] = M]) BY <1>3, <1>4, TrackReplaced
<1> HIDE DEF y
<1>7. NextInTrack(y, l) \in Sited(V, I, [T EXCEPT ![l] = M]) BY <1>6, NextInTrackSited
<1> QED BY <1>5, <1>7 DEF M

\* remove_view takes the view out of the views, the icons and the track.
LEMMA RemoveViewSited ==
  ASSUME NEW V, NEW I, NEW T \in [TrackLayers -> SUBSET Views], NEW w \in Sited(V, I, T),
         NEW v, NEW l \in TrackLayers
  PROVE  RemoveView(w, v, l) \in Sited(V \ {v}, I \ {v}, [T EXCEPT ![l] = T[l] \ {v}])
<1> DEFINE x == [w EXCEPT !.icons = RemoveElement(@, v), !.views = RemoveElement(@, v)]
<1>1. w \in Shaped(Views, Views) /\ Has(w.views, V) /\ Has(w.icons, I) BY SiteParts
<1>2. /\ RemoveElement(w.views, v) \in CyclesOver(Views, Views)
      /\ RemoveElement(w.icons, v) \in CyclesOver(Views, Views)
  BY <1>1, OverClosed DEF Shaped, WorkspaceRecords
<1>3. /\ x \in Shaped(Views, Views) /\ x.tracks = w.tracks
      /\ x.views = RemoveElement(w.views, v) /\ x.icons = RemoveElement(w.icons, v)
  BY <1>1, <1>2 DEF Shaped, WorkspaceRecords
<1>4. "Forward" \in Directions /\ 0 \in Nat BY DEF Directions
<1>5. Has(RemoveElement(w.views, v), V \ {v}) /\ Has(RemoveElement(w.icons, v), I \ {v})
  BY <1>1, <1>4, HasKept
<1>6. RemoveView(w, v, l) = RemoveViewFromTrack(x, v, l) BY DEF RemoveView
<1> HIDE DEF x
<1> DEFINE W == V \ {v}
           J == I \ {v}
<1>7. x \in Sited(W, J, T) BY <1>3, <1>5, Resited
<1> HIDE DEF W, J
<1>8. RemoveViewFromTrack(x, v, l) \in Sited(W, J, [T EXCEPT ![l] = T[l] \ {v}])
  BY <1>7, RemoveFromTrackSited
<1> QED BY <1>6, <1>8 DEF W, J

\* The icons replaced.
LEMMA IconsReplaced ==
  ASSUME NEW V, NEW I, NEW T, NEW w \in Sited(V, I, T), NEW c, NEW J, Has(c, J)
  PROVE  [w EXCEPT !.icons = c] \in Sited(V, J, T)
<1> DEFINE x == [w EXCEPT !.icons = c]
<1>1. w \in Shaped(Views, Views) /\ Has(w.views, V) BY SiteParts
<1>2. c \in CyclesOver(Views, Views) BY RangeType DEF Has, IsCycle, CyclesOver
<1>3. x \in Shaped(Views, Views) /\ x.tracks = w.tracks /\ x.views = w.views /\ x.icons = c
  BY <1>1, <1>2 DEF Shaped, WorkspaceRecords
<1> HIDE DEF x
<1>4. x \in Sited(V, J, T) BY <1>1, <1>3, Resited
<1> QED BY <1>4 DEF x

\* change_view_track to another layer moves the view from the one track to the
\* other.
LEMMA ChangeTrackSited ==
  ASSUME NEW V, NEW I, NEW T \in [TrackLayers -> SUBSET Views], NEW w \in Sited(V, I, T),
         NEW v \in Views, NEW from \in TrackLayers, NEW to \in TrackLayers, NEW shift
  PROVE  /\ from = to => ChangeViewTrack(w, v, from, to, shift) \in Sited(V, I, T)
         /\ from # to => ChangeViewTrack(w, v, from, to, shift)
                           \in Sited(V, I, [T EXCEPT ![from] = T[from] \ {v}, ![to] = T[to] \cup {v}])
<1>1. CASE from = to
  <2> DEFINE x == [w EXCEPT !.trackLayer = to, !.active = v]
  <2>1. w \in Shaped(Views, Views) BY SiteParts
  <2>2. x \in Shaped(Views, Views) /\ x.icons = w.icons /\ x.views = w.views /\ x.tracks = w.tracks
    BY <2>1 DEF Shaped, WorkspaceRecords
  <2>3. ChangeViewTrack(w, v, from, to, shift) = IF shift THEN x ELSE w
    BY <1>1 DEF ChangeViewTrack
  <2> HIDE DEF x
  <2>4. x \in Sited(V, I, T) BY <2>2, SameSite
  <2> QED BY <1>1, <2>3, <2>4
<1>2. CASE from # to
  <2> DEFINE r == RemoveViewFromTrack(w, v, from)
             U == [T EXCEPT ![from] = T[from] \ {v}]
  <2>1. r \in Sited(V, I, U) BY RemoveFromTrackSited
  <2>2. U \in [TrackLayers -> SUBSET Views] /\ U[to] = T[to] BY <1>2
  <2>3. ChangeViewTrack(w, v, from, to, shift) = AddViewToTrack(r, v, to, shift)
    BY <1>2 DEF ChangeViewTrack
  <2>4. [U EXCEPT ![to] = U[to] \cup {v}]
          = [T EXCEPT ![from] = T[from] \ {v}, ![to] = T[to] \cup {v}]
    BY <1>2
  <2> HIDE DEF r, U
  <2>5. AddViewToTrack(r, v, to, shift) \in Sited(V, I, [U EXCEPT ![to] = U[to] \cup {v}])
    BY <2>1, <2>2, AddToTrackSited
  <2> QED BY <1>2, <2>3, <2>4, <2>5
<1> QED BY <1>1, <1>2

\* view_to_icon leaves an icon alone.
LEMMA IconStaysSited ==
  ASSUME NEW V, NEW I, NEW T, NEW w \in Sited(V, I, T), NEW v, NEW l, v \in I
  PROVE  ViewToIcon(w, v, l) = w
<1>1. Has(w.icons, I) BY SiteParts
<1>2. Contains(w.icons, v) BY <1>1 DEF Has, Contains
<1> QED BY <1>2 DEF ViewToIcon

\* view_to_icon makes a view that is not one an icon.
LEMMA ToIconSited ==
  ASSUME NEW V, NEW I, NEW T \in [TrackLayers -> SUBSET Views], NEW w \in Sited(V, I, T),
         NEW v \in Views, NEW l \in TrackLayers, v \notin I
  PROVE  ViewToIcon(w, v, l) \in Sited(V \ {v}, I \cup {v}, [T EXCEPT ![l] = T[l] \ {v}])
<1> DEFINE r == RemoveView(w, v, l)
           W == V \ {v}
           J == I \ {v}
           U == [T EXCEPT ![l] = T[l] \ {v}]
           c == InsertAtBack(r.icons, v)
           M == I \cup {v}
<1>1. Has(w.icons, I) BY SiteParts
<1>2. ~Contains(w.icons, v) BY <1>1 DEF Has, Contains
<1>3. r \in Sited(W, J, U) BY RemoveViewSited
<1>4. ViewToIcon(w, v, l) = [r EXCEPT !.icons = c] BY <1>2 DEF ViewToIcon
<1>5. J \cup {v} = M /\ v \in Views \ J OBVIOUS
<1>6. "Forward" \in Directions /\ 0 \in Nat BY DEF Directions
<1> HIDE DEF r, W, J, U
<1>7. Has(r.icons, J) BY <1>3, SiteParts
<1>8. Has(c, J \cup {v}) BY <1>5, <1>6, <1>7, HasKept
<1>9. Has(c, M) BY <1>5, <1>8
<1> HIDE DEF c, M
<1>10. [r EXCEPT !.icons = c] \in Sited(W, M, U) BY <1>3, <1>9, IconsReplaced
<1> QED BY <1>4, <1>10 DEF W, U, M

\* icon_to_view makes an icon a view again.
LEMMA ToViewSited ==
  ASSUME NEW V, NEW I, NEW T \in [TrackLayers -> SUBSET Views], NEW w \in Sited(V, I, T),
         NEW v \in Views, NEW l \in TrackLayers, v \notin T[l], v \in I => v \notin V
  PROVE  /\ v \notin I => IconToView(w, v, l) = w
         /\ v \in I => IconToView(w, v, l)
                         \in Sited(V \cup {v}, I \ {v}, [T EXCEPT ![l] = T[l] \cup {v}])
<1>1. Has(w.icons, I) BY SiteParts
<1>2. Contains(w.icons, v) <=> v \in I BY <1>1 DEF Has, Contains
<1>3. ASSUME v \in I
      PROVE  IconToView(w, v, l) \in Sited(V \cup {v}, I \ {v}, [T EXCEPT ![l] = T[l] \cup {v}])
  <2> DEFINE c == RemoveElement(w.icons, v)
             M == I \ {v}
             x == [w EXCEPT !.icons = c]
  <2>1. "Forward" \in Directions /\ 0 \in Nat BY DEF Directions
  <2>2. Has(c, M) BY <1>1, <2>1, HasKept
  <2>3. IconToView(w, v, l) = AddView(x, v, l) BY <1>2, <1>3 DEF IconToView
  <2> HIDE DEF c, M
  <2>4. x \in Sited(V, M, T) BY <2>2, IconsReplaced
  <2> HIDE DEF x
  <2>5. AddView(x, v, l) \in Sited(V \cup {v}, M, [T EXCEPT ![l] = T[l] \cup {v}])
    BY <1>3, <2>4, AddViewSited
  <2> QED BY <2>3, <2>5 DEF M
<1> QED BY <1>2, <1>3 DEF IconToView

----------------------------------------------------------------------------
(* Where the views of a model are.                                         *)

\* The place of a view: among the views or the icons of its workspace, or in
\* no container, with what the program says of its workspace and its state.
Spots == [in : {"view", "icon", "none"}, ws : Workspaces \cup {Null},
           state : {"gone", "mapped", "unmapped"}]

ViewsAt(P, w)     == {v \in Views : P[v].ws = w /\ P[v].in = "view"}
IconsAt(P, w)     == {v \in Views : P[v].ws = w /\ P[v].in = "icon"}
TracksAt(m, P, w) == [l \in TrackLayers |-> {v \in ViewsAt(P, w) : m.view[v].layer = l}]
Site(m, P, w)     == Sited(ViewsAt(P, w), IconsAt(P, w), TracksAt(m, P, w))

\* The record of a view that is not fullscreen, in its place: its layer follows
\* from its placement.
InPlace(r, p) == /\ r.ws = p.ws /\ r.state = p.state /\ ~r.fullscreen
                 /\ r.layer = IF r.free THEN FREE ELSE TILE
                 /\ r.ws = Null => ~r.free

\* Every view is where P says, and every workspace holds the views and the icons
\* P says, the views in the tracks of their layers.
Placed(m, P) == /\ \A v \in Views : InPlace(m.view[v], P[v])
                /\ \A w \in Workspaces : m.ws[w] \in Site(m, P, w)

Sits(K, l, f, P) == {m \in Still(K, l, f) : Placed(m, P)}
Home(K, l, P)    == {m \in Fit(K, l) : Placed(m, P)}

\* Somebody's focus.
LEMMA HomeSits ==
  ASSUME NEW K, NEW l, NEW P, NEW m
  PROVE  /\ m \in Home(K, l, P) => m \in Sits(K, l, m.focus, P)
         /\ \A f : m \in Sits(K, l, f, P) => m \in Home(K, l, P)
BY FitStill DEF Sits, Home

\* The parts of a site.
LEMMA SiteTypes ==
  ASSUME NEW m, NEW P, NEW w
  PROVE  /\ TracksAt(m, P, w) \in [TrackLayers -> SUBSET Views]
         /\ \A l \in TrackLayers : TracksAt(m, P, w)[l] = {v \in ViewsAt(P, w) : m.view[v].layer = l}
         /\ ViewsAt(P, w) \subseteq Views /\ IconsAt(P, w) \subseteq Views
BY DEF TracksAt, ViewsAt, IconsAt

\* Models and places that differ in the view v alone.
DifferIn(v, n, Q, m, P) == \A u \in Views \ {v} : n.view[u] = m.view[u] /\ Q[u] = P[u]

\* A workspace where v neither was nor is has the same site.
LEMMA SiteElsewhere ==
  ASSUME NEW v \in Views, NEW n, NEW Q, NEW m, NEW P, DifferIn(v, n, Q, m, P), NEW w,
         P[v].ws # w \/ P[v].in = "none", Q[v].ws # w \/ Q[v].in = "none"
  PROVE  Site(n, Q, w) = Site(m, P, w)
<1>1. ViewsAt(Q, w) = ViewsAt(P, w) /\ IconsAt(Q, w) = IconsAt(P, w)
  BY DEF DifferIn, ViewsAt, IconsAt
<1>2. v \notin ViewsAt(P, w) BY DEF ViewsAt
<1>3. \A u \in ViewsAt(P, w) : n.view[u] = m.view[u] BY <1>2 DEF DifferIn, ViewsAt
<1>4. \A l : {u \in ViewsAt(Q, w) : n.view[u].layer = l} = {u \in ViewsAt(P, w) : m.view[u].layer = l}
  BY <1>1, <1>3
<1>5. TracksAt(n, Q, w) = TracksAt(m, P, w) BY <1>4 DEF TracksAt
<1> QED BY <1>1, <1>5 DEF Site

\* The site of a workspace to which v has come, or in which it still is.
LEMMA SiteEntered ==
  ASSUME NEW v \in Views, NEW n, NEW Q, NEW m, NEW P, DifferIn(v, n, Q, m, P), NEW w,
         NEW l \in TrackLayers, n.view[v].layer = l, Q[v].ws = w, Q[v].in = "view",
         NEW T, T = TracksAt(m, P, w)
  PROVE  /\ ViewsAt(Q, w) = ViewsAt(P, w) \cup {v} /\ IconsAt(Q, w) = IconsAt(P, w) \ {v}
         /\ v \notin ViewsAt(P, w) => TracksAt(n, Q, w) = [T EXCEPT ![l] = T[l] \cup {v}]
         /\ v \in ViewsAt(P, w) /\ m.view[v].layer = l => TracksAt(n, Q, w) = T
         /\ \A k \in TrackLayers :
              v \in ViewsAt(P, w) /\ m.view[v].layer = k /\ k # l =>
                TracksAt(n, Q, w) = [T EXCEPT ![k] = T[k] \ {v}, ![l] = T[l] \cup {v}]
<1>1. ViewsAt(Q, w) = ViewsAt(P, w) \cup {v} /\ IconsAt(Q, w) = IconsAt(P, w) \ {v}
  BY DEF DifferIn, ViewsAt, IconsAt
<1>2. \A u \in Views \ {v} : n.view[u] = m.view[u] BY DEF DifferIn
<1>3. ViewsAt(P, w) \subseteq Views BY DEF ViewsAt
<1> DEFINE U == TracksAt(n, Q, w)
<1>4. /\ U \in [TrackLayers -> SUBSET Views] /\ T \in [TrackLayers -> SUBSET Views]
      /\ \A j \in TrackLayers : /\ U[j] = {u \in ViewsAt(P, w) \cup {v} : n.view[u].layer = j}
                                /\ T[j] = {u \in ViewsAt(P, w) : m.view[u].layer = j}
  BY <1>1, SiteTypes
<1> HIDE DEF U
<1>5. ASSUME v \notin ViewsAt(P, w) PROVE U = [T EXCEPT ![l] = T[l] \cup {v}]
  <2>1. ASSUME NEW j \in TrackLayers PROVE U[j] = IF j = l THEN T[l] \cup {v} ELSE T[j]
    <3>1. \A u : u \in U[j] <=> (u \in ViewsAt(P, w) \/ u = v) /\ n.view[u].layer = j BY <1>4
    <3>2. \A u : u \in T[j] <=> u \in ViewsAt(P, w) /\ m.view[u].layer = j BY <1>4
    <3>3. \A u \in ViewsAt(P, w) : n.view[u] = m.view[u] BY <1>2, <1>3, <1>5
    <3>4. \A u : u \in U[j] <=> u \in T[j] \/ (u = v /\ j = l) BY <3>1, <3>2, <3>3
    <3> QED BY <3>4
  <2> QED BY <1>4, <2>1
<1>6. ASSUME v \in ViewsAt(P, w), m.view[v].layer = l PROVE U = T
  <2>1. ASSUME NEW j \in TrackLayers PROVE U[j] = T[j]
    <3>1. \A u : u \in U[j] <=> u \in ViewsAt(P, w) /\ n.view[u].layer = j BY <1>4, <1>6
    <3>2. \A u : u \in T[j] <=> u \in ViewsAt(P, w) /\ m.view[u].layer = j BY <1>4
    <3>3. \A u \in ViewsAt(P, w) : n.view[u].layer = m.view[u].layer BY <1>2, <1>3, <1>6
    <3> QED BY <3>1, <3>2, <3>3
  <2> QED BY <1>4, <2>1
<1>7. ASSUME v \in ViewsAt(P, w), NEW k \in TrackLayers, m.view[v].layer = k, k # l
      PROVE  U = [T EXCEPT ![k] = T[k] \ {v}, ![l] = T[l] \cup {v}]
  <2>1. ASSUME NEW j \in TrackLayers
        PROVE  U[j] = IF j = l THEN T[l] \cup {v} ELSE IF j = k THEN T[k] \ {v} ELSE T[j]
    <3>1. \A u : u \in U[j] <=> u \in ViewsAt(P, w) /\ n.view[u].layer = j BY <1>4, <1>7
    <3>2. \A u : u \in T[j] <=> u \in ViewsAt(P, w) /\ m.view[u].layer = j BY <1>4
    <3>3. \A u \in ViewsAt(P, w) : u # v => n.view[u] = m.view[u] BY <1>2, <1>3
    <3>4. \A u : u \in U[j] <=> IF u = v THEN j = l ELSE u \in T[j]
      BY <1>7, <3>1, <3>2, <3>3
    <3>5. v \in T[j] <=> j = k BY <1>7, <3>2
    <3> QED BY <1>7, <3>4, <3>5
  <2> QED BY <1>4, <1>7, <2>1
<1> QED BY <1>1, <1>5, <1>6, <1>7 DEF U

\* The site of a workspace that v has left, or in which it became an icon.
LEMMA SiteLeft ==
  ASSUME NEW v \in Views, NEW n, NEW Q, NEW m, NEW P, DifferIn(v, n, Q, m, P), NEW w,
         NEW l \in TrackLayers, m.view[v].layer = l, v \notin ViewsAt(Q, w),
         NEW T, T = TracksAt(m, P, w)
  PROVE  /\ ViewsAt(Q, w) = ViewsAt(P, w) \ {v}
         /\ IconsAt(Q, w) = IF v \in IconsAt(Q, w) THEN IconsAt(P, w) \cup {v} ELSE IconsAt(P, w) \ {v}
         /\ TracksAt(n, Q, w) = [T EXCEPT ![l] = T[l] \ {v}]
<1>1. /\ ViewsAt(Q, w) = ViewsAt(P, w) \ {v}
      /\ IconsAt(Q, w) = IF v \in IconsAt(Q, w) THEN IconsAt(P, w) \cup {v} ELSE IconsAt(P, w) \ {v}
  BY DEF DifferIn, ViewsAt, IconsAt
<1>2. \A u \in Views \ {v} : n.view[u] = m.view[u] BY DEF DifferIn
<1>3. ViewsAt(P, w) \subseteq Views BY DEF ViewsAt
<1> DEFINE U == TracksAt(n, Q, w)
<1>4. /\ U \in [TrackLayers -> SUBSET Views] /\ T \in [TrackLayers -> SUBSET Views]
      /\ \A j \in TrackLayers : /\ U[j] = {u \in ViewsAt(P, w) \ {v} : n.view[u].layer = j}
                                /\ T[j] = {u \in ViewsAt(P, w) : m.view[u].layer = j}
  BY <1>1, SiteTypes
<1> HIDE DEF U
<1>5. ASSUME NEW j \in TrackLayers PROVE U[j] = IF j = l THEN T[l] \ {v} ELSE T[j]
  <2>1. \A u : u \in U[j] <=> u \in ViewsAt(P, w) /\ u # v /\ n.view[u].layer = j BY <1>4
  <2>2. \A u : u \in T[j] <=> u \in ViewsAt(P, w) /\ m.view[u].layer = j BY <1>4
  <2>3. \A u \in ViewsAt(P, w) : u # v => n.view[u] = m.view[u] BY <1>2, <1>3
  <2>4. \A u : u \in U[j] <=> u \in T[j] /\ u # v BY <2>1, <2>2, <2>3
  <2>5. j # l => v \notin T[j] BY <2>2
  <2> QED BY <2>4, <2>5
<1>6. U = [T EXCEPT ![l] = T[l] \ {v}] BY <1>4, <1>5
<1> QED BY <1>1, <1>6 DEF U

\* r is as o in everything a place depends on.
Alike(r, o) == /\ r.ws = o.ws /\ r.state = o.state /\ r.layer = o.layer
               /\ r.free = o.free /\ r.fullscreen = o.fullscreen

\* Where the views are does not depend on the rest.
LEMMA SamePlaces ==
  ASSUME NEW P, NEW m, Placed(m, P), NEW n, n.ws = m.ws,
         \A v \in Views : Alike(n.view[v], m.view[v])
  PROVE  Placed(n, P)
<1>1. \A v \in Views : InPlace(n.view[v], P[v]) BY DEF Placed, InPlace, Alike
<1>2. ASSUME NEW w \in Workspaces PROVE Site(n, P, w) = Site(m, P, w)
  <2>1. \A k : {v \in ViewsAt(P, w) : n.view[v].layer = k} = {v \in ViewsAt(P, w) : m.view[v].layer = k}
    BY DEF Alike, ViewsAt
  <2>2. TracksAt(n, P, w) = TracksAt(m, P, w) BY <2>1 DEF TracksAt
  <2> QED BY <2>2 DEF Site
<1> QED BY <1>1, <1>2 DEF Placed

\* A workspace may be replaced by another of the same site.
LEMMA SetWsSits ==
  ASSUME NEW K, NEW l, NEW f, NEW P, NEW m \in Sits(K, l, f, P), NEW w \in Workspaces,
         NEW x \in Shaped(Views, K), x \in Site(m, P, w)
  PROVE  [m EXCEPT !.ws[w] = x] \in Sits(K, l, f, P)
<1> DEFINE n == [m EXCEPT !.ws[w] = x]
<1>1. m \in Still(K, l, f) /\ Placed(m, P) BY DEF Sits
<1>2. n \in Still(K, l, f) BY <1>1, SetWs
<1>3. m \in ModelRecords(CyclesOver(Views, K), K) BY <1>1 DEF Still, Fit, Sound
<1>4. n.view = m.view /\ \A u \in Workspaces : n.ws[u] = IF u = w THEN x ELSE m.ws[u]
  BY <1>3 DEF ModelRecords
<1> HIDE DEF n
<1>5. \A u : Site(n, P, u) = Site(m, P, u) BY <1>4 DEF Site, TracksAt
<1>6. Placed(n, P) BY <1>1, <1>4, <1>5 DEF Placed
<1> QED BY <1>2, <1>6 DEF Sits, n

\* A view may be replaced by one alike.
LEMMA SetViewSits ==
  ASSUME NEW K, NEW l, NEW f, NEW g, NEW P, NEW m \in Sits(K, l, f, P), NEW v \in Views, NEW r,
         Alike(r, m.view[v]), [m EXCEPT !.view[v] = r] \in Still(K, l, g)
  PROVE  [m EXCEPT !.view[v] = r] \in Sits(K, l, g, P)
<1> DEFINE n == [m EXCEPT !.view[v] = r]
<1>1. m \in Still(K, l, f) /\ Placed(m, P) BY DEF Sits
<1>2. m \in ModelRecords(CyclesOver(Views, K), K) BY <1>1 DEF Still, Fit, Sound
<1>3. n.ws = m.ws /\ n.view = [m.view EXCEPT ![v] = r] /\ DOMAIN m.view = Views
  BY <1>2 DEF ModelRecords
<1>4. n \in Still(K, l, g) OBVIOUS
<1> HIDE DEF n
<1>5. \A u \in Views : Alike(n.view[u], m.view[u]) BY <1>3 DEF Alike
<1>6. Placed(n, P) BY <1>1, <1>3, <1>5, SamePlaces
<1> QED BY <1>4, <1>6 DEF Sits, n

\* The changes of one field that leave a view alike.
LEMMA FlagAlike ==
  ASSUME NEW o \in ViewRecords, NEW b
  PROVE  /\ Alike([o EXCEPT !.mapped = b], o) /\ Alike([o EXCEPT !.focused = b], o)
         /\ Alike([o EXCEPT !.floating = b], o) /\ Alike([o EXCEPT !.contained = b], o)
         /\ Alike([o EXCEPT !.iconified = b], o) /\ Alike([o EXCEPT !.managed = b], o)
BY DEF ViewRecords, Alike

\* What is known of a model with its views in place.
LEMMA SitsFacts ==
  ASSUME NEW K, K \subseteq Views, NEW l, NEW f, NEW P, NEW m \in Sits(K, l, f, P)
  PROVE  /\ m \in Still(K, l, f) /\ m \in Fit(K, l) /\ Placed(m, P)
         /\ m \in ModelRecords(CyclesOver(Views, K), K)
         /\ \A v \in Views : m.view[v] \in ViewRecords /\ InPlace(m.view[v], P[v])
         /\ \A v \in K : m.view[v].ws \in Workspaces /\ P[v].ws = m.view[v].ws
         /\ \A w \in Workspaces : m.ws[w] \in Shaped(Views, K) /\ m.ws[w] \in Site(m, P, w)
         /\ m.workspace \in Workspaces
<1>1. m \in Still(K, l, f) /\ Placed(m, P) BY DEF Sits
<1>2. m \in Fit(K, l) /\ m \in Sound(K) BY <1>1, StillSound
<1>3. m \in ModelRecords(CyclesOver(Views, K), K) BY <1>2 DEF Sound
<1>4. \A v \in Views : m.view[v] \in ViewRecords /\ InPlace(m.view[v], P[v])
  BY <1>1, <1>2, PartTypes DEF Placed
<1>5. \A v \in K : m.view[v].ws \in Workspaces BY <1>1, ViewFacts
<1>6. \A v \in K : P[v].ws = m.view[v].ws BY <1>4 DEF InPlace
<1>7. \A w \in Workspaces : m.ws[w] \in Shaped(Views, K) BY <1>2, PartTypes
<1>8. m.workspace \in Workspaces BY <1>2, PartTypes
<1> QED BY <1>1, <1>2, <1>3, <1>4, <1>5, <1>6, <1>7, <1>8 DEF Placed

\* What is known of a known view and of its workspace.
LEMMA KnownSits ==
  ASSUME NEW K, K \subseteq Views, NEW l, NEW f, NEW P, NEW m \in Sits(K, l, f, P), NEW v \in K
  PROVE  /\ m.view[v].ws \in Workspaces /\ P[v].ws = m.view[v].ws
         /\ m.view[v].layer \in TrackLayers /\ m.view[v] \in ViewRecords
         /\ InPlace(m.view[v], P[v])
         /\ m.ws[m.view[v].ws] \in Shaped(Views, K)
         /\ m.ws[m.view[v].ws] \in Site(m, P, m.view[v].ws)
<1>1. m.view[v].ws \in Workspaces /\ P[v].ws = m.view[v].ws BY SitsFacts
<1>2. m.view[v] \in ViewRecords /\ InPlace(m.view[v], P[v]) BY SitsFacts
<1>3. m.view[v].layer \in TrackLayers BY <1>2 DEF ViewRecords
<1>4. \A w \in Workspaces : m.ws[w] \in Shaped(Views, K) /\ m.ws[w] \in Site(m, P, w)
  BY SitsFacts
<1> QED BY <1>1, <1>2, <1>3, <1>4

\* unfocus of a view leaves the views in place.
LEMMA UnfocusSits ==
  ASSUME NEW K, K \subseteq Views, NEW l, NEW f, NEW P, NEW m \in Sits(K, l, f, P),
         NEW v \in Views \cup {Null}
  PROVE  Unfocus(m, v) \in Sits(K, l, f, P)
<1>1. CASE v = Null BY <1>1 DEF Unfocus
<1>2. CASE v # Null
  <2> DEFINE r == [m.view[v] EXCEPT !.focused = FALSE]
  <2>1. v \in Views BY <1>2
  <2>2. Alike(r, m.view[v]) BY <2>1, SitsFacts, FlagAlike
  <2>3. Unfocus(m, v) = [m EXCEPT !.view[v] = r] BY <1>2 DEF Unfocus
  <2>4. Unfocus(m, v) \in Still(K, l, f) BY SitsFacts, UnfocusStill
  <2> HIDE DEF r
  <2>5. [m EXCEPT !.view[v] = r] \in Still(K, l, f) BY <2>3, <2>4
  <2> QED BY <2>1, <2>2, <2>3, <2>5, SetViewSits
<1> QED BY <1>1, <1>2

\* So do map, unmap, and show or hide of a placement.
LEMMA ShowSits ==
  ASSUME NEW K, K \subseteq Views, NEW l, NEW f, NEW P, NEW m \in Sits(K, l, f, P),
         NEW v \in Views, NEW shown
  PROVE  /\ Map(m, v) \in Sits(K, l, f, P) /\ Unmap(m, v) \in Sits(K, l, f, P)
         /\ Show(m, v, shown) \in Sits(K, l, f, P)
<1> DEFINE r == [m.view[v] EXCEPT !.mapped = TRUE]
           u == Unfocus(m, v)
           s == [u.view[v] EXCEPT !.mapped = FALSE]
<1>1. u \in Sits(K, l, f, P) BY UnfocusSits
<1>2. Map(m, v) = [m EXCEPT !.view[v] = r] BY DEF Map
<1>3. Unmap(m, v) = IF m.view[v].mapped THEN [u EXCEPT !.view[v] = s] ELSE m BY DEF Unmap
<1>4. Alike(r, m.view[v]) BY SitsFacts, FlagAlike
<1> HIDE DEF u
<1>5. Alike(s, u.view[v]) BY <1>1, SitsFacts, FlagAlike
<1>6. Map(m, v) \in Still(K, l, f) /\ Unmap(m, v) \in Still(K, l, f) BY SitsFacts, ShowStill
<1> HIDE DEF r, s
<1>7. Map(m, v) \in Sits(K, l, f, P) BY <1>2, <1>4, <1>6, SetViewSits
<1>8. ASSUME m.view[v].mapped PROVE [u EXCEPT !.view[v] = s] \in Sits(K, l, f, P)
  BY <1>1, <1>3, <1>5, <1>6, <1>8, SetViewSits
<1> QED BY <1>3, <1>7, <1>8 DEF Show

\* move_view_to_track with the layer a view already has leaves the views in
\* place.
LEMMA MoveTrackSits ==
  ASSUME NEW K, K \subseteq Views, NEW l, NEW f, NEW P, NEW m \in Sits(K, l, f, P), NEW v \in K,
         NEW shift
  PROVE  MoveViewToTrack(m, v, m.view[v].layer, shift) \in Sits(K, l, f, P)
<1> DEFINE w == m.view[v].ws
           k == m.view[v].layer
           x == ChangeViewTrack(m.ws[w], v, k, k, shift)
           n == [m EXCEPT !.ws[w] = x]
           r == [n.view[v] EXCEPT !.layer = k]
<1>1. /\ w \in Workspaces /\ k \in TrackLayers
      /\ m.ws[w] \in Shaped(Views, K) /\ m.ws[w] \in Site(m, P, w)
  BY KnownSits
<1>2. x \in Shaped(Views, K) BY <1>1, ChangeViewTrackShape
<1>3. x \in Site(m, P, w) BY <1>1, SiteTypes, ChangeTrackSited DEF Site
<1>4. [m EXCEPT !.ws[w] = x, !.view[v].layer = k] = [n EXCEPT !.view[v] = r] OBVIOUS
<1>5. MoveViewToTrack(m, v, k, shift) = [n EXCEPT !.view[v] = r] BY <1>4 DEF MoveViewToTrack
<1>6. MoveViewToTrack(m, v, k, shift) \in Still(K, l, f) BY <1>1, SitsFacts, MoveTrackStill
<1>7. n.view = m.view BY SitsFacts DEF ModelRecords
<1> HIDE DEF x, w
<1>8. n \in Sits(K, l, f, P) BY <1>1, <1>2, <1>3, SetWsSits
<1>9. Alike(r, n.view[v])
  <2>1. n.view[v].layer = k BY <1>7
  <2>2. n.view[v] \in ViewRecords BY <1>8, SitsFacts
  <2> HIDE DEF n, k
  <2> QED BY <2>1, <2>2 DEF Alike, ViewRecords
<1> HIDE DEF n, r
<1> QED BY <1>5, <1>6, <1>8, <1>9, SetViewSits

\* place_view of a view in its workspace, as a free or a tiled one: its layer
\* and its track change together.
LEMMA PlaceSits ==
  ASSUME NEW K, K \subseteq Views, NEW l, NEW f, NEW P, NEW m \in Sits(K, l, f, P),
         NEW p, p.view \in K, P[p.view].in = "view", p.method \in {"Free", "Tile"}
  PROVE  PlaceView(m, p) \in Sits(K, l, f, P)
<1> DEFINE v == p.view
           b == PlacedFree(m, p)
           w == m.view[v].ws
           j == m.view[v].layer
           k == IF b THEN FREE ELSE TILE
           x == ChangeViewTrack(m.ws[w], v, j, k, FALSE)
           a == [m.view[v] EXCEPT !.free = b]
           n == [m EXCEPT !.view[v] = a]
           z == MoveViewToTrack(n, v, k, FALSE)
           T == TracksAt(m, P, w)
<1>1. /\ w \in Workspaces /\ w = P[v].ws /\ j \in TrackLayers /\ k \in TrackLayers
      /\ m.ws[w] \in Shaped(Views, K) /\ m.ws[w] \in Site(m, P, w)
      /\ m.view[v] \in ViewRecords /\ InPlace(m.view[v], P[v])
  BY KnownSits DEF TrackLayers
<1>2. b \in BOOLEAN /\ PlacedLayer[p.method] = k BY DEF PlacedFree, PlacedLayer
<1> HIDE DEF b
<1>3. PlaceView(m, p) = Show(z, v, p.shown)
  <2>1. [m EXCEPT !.view[p.view].free = PlacedFree(m, p)] = n BY DEF b
  <2> QED BY <1>2, <2>1 DEF PlaceView
<1>4. n \in Still(K, l, f)
  <2>1. Resembles(a, m.view[v]) BY <1>1, <1>2, FlagSet
  <2>2. m \in Still(K, l, f) BY SitsFacts
  <2> HIDE DEF a
  <2> QED BY <2>1, <2>2, ResetView
<1>5. z \in Still(K, l, f) BY <1>1, <1>4, MoveTrackStill
<1>6. m \in ModelRecords(CyclesOver(Views, K), K) BY SitsFacts
<1>7. /\ z.view = [m.view EXCEPT ![v] = [m.view[v] EXCEPT !.free = b, !.layer = k]]
      /\ z.ws = [m.ws EXCEPT ![w] = x] /\ DOMAIN m.view = Views /\ DOMAIN m.ws = Workspaces
  <2>1. /\ n.ws = m.ws /\ n.view = [m.view EXCEPT ![v] = a] /\ n \in ModelRecords(CyclesOver(Views, K), K)
        /\ DOMAIN m.view = Views /\ DOMAIN m.ws = Workspaces
    BY <1>4, <1>6 DEF ModelRecords, Still, Fit, Sound
  <2>2. n.view[v] = a /\ a.ws = w /\ a.layer = j BY <1>1, <2>1 DEF ViewRecords
  <2>3. z = [n EXCEPT !.ws[w] = x, !.view[v].layer = k] BY <2>1, <2>2 DEF MoveViewToTrack
  <2>4. z.view = [n.view EXCEPT ![v].layer = k] /\ z.ws = [n.ws EXCEPT ![w] = x]
    <3> HIDE DEF n, x
    <3> QED BY <2>1, <2>3 DEF ModelRecords
  <2> DEFINE c == [a EXCEPT !.layer = k]
  <2>5. c = [m.view[v] EXCEPT !.free = b, !.layer = k] OBVIOUS
  <2>6. [n.view EXCEPT ![v].layer = k] = [n.view EXCEPT ![v] = c] BY <2>2
  <2> HIDE DEF a, c, z, n, x, w, k
  <2>7. z.view = [m.view EXCEPT ![v] = c] BY <2>1, <2>4, <2>6
  <2> QED BY <2>1, <2>4, <2>5, <2>7
<1> HIDE DEF z, n
<1>8. /\ z.ws[w] = x /\ \A u \in Workspaces : u # w => z.ws[u] = m.ws[u]
      /\ \A u \in Views : u # v => z.view[u] = m.view[u]
      /\ z.view[v] = [m.view[v] EXCEPT !.free = b, !.layer = k]
  BY <1>1, <1>7
<1>9. InPlace(z.view[v], P[v]) /\ z.view[v].layer = k
  <2> DEFINE r == [m.view[v] EXCEPT !.free = b, !.layer = k]
  <2>1. /\ r.ws = m.view[v].ws /\ r.state = m.view[v].state /\ r.fullscreen = m.view[v].fullscreen
        /\ r.free = b /\ r.layer = k
    BY <1>1 DEF ViewRecords
  <2> HIDE DEF r
  <2>2. r.ws # Null BY <1>1, <2>1, NullFresh
  <2>3. InPlace(r, P[v]) BY <1>1, <2>1, <2>2 DEF InPlace
  <2> QED BY <1>8, <2>1, <2>3 DEF r
<1>10. DifferIn(v, z, P, m, P) BY <1>8 DEF DifferIn
<1>11. ASSUME NEW u \in Workspaces, u # w PROVE z.ws[u] \in Site(z, P, u)
  <2>1. Site(z, P, u) = Site(m, P, u) BY <1>1, <1>10, <1>11, SiteElsewhere
  <2>2. m.ws[u] \in Site(m, P, u) BY SitsFacts
  <2> QED BY <1>8, <1>11, <2>1, <2>2
<1>12. x \in Site(z, P, w)
  <2>1. v \in ViewsAt(P, w) BY <1>1 DEF ViewsAt
  <2>2. /\ j = k => TracksAt(z, P, w) = T
        /\ j # k => TracksAt(z, P, w) = [T EXCEPT ![j] = T[j] \ {v}, ![k] = T[k] \cup {v}]
    <3>1. v \in Views /\ z.view[v].layer = k /\ P[v].ws = w /\ P[v].in = "view" /\ m.view[v].layer = j
      BY <1>1, <1>9
    <3>2. T = TracksAt(m, P, w) OBVIOUS
    <3>3. j \in TrackLayers /\ k \in TrackLayers BY <1>1
    <3> HIDE DEF T, w, j, k, v, x, a
    <3>4. ASSUME j = k PROVE TracksAt(z, P, w) = T
      BY <1>10, <2>1, <3>1, <3>2, <3>3, <3>4, SiteEntered
    <3>5. ASSUME j # k
          PROVE  TracksAt(z, P, w) = [T EXCEPT ![j] = T[j] \ {v}, ![k] = T[k] \cup {v}]
      BY <1>10, <2>1, <3>1, <3>2, <3>3, <3>5, SiteEntered
    <3> QED BY <3>4, <3>5
  <2>3. T \in [TrackLayers -> SUBSET Views] BY SiteTypes
  <2>4. m.ws[w] \in Sited(ViewsAt(P, w), IconsAt(P, w), T) BY <1>1 DEF Site
  <2> HIDE DEF T, w, j, k
  <2>5. /\ j = k => x \in Sited(ViewsAt(P, w), IconsAt(P, w), T)
        /\ j # k => x \in Sited(ViewsAt(P, w), IconsAt(P, w),
                                [T EXCEPT ![j] = T[j] \ {v}, ![k] = T[k] \cup {v}])
    BY <1>1, <2>3, <2>4, ChangeTrackSited
  <2> QED BY <2>2, <2>5 DEF Site
<1>13. Placed(z, P)
  <2>0. \A u \in Views : InPlace(m.view[u], P[u]) BY SitsFacts
  <2>1. \A u \in Views : InPlace(z.view[u], P[u]) BY <1>8, <1>9, <2>0
  <2> QED BY <1>8, <1>11, <1>12, <2>1 DEF Placed
<1>14. z \in Sits(K, l, f, P) BY <1>5, <1>13 DEF Sits
<1> QED BY <1>3, <1>14, ShowSits

\* The layer relayer_views puts a view on is the one it has.
LEMMA RelayerSits ==
  ASSUME NEW K, K \subseteq Views, NEW l, NEW f, NEW P, NEW m \in Sits(K, l, f, P), NEW v \in K
  PROVE  RelayerView(m, v) \in Sits(K, l, f, P)
<1>1. InPlace(m.view[v], P[v]) BY SitsFacts
<1>2. RelayerView(m, v) = MoveViewToTrack(m, v, m.view[v].layer, FALSE)
  BY <1>1 DEF RelayerView, InPlace
<1> QED BY <1>2, MoveTrackSits

\* The activation of the track a view is in leaves the views in place.
LEMMA ActivateTrackOfSits ==
  ASSUME NEW K, K \subseteq Views, NEW l, NEW f, NEW P, NEW m \in Sits(K, l, f, P), NEW v \in K
  PROVE  ActivateTrackOf(m, v) \in Sits(K, l, f, P)
<1> DEFINE w == m.view[v].ws
           x == ActivateTrack(m.ws[w], m.view[v].layer)
<1>1. /\ w \in Workspaces /\ m.view[v].layer \in TrackLayers
      /\ m.ws[w] \in Shaped(Views, K) /\ m.ws[w] \in Site(m, P, w)
  BY KnownSits
<1>2. x \in Shaped(Views, K) BY <1>1, ActivateTrackShape
<1>3. x \in Site(m, P, w) BY <1>1, ActivateTrackSited DEF Site
<1>4. ActivateTrackOf(m, v) = [m EXCEPT !.ws[w] = x] BY DEF ActivateTrackOf
<1> HIDE DEF x, w
<1> QED BY <1>1, <1>2, <1>3, <1>4, SetWsSits

----------------------------------------------------------------------------
(* Layouts.                                                                *)

\* The views of a workspace in order: those whose place is there, all known.
LEMMA ViewsPlaced ==
  ASSUME NEW K, K \subseteq Views, NEW l, NEW f, NEW P, NEW m \in Sits(K, l, f, P),
         NEW w \in Workspaces
  PROVE  /\ ViewsAt(P, w) \subseteq K /\ \A v \in ViewsAt(P, w) : P[v].in = "view"
         /\ m.ws[w].views.elements \in Seq(ViewsAt(P, w))
         /\ m.ws[w].views.elements \in Seq(Views)
         /\ Range(m.ws[w].views.elements) = ViewsAt(P, w)
<1>1. m \in Fit(K, l) /\ Placed(m, P) BY SitsFacts
<1>2. \A v \in Views : m.view[v].ws = P[v].ws /\ (m.view[v].ws # Null => v \in K)
  BY <1>1 DEF Placed, InPlace, Fit, Sound, KnownAre
<1>3. ViewsAt(P, w) \subseteq K BY <1>2, NullFresh DEF ViewsAt
<1>4. m.ws[w] \in Site(m, P, w) BY <1>1 DEF Placed
<1>5. Has(m.ws[w].views, ViewsAt(P, w)) BY <1>4, SiteParts DEF Site
<1> DEFINE s == m.ws[w].views.elements
<1>6. s \in Seq(Views) /\ Range(s) = ViewsAt(P, w) BY <1>5 DEF Has, IsCycle, Cycles
<1> HIDE DEF s
<1>7. /\ Len(s) \in Nat /\ DOMAIN s = 1..Len(s)
      /\ \A i \in 1..Len(s) : s[i] \in ViewsAt(P, w)
  BY <1>6 DEF Range
<1>8. s \in Seq(ViewsAt(P, w)) BY <1>6, <1>7
<1>9. \A v \in ViewsAt(P, w) : P[v].in = "view" BY DEF ViewsAt
<1> QED BY <1>3, <1>6, <1>8, <1>9 DEF s

\* arrange places the views of the workspace, as free or as tiled ones.
LEMMA ArrangePlaced ==
  ASSUME NEW K, K \subseteq Views, NEW l, NEW f, NEW P, NEW m \in Sits(K, l, f, P),
         NEW w \in Workspaces
  PROVE  Arrange(m, w) \in Seq([view : ViewsAt(P, w), method : {"Free", "Tile"}, shown : BOOLEAN])
<1> DEFINE V        == ViewsAt(P, w)
           G        == [view : V, method : {"Free", "Tile"}, shown : BOOLEAN]
           views    == m.ws[w].views.elements
           layout   == Layout(m.ws[w])
           full     == {v \in Views : m.view[v].fullscreen /\ ~m.view[v].contained}
           floating == IF layout.free THEN {} ELSE {v \in Views \ full : m.view[v].floating}
           Chosen(S) == Kept(views, {i \in DOMAIN views : views[i] \in S})
           Place(method, S) ==
             [i \in DOMAIN Chosen(S) |->
               [view |-> Chosen(S)[i], method |-> method,
                shown |-> layout.single => m.view[Chosen(S)[i]].focused]]
<1>1. views \in Seq(V) BY ViewsPlaced
<1>2. full = {} BY SitsFacts DEF InPlace
<1>3. Arrange(m, w) = Place("Fullscreen", full) \o Place("Free", floating)
                      \o Place(IF layout.free THEN "Free" ELSE "Tile", Views \ (full \cup floating))
  BY DEF Arrange
<1> HIDE DEF views, layout, full, floating, V
<1>4. ASSUME NEW a \in {"Free", "Tile"}, NEW S PROVE Place(a, S) \in Seq(G)
  <2>1. Chosen(S) \in Seq(V) BY <1>1, KeptFacts
  <2> DEFINE c == Chosen(S)
  <2> HIDE DEF c
  <2>2. \A i \in 1..Len(c) : c[i] \in V BY <2>1 DEF c
  <2>3. DOMAIN c = 1..Len(c) /\ Len(c) \in Nat BY <2>1 DEF c
  <2> DEFINE t == [i \in DOMAIN c |-> [view |-> c[i], method |-> a,
                                       shown |-> layout.single => m.view[c[i]].focused]]
  <2>4. t \in Seq(G) BY <2>2, <2>3
  <2> QED BY <2>4 DEF c
<1>5. Place("Fullscreen", full) \in Seq(G)
  <2>1. {i \in DOMAIN views : views[i] \in full} = {} BY <1>2
  <2>2. Kept(views, {}) \in Seq(V) /\ Len(Kept(views, {})) = 0 BY <1>1, KeptFacts, FS_EmptySet
  <2> DEFINE c == Kept(views, {})
  <2>3. DOMAIN c = 1..0 BY <2>2
  <2> HIDE DEF c
  <2> DEFINE t == [i \in DOMAIN c |-> [view |-> c[i], method |-> "Fullscreen",
                                       shown |-> layout.single => m.view[c[i]].focused]]
  <2>4. t \in Seq(G) BY <2>3
  <2> QED BY <2>1, <2>4 DEF c
<1> DEFINE a == Place("Fullscreen", full)
           b == Place("Free", floating)
           c == Place(IF layout.free THEN "Free" ELSE "Tile", Views \ (full \cup floating))
<1>6. b \in Seq(G) /\ c \in Seq(G) BY <1>4
<1>7. Arrange(m, w) = a \o b \o c BY <1>3
<1> HIDE DEF a, b, c, G, Place
<1>8. Arrange(m, w) \in Seq(G) BY <1>5, <1>6, <1>7 DEF a
<1> QED BY <1>8 DEF G, V

\* apply_layout leaves the views in place.
LEMMA ApplyLayoutSits ==
  ASSUME NEW K, K \subseteq Views, NEW l, NEW f, NEW P, NEW m \in Sits(K, l, f, P),
         NEW w \in Workspaces
  PROVE  ApplyLayout(m, w) \in Sits(K, l, f, P)
<1> DEFINE s == Arrange(m, w)
           G == [view : ViewsAt(P, w), method : {"Free", "Tile"}, shown : BOOLEAN]
<1>1. s \in Seq(G) BY ArrangePlaced
<1>2. \A p \in G : p.view \in K /\ P[p.view].in = "view" /\ p.method \in {"Free", "Tile"}
  <2>1. ViewsAt(P, w) \subseteq K /\ \A v \in ViewsAt(P, w) : P[v].in = "view"
    BY ViewsPlaced
  <2> QED BY <2>1
<1> HIDE DEF s, G
<1>3. Len(s) \in Nat /\ DOMAIN s = 1..Len(s) BY <1>1
<1>4. \A x \in Sits(K, l, f, P), i \in 1..Len(s) : PlaceView(x, s[i]) \in Sits(K, l, f, P)
  <2> TAKE x \in Sits(K, l, f, P), i \in 1..Len(s)
  <2>1. s[i] \in G BY <1>1
  <2> QED BY <1>2, <2>1, PlaceSits
<1>5. SE!FoldLeft(PlaceView, m, s) \in Sits(K, l, f, P) BY <1>3, <1>4, PlaceFold
<1> QED BY <1>5 DEF ApplyLayout, s

\* So does hiding every view of a workspace.
LEMMA HideSits ==
  ASSUME NEW K, K \subseteq Views, NEW l, NEW f, NEW P, NEW m \in Sits(K, l, f, P),
         NEW w \in Workspaces
  PROVE  SE!FoldLeft(Unmap, m, m.ws[w].views.elements) \in Sits(K, l, f, P)
<1> DEFINE s == m.ws[w].views.elements
<1>1. s \in Seq(Views) BY ViewsPlaced
<1> HIDE DEF s
<1>2. Len(s) \in Nat /\ DOMAIN s = 1..Len(s) BY <1>1
<1>3. \A x \in Sits(K, l, f, P), i \in 1..Len(s) : Unmap(x, s[i]) \in Sits(K, l, f, P)
  <2> TAKE x \in Sits(K, l, f, P), i \in 1..Len(s)
  <2>1. s[i] \in Views BY <1>1
  <2> QED BY <2>1, ShowSits
<1>4. SE!FoldLeft(Unmap, m, s) \in Sits(K, l, f, P) BY <1>2, <1>3, UnmapFold
<1> QED BY <1>4 DEF s

\* So does putting the views of a workspace on their layers.
LEMMA RelayerViewsSits ==
  ASSUME NEW K, K \subseteq Views, NEW l, NEW f, NEW P, NEW m \in Sits(K, l, f, P),
         NEW w \in Workspaces
  PROVE  RelayerViews(m, w) \in Sits(K, l, f, P)
<1> DEFINE s == m.ws[w].views.elements
<1>1. s \in Seq(ViewsAt(P, w)) /\ ViewsAt(P, w) \subseteq K BY ViewsPlaced
<1> HIDE DEF s
<1>2. Len(s) \in Nat /\ DOMAIN s = 1..Len(s) BY <1>1
<1>3. \A x \in Sits(K, l, f, P), i \in 1..Len(s) : RelayerView(x, s[i]) \in Sits(K, l, f, P)
  <2> TAKE x \in Sits(K, l, f, P), i \in 1..Len(s)
  <2>1. s[i] \in K BY <1>1
  <2> QED BY <2>1, RelayerSits
<1>4. SE!FoldLeft(RelayerView, m, s) \in Sits(K, l, f, P) BY <1>2, <1>3, RelayerFold
<1>5. ASSUME NEW n \in Sits(K, l, f, P) PROVE FollowFocus(n) \in Sits(K, l, f, P)
  <2>1. n \in Still(K, l, f) BY SitsFacts
  <2>2. n.focus \in K \cup {Null} BY <2>1, StillSound
  <2> QED BY <2>2, ActivateTrackOfSits DEF FollowFocus
<1> QED BY <1>4, <1>5 DEF RelayerViews, s

\* So does the arrangement of every output.
LEMMA UpdateOutputsSits ==
  ASSUME NEW K, K \subseteq Views, NEW l, NEW f, NEW P, NEW m \in Sits(K, l, f, P)
  PROVE  UpdateOutputs(m) \in Sits(K, l, f, P)
<1> DEFINE s == m.outputs.elements
<1>0. m \in Still(K, l, f) BY SitsFacts
<1>1. s \in Seq(Outputs) BY <1>0, ShownWorkspace DEF Cycles
<1>2. Len(s) \in Nat /\ DOMAIN s = 1..Len(s) BY <1>1
<1>3. \A x \in Sits(K, l, f, P), i \in 1..Len(s) : LayOutOutput(x, s[i]) \in Sits(K, l, f, P)
  <2> TAKE x \in Sits(K, l, f, P), i \in 1..Len(s)
  <2>0. x \in Still(K, l, f) BY SitsFacts
  <2>1. x.outputs = m.outputs BY <1>0, <2>0 DEF Still, Fit, Wired
  <2>2. s[i] \in Range(x.outputs.elements) BY <2>1, <1>2 DEF Range
  <2>3. x.ctx[x.out[s[i]]].active \in Workspaces BY <2>0, <2>2, ShownWorkspace
  <2> QED BY <2>3, ApplyLayoutSits DEF LayOutOutput
<1>4. SE!FoldLeft(LayOutOutput, m, s) \in Sits(K, l, f, P)
  <2> HIDE DEF s
  <2> QED BY <1>2, <1>3, LayOutFold
<1> QED BY <1>4 DEF UpdateOutputs

----------------------------------------------------------------------------
(* The focus.                                                              *)

\* The current workspace may be replaced by one of the same site.
LEMMA OnWorkspaceSits ==
  ASSUME NEW K, K \subseteq Views, NEW l, NEW f, NEW P, NEW m \in Sits(K, l, f, P),
         NEW x \in Shaped(Views, K), x \in Site(m, P, m.workspace)
  PROVE  OnWorkspace(m, x) \in Sits(K, l, f, P)
<1>1. m.workspace \in Workspaces BY SitsFacts
<1> QED BY <1>1, SetWsSits DEF OnWorkspace

\* The current workspace.
LEMMA CurrentSits ==
  ASSUME NEW K, K \subseteq Views, NEW l, NEW f, NEW P, NEW m \in Sits(K, l, f, P)
  PROVE  /\ m.workspace \in Workspaces /\ Current(m) \in Shaped(Views, K)
         /\ Current(m) \in Site(m, P, m.workspace)
         /\ TracksAt(m, P, m.workspace) \in [TrackLayers -> SUBSET Views]
<1>1. m.workspace \in Workspaces BY SitsFacts
<1>2. \A w \in Workspaces : m.ws[w] \in Shaped(Views, K) /\ m.ws[w] \in Site(m, P, w)
  BY SitsFacts
<1> QED BY <1>1, <1>2, SiteTypes DEF Current

\* Laying out the current workspace leaves the views in place.
LEMMA LaidOutSits ==
  ASSUME NEW K, K \subseteq Views, NEW l, NEW f, NEW P, NEW m \in Sits(K, l, f, P)
  PROVE  LaidOut(m) \in Sits(K, l, f, P) /\ FitLayout(m) \in Sits(K, l, f, P)
<1>1. m.workspace \in Workspaces BY CurrentSits
<1> QED BY <1>1, ApplyLayoutSits DEF LaidOut, FitLayout

\* So does making a known view the active one of the workspace.
LEMMA ActivateSits ==
  ASSUME NEW K, K \subseteq Views, NEW l, NEW f, NEW P, NEW m \in Sits(K, l, f, P), NEW v \in K
  PROVE  Activate(m, v) \in Sits(K, l, f, P)
<1> DEFINE x == ActivateView(Current(m), v, m.view[v].layer)
           T == TracksAt(m, P, m.workspace)
<1>1. /\ m.workspace \in Workspaces /\ Current(m) \in Shaped(Views, K)
      /\ Current(m) \in Site(m, P, m.workspace) /\ T \in [TrackLayers -> SUBSET Views]
  BY CurrentSits
<1>2. m.view[v].layer \in TrackLayers /\ v \in Views BY KnownSits
<1>3. x \in Shaped(Views, K) BY <1>1, <1>2, ActivateViewShape
<1>4. x \in Site(m, P, m.workspace)
  <2>1. Current(m) \in Sited(ViewsAt(P, m.workspace), IconsAt(P, m.workspace), T)
    BY <1>1 DEF Site
  <2> HIDE DEF T
  <2>2. x \in Sited(ViewsAt(P, m.workspace), IconsAt(P, m.workspace), T)
    BY <1>1, <1>2, <2>1, ActivateViewSited
  <2> QED BY <2>2 DEF Site, T
<1>5. Activate(m, v) = OnWorkspace(m, x) BY DEF Activate
<1> HIDE DEF x
<1> QED BY <1>3, <1>4, <1>5, OnWorkspaceSits

\* So does the assignment of mp_focus.
LEMMA MoveFocusSits ==
  ASSUME NEW K, K \subseteq Views, NEW l, NEW f, NEW P, NEW m \in Sits(K, l, f, P), NEW n, NEW g,
         n \in Still(K, l, g), n.ws = m.ws, n.view = m.view
  PROVE  n \in Sits(K, l, g, P)
<1>1. Placed(m, P) BY DEF Sits
<1>2. \A v \in Views : Alike(n.view[v], m.view[v]) BY DEF Alike
<1>3. Placed(n, P) BY <1>1, <1>2, SamePlaces
<1> QED BY <1>3 DEF Sits

\* So does passing the focus.
LEMMA SwitchFocusSits ==
  ASSUME NEW K, K \subseteq Views, NEW l, NEW f, NEW P, NEW m \in Sits(K, l, f, P), NEW v \in K
  PROVE  SwitchFocus(m, v) \in Sits(K, l, v, P)
<1> DEFINE u == Unfocus(m, m.focus)
           n == [u EXCEPT !.focus = v]
           r == [n.view[v] EXCEPT !.focused = TRUE]
<1>1. m \in Still(K, l, f) BY SitsFacts
<1>2. u \in Still(K, l, f) /\ Unfocused(u) BY <1>1, UnfocusFacts
<1>3. m.focus \in Views \cup {Null} BY <1>1, StillSound
<1>4. u \in Sits(K, l, f, P) BY <1>3, UnfocusSits
<1>5. SwitchFocus(m, v) = [u EXCEPT !.view[v].focused = TRUE, !.focus = v] BY DEF SwitchFocus
<1> HIDE DEF u
<1>6. n \in Still(K, l, v) BY <1>2, MoveFocusStill
<1>7. u \in ModelRecords(CyclesOver(Views, K), K) BY <1>2, StillSound DEF Sound
<1>8. SwitchFocus(m, v) = [n EXCEPT !.view[v] = r] BY <1>5, <1>7 DEF ModelRecords
<1>9. n.ws = u.ws /\ n.view = u.view BY <1>7 DEF ModelRecords
<1> HIDE DEF n
<1>10. n \in Sits(K, l, v, P) BY <1>4, <1>6, <1>9, MoveFocusSits
<1>11. n.view[v] \in ViewRecords BY <1>10, KnownSits
<1>12. Alike(r, n.view[v]) BY <1>11, FlagAlike
<1> HIDE DEF r
<1>13. [n EXCEPT !.view[v] = r] \in Still(K, l, v) BY <1>1, <1>8, SwitchFocusStill
<1> QED BY <1>8, <1>10, <1>12, <1>13, SetViewSits

\* The same where focus_view lays out as well.
LEMMA GiveFocusSits ==
  ASSUME NEW K, K \subseteq Views, NEW l, NEW f, NEW P, NEW m \in Sits(K, l, f, P), NEW v \in K
  PROVE  GiveFocus(m, v) \in Sits(K, l, v, P)
<1>1. Activate(m, v) \in Sits(K, l, f, P) BY ActivateSits
<1>2. SwitchFocus(Activate(m, v), v) \in Sits(K, l, v, P) BY <1>1, SwitchFocusSits
<1>3. FitLayout(SwitchFocus(Activate(m, v), v)) \in Sits(K, l, v, P) BY <1>2, LaidOutSits
<1> QED BY <1>3, ActivateTrackOfSits DEF GiveFocus

\* So does the focus that follows the active view.
LEMMA FollowActiveSits ==
  ASSUME NEW K, K \subseteq Views, NEW l, NEW f, NEW P, NEW m \in Sits(K, l, f, P), Unfocused(m),
         NEW v \in K
  PROVE  FollowActive(m, v) \in Sits(K, l, v, P)
<1> DEFINE g == GiveFocus(m, v)
           a == g.astray \/ m.view[v].ws # m.workspace
           b == m.astray \/ m.view[v].ws # m.workspace
           x == [g EXCEPT !.focus = v, !.astray = a]
           y == [m EXCEPT !.focus = v, !.astray = b]
<1>1. g \in Sits(K, l, v, P) BY GiveFocusSits
<1>2. FollowActive(m, v) = IF CanFocus(m, v) THEN x ELSE y BY DEF FollowActive
<1>3. m \in Still(K, l, f) /\ m \in ModelRecords(CyclesOver(Views, K), K) BY SitsFacts
<1> HIDE DEF g
<1>4. g \in Still(K, l, v) /\ g \in ModelRecords(CyclesOver(Views, K), K) BY <1>1, SitsFacts
<1>5. a \in BOOLEAN /\ b \in BOOLEAN OBVIOUS
<1> HIDE DEF a, b
<1>6. x \in Still(K, l, v) BY <1>4, <1>5, AstrayStill
<1>7. y \in Still(K, l, v) BY <1>3, <1>5, MoveFocusStill
<1>8. /\ x.ws = g.ws /\ x.view = g.view /\ y.ws = m.ws /\ y.view = m.view
  BY <1>3, <1>4 DEF ModelRecords
<1> HIDE DEF x, y
<1>9. x \in Sits(K, l, v, P) BY <1>1, <1>6, <1>8, MoveFocusSits
<1>10. y \in Sits(K, l, v, P) BY <1>7, <1>8, MoveFocusSits
<1> QED BY <1>2, <1>9, <1>10

\* sync_focus leaves the views in place.
LEMMA SyncFocusHome ==
  ASSUME NEW K, K \subseteq Views, NEW l, NEW P, NEW m \in Home(K, l, P)
  PROVE  SyncFocus(m) \in Home(K, l, P)
<1> DEFINE u == Unfocus(m, m.focus)
           a == Current(m).active
           x == [u EXCEPT !.focus = Null]
<1>1. m \in Sits(K, l, m.focus, P) BY HomeSits
<1>2. m \in Still(K, l, m.focus) BY <1>1, SitsFacts
<1>3. u \in Still(K, l, m.focus) /\ Unfocused(u) BY <1>2, UnfocusFacts
<1>4. m.focus \in Views \cup {Null} BY <1>2, StillSound
<1>5. u \in Sits(K, l, m.focus, P) BY <1>1, <1>4, UnfocusSits
<1>6. a \in K \cup {Null} BY <1>2, CurrentShape DEF Shaped, WorkspaceRecords
<1>7. SyncFocus(m) = IF a = m.focus THEN m ELSE IF a # Null THEN FollowActive(u, a)
                     ELSE IF Empty(m, m.workspace) THEN x ELSE u
  BY DEF SyncFocus
<1> HIDE DEF u, a
<1>8. a \in K => FollowActive(u, a) \in Sits(K, l, a, P) BY <1>3, <1>5, FollowActiveSits
<1>9. x \in Still(K, l, Null) BY <1>3, MoveFocusStill
<1>10. u \in ModelRecords(CyclesOver(Views, K), K) BY <1>5, SitsFacts
<1>11. x.ws = u.ws /\ x.view = u.view BY <1>10 DEF ModelRecords
<1> HIDE DEF x
<1>12. x \in Sits(K, l, Null, P) BY <1>5, <1>9, <1>11, MoveFocusSits
<1> QED BY <1>5, <1>6, <1>7, <1>8, <1>12, HomeSits

\* What changes neither a workspace nor a view leaves the views in place.
LEMMA SameHome ==
  ASSUME NEW K, NEW l, NEW j, NEW P, NEW m \in Home(K, l, P), NEW n \in Fit(K, j),
         n.ws = m.ws, n.view = m.view
  PROVE  n \in Home(K, j, P)
<1>1. Placed(m, P) BY DEF Home
<1>2. \A v \in Views : Alike(n.view[v], m.view[v]) BY DEF Alike
<1>3. Placed(n, P) BY <1>1, <1>2, SamePlaces
<1> QED BY <1>3 DEF Home

\* activate_workspace leaves the views in place.
LEMMA ActivateWorkspaceHome ==
  ASSUME NEW K, K \subseteq Views, NEW l, NEW P, NEW m \in Home(K, l, P), NEW w \in Workspaces
  PROVE  ActivateWorkspace(m, w) \in Home(K, l, P)
<1> DEFINE from == m.workspace
           hidden == IF ContextOf(w) = ContextOf(from)
                     THEN SE!FoldLeft(Unmap, m, m.ws[from].views.elements) ELSE m
           c == ContextOf(w)
           p == IF m.ctx[c].active # w THEN m.ctx[c].active ELSE hidden.ctx[c].prev
           switched == [hidden EXCEPT !.prevWorkspace = from, !.workspace = w, !.wsIndex = w,
                                      !.ctx[c].prev = p, !.ctx[c].active = w]
<1>0. m \in Sits(K, l, m.focus, P) BY HomeSits
<1>1. m \in Still(K, l, m.focus) /\ from \in Workspaces BY <1>0, SitsFacts
<1>2. hidden \in Home(K, l, P) BY <1>0, <1>1, HideSits, HomeSits
<1>3. c \in Contexts BY ContextOfType
<1>4. m.ctx[c].active \in Workspaces BY <1>1, <1>3, ShownWorkspace
<1> HIDE DEF hidden
<1>5. hidden \in Fit(K, l) BY <1>2 DEF Home
<1>6. hidden.ctx[c] \in ContextRecords BY <1>3, <1>5 DEF Fit, Sound, ModelRecords
<1>7. p \in Workspaces \cup {Null} BY <1>4, <1>6 DEF ContextRecords
<1>8. ActivateWorkspace(m, w) = IF w = from THEN m ELSE SyncFocus(ApplyLayout(switched, w))
  BY DEF ActivateWorkspace, hidden
<1> HIDE DEF p
<1>9. switched \in Fit(K, l) BY <1>1, <1>5, <1>7, SwitchedFit
<1>10. switched.ws = hidden.ws /\ switched.view = hidden.view
  BY <1>5 DEF Fit, Sound, ModelRecords
<1> HIDE DEF switched, from, c
<1>11. switched \in Home(K, l, P) BY <1>2, <1>9, <1>10, SameHome
<1>12. ApplyLayout(switched, w) \in Home(K, l, P) BY <1>11, ApplyLayoutSits, HomeSits
<1> QED BY <1>8, <1>12, SyncFocusHome

\* focus_view leaves the views in place.
LEMMA FocusViewHome ==
  ASSUME NEW K, K \subseteq Views, NEW l, NEW P, NEW m \in Home(K, l, P),
         NEW v \in Views \cup {Null}
  PROVE  FocusView(m, v) \in Home(K, l, P)
<1>1. CASE ~CanFocus(m, v) BY <1>1 DEF FocusView
<1>2. CASE CanFocus(m, v)
  <2>1. v \in Views /\ m.view[v].ws # Null BY <1>2 DEF CanFocus
  <2>2. v \in K BY <2>1 DEF Home, Fit, Sound, KnownAre
  <2>3. m.view[v].ws \in Workspaces BY <2>2, KnownFit DEF Home
  <2>4. ActivateWorkspace(m, m.view[v].ws) \in Home(K, l, P) BY <2>3, ActivateWorkspaceHome
  <2>5. GiveFocus(ActivateWorkspace(m, m.view[v].ws), v) \in Home(K, l, P)
    BY <2>2, <2>4, GiveFocusSits, HomeSits
  <2> QED BY <1>2, <2>5 DEF FocusView
<1> QED BY <1>1, <1>2

\* So does the end of the process.
LEMMA CrashedHome ==
  ASSUME NEW K, NEW l, NEW P, NEW m \in Home(K, l, P)
  PROVE  Crashed(m) \in Home(K, l, P)
<1>1. m \in Fit(K, l) BY DEF Home
<1>2. Crashed(m) \in Fit(K, l) BY <1>1, CrashedFit
<1>3. Crashed(m).ws = m.ws /\ Crashed(m).view = m.view
  BY <1>1 DEF Crashed, Fit, Sound, ModelRecords
<1> QED BY <1>2, <1>3, SameHome

\* So does refocus.
LEMMA RefocusHome ==
  ASSUME NEW K, K \subseteq Views, NEW l, NEW P, NEW m \in Home(K, l, P)
  PROVE  Refocus(m) \in Home(K, l, P)
<1>1. ASSUME NEW n \in Home(K, l, P) PROVE Refocused(n) \in Home(K, l, P)
  <2> DEFINE f == n.focus
             a == Activate(n, f)
             r == [a.view[f] EXCEPT !.focused = TRUE]
  <2>1. n \in Sits(K, l, f, P) BY HomeSits
  <2>2. f \in K \cup {Null} BY <2>1, SitsFacts, StillSound
  <2>3. CASE f = Null BY <2>3, CrashedHome DEF Refocused
  <2>4. CASE f # Null
    <3>1. f \in K BY <2>2, <2>4
    <3>2. a \in Sits(K, l, f, P) BY <2>1, <3>1, ActivateSits
    <3>3. Refocused(n) = FitLayout([a EXCEPT !.view[f] = r]) BY <2>4 DEF Refocused
    <3> HIDE DEF a, f
    <3>4. a \in Still(K, l, f) BY <3>2, SitsFacts
    <3>5. f \in Views BY <3>1
    <3>6. a.view[f] \in ViewRecords /\ (a.view[f].state # "gone" => f \in K)
      BY <3>1, <3>4, <3>5, ViewFacts
    <3>7. r \in ViewRecords /\ r.ws = a.view[f].ws /\ r.state = a.view[f].state
          /\ Alike(r, a.view[f])
      BY <3>6 DEF ViewRecords, Alike
    <3> HIDE DEF r
    <3>8. [a EXCEPT !.view[f] = r] \in Still(K, l, f) BY <3>1, <3>4, <3>5, <3>6, <3>7, SetView
    <3>9. [a EXCEPT !.view[f] = r] \in Sits(K, l, f, P)
      BY <3>2, <3>5, <3>7, <3>8, SetViewSits
    <3> QED BY <3>3, <3>9, LaidOutSits, HomeSits
  <2> QED BY <2>3, <2>4
<1>2. CASE m.focus # Null
  <2>1. m \in Fit(K, l) BY DEF Home
  <2>2. m.focus \in K BY <1>2, <2>1, FitStill, StillSound
  <2>3. m.view[m.focus].ws \in Workspaces BY <2>1, <2>2, KnownFit
  <2>4. ActivateWorkspace(m, m.view[m.focus].ws) \in Home(K, l, P) BY <2>3, ActivateWorkspaceHome
  <2> QED BY <1>1, <2>4 DEF Refocus
<1> QED BY <1>2 DEF Refocus

----------------------------------------------------------------------------
(* Commands that move no view.                                             *)

\* What a command does to the current workspace, with what it calls after,
\* leaves the views in place.
LEMMA OnWorkspaceHome ==
  ASSUME NEW K, K \subseteq Views, NEW l, NEW P, NEW m \in Home(K, l, P),
         NEW x \in Shaped(Views, K), x \in Site(m, P, m.workspace)
  PROVE  /\ OnWorkspace(m, x) \in Home(K, l, P) /\ SyncFocus(OnWorkspace(m, x)) \in Home(K, l, P)
         /\ LaidOut(SyncFocus(OnWorkspace(m, x))) \in Home(K, l, P)
         /\ LaidOut(OnWorkspace(m, x)) \in Home(K, l, P)
<1>1. OnWorkspace(m, x) \in Home(K, l, P) BY OnWorkspaceSits, HomeSits
<1>2. SyncFocus(OnWorkspace(m, x)) \in Home(K, l, P) BY <1>1, SyncFocusHome
<1> QED BY <1>1, <1>2, LaidOutSits, HomeSits

\* So do the commands that move the focus or reorder the views.
LEMMA FocusCommandsHome ==
  ASSUME NEW K, K \subseteq Views, NEW l, NEW P, NEW m \in Home(K, l, P),
         NEW d \in Directions, NEW n \in Nat
  PROVE  /\ CycleFocusCommand(m, d) \in Home(K, l, P)
         /\ CycleFocusTrackCommand(m, d) \in Home(K, l, P)
         /\ DragFocusTrackCommand(m, d) \in Home(K, l, P)
         /\ CycleTrackCommand(m, d) \in Home(K, l, P)
         /\ ReverseViews(m) \in Home(K, l, P)
         /\ RotateViews(m, d) \in Home(K, l, P)
         /\ ShuffleMainCommand(m, d, n) \in Home(K, l, P)
         /\ ShuffleStackCommand(m, d, n) \in Home(K, l, P)
<1> DEFINE w == Current(m)
           T == TracksAt(m, P, m.workspace)
           S == Site(m, P, m.workspace)
<1>1. /\ w \in Shaped(Views, K) /\ w \in S /\ T \in [TrackLayers -> SUBSET Views]
  BY HomeSits, CurrentSits
<1>2. S = Sited(ViewsAt(P, m.workspace), IconsAt(P, m.workspace), T) BY DEF Site
<1> HIDE DEF w, T
<1>3. /\ CycleFocus(w, d) \in S /\ CycleFocusTrack(w, d) \in S /\ DragFocusTrack(w, d) \in S
      /\ CycleTrack(w, d) \in S
  BY <1>1, <1>2, CycleFocusSited, CycleFocusTrackSited, DragFocusTrackSited, CycleTrackSited
<1>4. /\ Reverse(w) \in S /\ Rotate(w, d) \in S
      /\ ShuffleMain(w, d, n) \in S /\ ShuffleStack(w, d, n) \in S
  BY <1>1, <1>2, OrderSited
<1>5. /\ CycleFocus(w, d) \in Shaped(Views, K) /\ CycleFocusTrack(w, d) \in Shaped(Views, K)
      /\ DragFocusTrack(w, d) \in Shaped(Views, K) /\ CycleTrack(w, d) \in Shaped(Views, K)
  BY <1>1, CycleFocusShape, CycleFocusTrackShape, DragFocusTrackShape, CycleTrackShape
<1>6. /\ Reverse(w) \in Shaped(Views, K) /\ Rotate(w, d) \in Shaped(Views, K)
      /\ ShuffleMain(w, d, n) \in Shaped(Views, K) /\ ShuffleStack(w, d, n) \in Shaped(Views, K)
  BY <1>1, OrderShapes
<1>7. ASSUME NEW x \in Shaped(Views, K), x \in S
      PROVE  /\ SyncFocus(OnWorkspace(m, x)) \in Home(K, l, P)
             /\ LaidOut(SyncFocus(OnWorkspace(m, x))) \in Home(K, l, P)
  BY <1>7, OnWorkspaceHome
<1> HIDE DEF S
<1>8. /\ CycleFocusCommand(m, d) \in Home(K, l, P)
      /\ CycleFocusTrackCommand(m, d) \in Home(K, l, P)
      /\ DragFocusTrackCommand(m, d) \in Home(K, l, P)
      /\ CycleTrackCommand(m, d) \in Home(K, l, P)
  BY <1>3, <1>5, <1>7 DEF CycleFocusCommand, CycleFocusTrackCommand, DragFocusTrackCommand,
                          CycleTrackCommand, w
<1>9. /\ ReverseViews(m) \in Home(K, l, P) /\ RotateViews(m, d) \in Home(K, l, P)
      /\ ShuffleMainCommand(m, d, n) \in Home(K, l, P)
      /\ ShuffleStackCommand(m, d, n) \in Home(K, l, P)
  BY <1>4, <1>6, <1>7 DEF ReverseViews, RotateViews, ShuffleMainCommand, ShuffleStackCommand, w
<1> QED BY <1>8, <1>9

\* So do the commands that choose a layout.
LEMMA LayoutCommandsHome ==
  ASSUME NEW K, K \subseteq Views, NEW l, NEW P, NEW m \in Home(K, l, P),
         NEW k \in DOMAIN LayoutKinds, NEW same
  PROVE  /\ SetLayout(m, k, same) \in Home(K, l, P) /\ ToggleLayout(m) \in Home(K, l, P)
         /\ SetLayoutRetainRegion(m, k, same) \in Home(K, l, P)
<1> DEFINE x == SetKind(Current(m), k, same)
           y == SetPrevKind(Current(m))
           S == Site(m, P, m.workspace)
<1>1. m.workspace \in Workspaces /\ Current(m) \in Shaped(Views, K) /\ Current(m) \in S
  BY HomeSits, CurrentSits
<1>2. x \in Shaped(Views, K) /\ y \in Shaped(Views, K) BY <1>1, KindShapes
<1>3. x \in S /\ y \in S BY <1>1, KindSited DEF Site
<1> HIDE DEF x, y
<1>4. /\ LaidOut(OnWorkspace(m, x)) \in Home(K, l, P) /\ LaidOut(OnWorkspace(m, y)) \in Home(K, l, P)
      /\ OnWorkspace(m, x) \in Home(K, l, P)
  BY <1>2, <1>3, OnWorkspaceHome
<1>5. \A n \in Home(K, l, P) : RelayerViews(n, m.workspace) \in Home(K, l, P)
  BY <1>1, RelayerViewsSits, HomeSits
<1>6. LaidOut(RelayerViews(OnWorkspace(m, x), m.workspace)) \in Home(K, l, P)
  BY <1>4, <1>5, LaidOutSits, HomeSits
<1> QED BY <1>4, <1>5, <1>6 DEF SetLayout, ToggleLayout, SetLayoutRetainRegion, x, y

\* The layer set_floating sets is the one the view has: it is set where the view
\* is free already, or is not.
LEMMA SetFloatingHome ==
  ASSUME NEW K, K \subseteq Views, NEW l, NEW P, NEW m \in Home(K, l, P), NEW v \in K,
         NEW b \in BOOLEAN
  PROVE  SetFloating(m, v, b) \in Home(K, l, P)
<1> DEFINE o == m.view[v]
           r == [o EXCEPT !.floating = b]
           t == [m EXCEPT !.view[v] = r]
           k == IF o.floating = b \/ o.free # b THEN o.layer ELSE IF b THEN FREE ELSE TILE
           q == [o EXCEPT !.floating = b, !.layer = k]
           a == ApplyLayout(t, o.ws)
<1>1. m \in Sits(K, l, m.focus, P) /\ v \in Views BY HomeSits
<1>2. o \in ViewRecords /\ o.ws \in Workspaces /\ InPlace(o, P[v]) BY <1>1, KnownSits
<1>3. o.free \in BOOLEAN BY <1>2 DEF ViewRecords
<1>4. k = o.layer BY <1>2, <1>3 DEF InPlace
<1>5. v \in DOMAIN m.view /\ "view" \in DOMAIN m BY DEF Home, Fit, Sound, ModelRecords
<1>6. Tile(m, v, b) = [m EXCEPT !.view[v] = q] BY <1>5 DEF Tile
<1>7. q = r
  <2> HIDE DEF k, o
  <2> QED BY <1>2, <1>4 DEF ViewRecords
<1>8. Tile(m, v, b) = t BY <1>6, <1>7
<1>9. Resembles(r, o) /\ Alike(r, o) BY <1>2, FlagSet, FlagAlike
<1> HIDE DEF r, q, k
<1>10. m \in Still(K, l, m.focus) BY <1>1, SitsFacts
<1>11. t \in Still(K, l, m.focus) BY <1>9, <1>10, ResetView
<1>12. t \in Sits(K, l, m.focus, P) BY <1>1, <1>9, <1>11, SetViewSits
<1>13. SetFloating(m, v, b) = FollowIfFocus(a, v) BY <1>8 DEF SetFloating
<1> HIDE DEF t, o
<1>14. a \in Sits(K, l, m.focus, P) BY <1>2, <1>12, ApplyLayoutSits
<1> HIDE DEF a
<1>15. FollowIfFocus(a, v) \in Sits(K, l, m.focus, P)
  BY <1>14, ActivateTrackOfSits DEF FollowIfFocus
<1> QED BY <1>13, <1>15, HomeSits

\* set_contained leaves the views in place.
LEMMA SetContainedHome ==
  ASSUME NEW K, K \subseteq Views, NEW l, NEW P, NEW m \in Home(K, l, P), NEW v \in K,
         NEW b \in BOOLEAN
  PROVE  SetContained(m, v, b) \in Home(K, l, P)
<1> DEFINE o == m.view[v]
           r == [o EXCEPT !.contained = b]
           t == [m EXCEPT !.view[v] = r]
<1>1. m \in Sits(K, l, m.focus, P) /\ v \in Views BY HomeSits
<1>2. o \in ViewRecords /\ o.ws \in Workspaces BY <1>1, KnownSits
<1>3. Resembles(r, o) /\ Alike(r, o) BY <1>2, FlagSet, FlagAlike
<1>4. m \in Still(K, l, m.focus) BY <1>1, SitsFacts
<1> HIDE DEF r
<1>5. t \in Still(K, l, m.focus) BY <1>3, <1>4, ResetView
<1>6. t \in Sits(K, l, m.focus, P) BY <1>1, <1>3, <1>5, SetViewSits
<1>7. SetContained(m, v, b) = ApplyLayout(t, o.ws) BY DEF SetContained, r
<1> HIDE DEF t, o
<1> QED BY <1>2, <1>6, <1>7, ApplyLayoutSits, HomeSits

\* So does jumping to a view and back.
LEMMA JumpHome ==
  ASSUME NEW K, K \subseteq Views, NEW l, NEW P, NEW m \in Home(K, l, P), NEW v \in Views
  PROVE  JumpView(m, v) \in Home(K, l, P)
<1> DEFINE target == IF v = m.focus /\ m.jumpedFrom # Null THEN m.jumpedFrom ELSE v
           j == IF m.focus # Null THEN m.focus ELSE m.jumpedFrom
           n == [m EXCEPT !.jumpedFrom = j]
<1>0. m \in Fit(K, l) BY DEF Home
<1>1. m \in ModelRecords(CyclesOver(Views, K), K) BY <1>0 DEF Fit, Sound
<1>2. target \in Views /\ j \in Views \cup {Null} BY <1>1 DEF ModelRecords
<1>3. n \in ModelRecords(CyclesOver(Views, K), K) BY <1>1, <1>2 DEF ModelRecords
<1>4. /\ n.view = m.view /\ n.focus = m.focus /\ n.ctx = m.ctx /\ n.outputs = m.outputs
      /\ n.out = m.out /\ n.output = m.output /\ n.ws = m.ws
  BY <1>1 DEF ModelRecords
<1>5. JumpView(m, v) = IF m.view[target].state = "gone" THEN Crashed(m) ELSE FocusView(n, target)
  BY DEF JumpView
<1> HIDE DEF n, target, j
<1>6. n \in Fit(K, l)
  BY <1>0, <1>3, <1>4 DEF Fit, Sound, KnownAre, FocusedIs, ContextsHome, OutputsLive, Wired
<1>7. n \in Home(K, l, P) BY <1>4, <1>6, SameHome
<1>8. FocusView(n, target) \in Home(K, l, P) BY <1>2, <1>7, FocusViewHome
<1> QED BY <1>5, <1>8, CrashedHome

\* So does nudging a view, which is free already.
LEMMA NudgeHome ==
  ASSUME NEW K, K \subseteq Views, NEW l, NEW P, NEW m \in Home(K, l, P), NEW v \in K
  PROVE  NudgeView(m, v) \in Home(K, l, P)
<1> DEFINE p == [view |-> v, method |-> "Free", shown |-> TRUE]
           r == [m.view[v] EXCEPT !.free = TRUE]
           n == [m EXCEPT !.view[v] = r]
<1> SUFFICES ASSUME m.view[v].free PROVE PlaceView(m, p) \in Home(K, l, P)
  BY DEF NudgeView
<1>1. m \in Sits(K, l, m.focus, P) /\ v \in Views BY HomeSits
<1>2. m.view[v] \in ViewRecords /\ InPlace(m.view[v], P[v]) BY <1>1, KnownSits
<1>3. PlacedFree(m, p) = TRUE /\ PlacedLayer[p.method] = FREE BY DEF PlacedFree, PlacedLayer
<1>4. PlaceView(m, p) = Show(MoveViewToTrack(n, v, FREE, FALSE), v, TRUE)
  BY <1>3 DEF PlaceView
<1>5. m.view[v].free = TRUE BY <1>2 DEF ViewRecords
<1>6. Resembles(r, m.view[v]) BY <1>2, FlagSet
<1>7. Alike(r, m.view[v]) BY <1>2, <1>5 DEF Alike, ViewRecords
<1>8. r.layer = FREE BY <1>2, <1>5 DEF InPlace, ViewRecords
<1>9. v \in DOMAIN m.view /\ "view" \in DOMAIN m BY DEF Home, Fit, Sound, ModelRecords
<1>10. n.view[v] = r BY <1>9
<1> HIDE DEF r
<1>11. m \in Still(K, l, m.focus) BY <1>1, SitsFacts
<1>12. n \in Still(K, l, m.focus) BY <1>6, <1>11, ResetView
<1>13. n \in Sits(K, l, m.focus, P) BY <1>1, <1>7, <1>12, SetViewSits
<1> HIDE DEF n
<1>14. MoveViewToTrack(n, v, n.view[v].layer, FALSE) \in Sits(K, l, m.focus, P)
  BY <1>13, MoveTrackSits
<1>15. PlaceView(m, p) \in Sits(K, l, m.focus, P)
  BY <1>1, <1>4, <1>8, <1>10, <1>14, ShowSits
<1> QED BY <1>15, HomeSits

----------------------------------------------------------------------------
(* A view changes its place.                                               *)

\* The workspace w and the view v changed, and v is in no other workspace.
LEMMA MovedPlaced ==
  ASSUME NEW v \in Views, NEW m, NEW P, Placed(m, P), NEW n, NEW Q, DifferIn(v, n, Q, m, P),
         InPlace(n.view[v], Q[v]), NEW w \in Workspaces, n.ws[w] \in Site(n, Q, w),
         \A u \in Workspaces \ {w} : /\ n.ws[u] = m.ws[u]
                                     /\ P[v].ws # u \/ P[v].in = "none"
                                     /\ Q[v].ws # u \/ Q[v].in = "none"
  PROVE  Placed(n, Q)
<1>1. \A u \in Views : InPlace(n.view[u], Q[u]) BY DEF Placed, DifferIn
<1>2. ASSUME NEW u \in Workspaces, u # w PROVE n.ws[u] \in Site(n, Q, u)
  <2>1. Site(n, Q, u) = Site(m, P, u) BY <1>2, SiteElsewhere
  <2> QED BY <1>2, <2>1 DEF Placed
<1> QED BY <1>1, <1>2 DEF Placed

\* A view taken out of its workspace by remove_view, whatever workspace it
\* points to then.
LEMMA LeavePlaced ==
  ASSUME NEW m, NEW P, Placed(m, P), NEW v \in Views, m.view[v].layer \in TrackLayers,
         NEW w \in Workspaces, P[v].ws = w, NEW n, NEW Q, DifferIn(v, n, Q, m, P),
         InPlace(n.view[v], Q[v]), Q[v].in = "none",
         \A u \in Workspaces : n.ws[u] = IF u = w THEN RemoveView(m.ws[w], v, m.view[v].layer)
                                         ELSE m.ws[u]
  PROVE  Placed(n, Q)
<1> DEFINE T == TracksAt(m, P, w)
           k == m.view[v].layer
           V == ViewsAt(P, w)
           I == IconsAt(P, w)
<1>1. T \in [TrackLayers -> SUBSET Views] BY SiteTypes
<1>2. m.ws[w] \in Sited(V, I, T) BY DEF Placed, Site
<1>3. v \notin ViewsAt(Q, w) /\ v \notin IconsAt(Q, w) BY DEF ViewsAt, IconsAt
<1>4. T = TracksAt(m, P, w) /\ k \in TrackLayers OBVIOUS
<1> HIDE DEF T
<1>5. /\ ViewsAt(Q, w) = V \ {v} /\ IconsAt(Q, w) = I \ {v}
      /\ TracksAt(n, Q, w) = [T EXCEPT ![k] = T[k] \ {v}]
  BY <1>3, <1>4, SiteLeft
<1> HIDE DEF V, I, k
<1>6. RemoveView(m.ws[w], v, k) \in Sited(V \ {v}, I \ {v}, [T EXCEPT ![k] = T[k] \ {v}])
  BY <1>1, <1>2, <1>4, RemoveViewSited
<1>7. n.ws[w] \in Site(n, Q, w) BY <1>5, <1>6 DEF Site, k
<1> QED BY <1>7, MovedPlaced

\* A view that was in no container put into its workspace by add_view.
LEMMA JoinPlaced ==
  ASSUME NEW m, NEW P, Placed(m, P), NEW v \in Views, m.view[v].layer \in TrackLayers,
         NEW w \in Workspaces, P[v].ws = w, P[v].in = "none", NEW n, NEW Q,
         n.view[v].layer = m.view[v].layer, DifferIn(v, n, Q, m, P), InPlace(n.view[v], Q[v]),
         Q[v].ws = w, Q[v].in = "view",
         \A u \in Workspaces : n.ws[u] = IF u = w THEN AddView(m.ws[w], v, m.view[v].layer)
                                         ELSE m.ws[u]
  PROVE  Placed(n, Q)
<1> DEFINE T == TracksAt(m, P, w)
           k == m.view[v].layer
           V == ViewsAt(P, w)
           I == IconsAt(P, w)
<1>1. T \in [TrackLayers -> SUBSET Views] BY SiteTypes
<1>2. m.ws[w] \in Sited(V, I, T) BY DEF Placed, Site
<1>3. v \notin V /\ v \notin I /\ v \notin T[k] BY SiteTypes DEF ViewsAt, IconsAt
<1>4. T = TracksAt(m, P, w) /\ k \in TrackLayers /\ n.view[v].layer = k OBVIOUS
<1> HIDE DEF T
<1>5. /\ ViewsAt(Q, w) = V \cup {v} /\ IconsAt(Q, w) = I \ {v}
      /\ TracksAt(n, Q, w) = [T EXCEPT ![k] = T[k] \cup {v}]
  BY <1>3, <1>4, SiteEntered, SMTT(30)
<1>6. I \ {v} = I BY <1>3
<1> HIDE DEF V, I, k
<1>7. AddView(m.ws[w], v, k) \in Sited(V \cup {v}, I, [T EXCEPT ![k] = T[k] \cup {v}])
  BY <1>1, <1>2, <1>3, <1>4, AddViewSited
<1>8. n.ws[w] \in Site(n, Q, w) BY <1>5, <1>6, <1>7 DEF Site, k
<1> QED BY <1>8, MovedPlaced

\* What view_to_icon and icon_to_view make of where a view is.
IconPlace(p, b) == [p EXCEPT !.in = IF b THEN "icon" ELSE IF p.in = "icon" THEN "view" ELSE p.in]

\* The workspace after set_iconify.
LEMMA IconPlaced ==
  ASSUME NEW m, NEW P, Placed(m, P), NEW v \in Views, m.view[v].layer \in TrackLayers,
         NEW w \in Workspaces, P[v] \in Spots, P[v].ws = w, NEW n, NEW Q, NEW b \in BOOLEAN,
         Alike(n.view[v], m.view[v]), DifferIn(v, n, Q, m, P), Q[v] = IconPlace(P[v], b),
         \A u \in Workspaces :
           n.ws[u] = IF u = w THEN IF b THEN ViewToIcon(m.ws[w], v, m.view[v].layer)
                                        ELSE IconToView(m.ws[w], v, m.view[v].layer)
                     ELSE m.ws[u]
  PROVE  Placed(n, Q)
<1> DEFINE T == TracksAt(m, P, w)
           k == m.view[v].layer
           V == ViewsAt(P, w)
           I == IconsAt(P, w)
           x == m.ws[w]
<1>1. T \in [TrackLayers -> SUBSET Views] BY SiteTypes
<1>2. x \in Sited(V, I, T) BY DEF Placed, Site
<1>3. /\ v \in V <=> P[v].in = "view"
      /\ v \in I <=> P[v].in = "icon"
      /\ v \in T[k] <=> P[v].in = "view"
  <2>1. (v \in V <=> P[v].in = "view") /\ (v \in I <=> P[v].in = "icon") BY DEF ViewsAt, IconsAt
  <2>2. v \in T[k] <=> v \in V BY SiteTypes
  <2> QED BY <2>1, <2>2
<1>4. T = TracksAt(m, P, w) /\ k \in TrackLayers /\ n.view[v].layer = k BY DEF Alike
<1>5. /\ Q[v].ws = w /\ Q[v].state = P[v].state
      /\ Q[v].in = IF b THEN "icon" ELSE IF P[v].in = "icon" THEN "view" ELSE P[v].in
  BY DEF IconPlace, Spots
<1>6. InPlace(n.view[v], Q[v])
  <2>1. InPlace(m.view[v], P[v]) BY DEF Placed
  <2> QED BY <1>5, <2>1 DEF InPlace, Alike
<1> HIDE DEF T, x
<1>7. n.ws[w] \in Site(n, Q, w)
  <2>1. CASE b /\ P[v].in # "icon"
    <3>1. v \notin ViewsAt(Q, w) /\ v \in IconsAt(Q, w) BY <1>5, <2>1 DEF ViewsAt, IconsAt
    <3>2. /\ ViewsAt(Q, w) = V \ {v} /\ IconsAt(Q, w) = I \cup {v}
          /\ TracksAt(n, Q, w) = [T EXCEPT ![k] = T[k] \ {v}]
      BY <1>4, <3>1, SiteLeft
    <3>4. v \notin I BY <1>3, <2>1
    <3> HIDE DEF V, I, k
    <3>3. ViewToIcon(x, v, k) \in Sited(V \ {v}, I \cup {v}, [T EXCEPT ![k] = T[k] \ {v}])
      BY <1>1, <1>2, <1>4, <3>4, ToIconSited
    <3> QED BY <2>1, <3>2, <3>3 DEF Site, k, x
  <2>2. CASE ~b /\ P[v].in = "icon"
    <3>1. Q[v].in = "view" BY <1>5, <2>2
    <3>2. v \notin V /\ v \in I /\ v \notin T[k] BY <1>3, <2>2
    <3>3. /\ ViewsAt(Q, w) = V \cup {v} /\ IconsAt(Q, w) = I \ {v}
          /\ TracksAt(n, Q, w) = [T EXCEPT ![k] = T[k] \cup {v}]
      BY <1>4, <1>5, <3>1, <3>2, SiteEntered, SMTT(30)
    <3> HIDE DEF V, I, k
    <3>4. IconToView(x, v, k) \in Sited(V \cup {v}, I \ {v}, [T EXCEPT ![k] = T[k] \cup {v}])
      BY <1>1, <1>2, <1>4, <3>2, ToViewSited
    <3> QED BY <2>2, <3>3, <3>4 DEF Site, k, x
  <2>3. CASE (b /\ P[v].in = "icon") \/ (~b /\ P[v].in # "icon")
    <3>1. Q[v].in = P[v].in BY <1>5, <2>3
    <3>2. ViewsAt(Q, w) = V /\ IconsAt(Q, w) = I
      BY <1>5, <3>1 DEF DifferIn, ViewsAt, IconsAt
    <3>3. \A u \in Views : n.view[u].layer = m.view[u].layer BY DEF DifferIn, Alike
    <3>4. TracksAt(n, Q, w) = T
      <4>1. \A j : {u \in ViewsAt(Q, w) : n.view[u].layer = j} = {u \in ViewsAt(P, w) : m.view[u].layer = j}
        BY <3>2, <3>3 DEF ViewsAt
      <4> QED BY <1>4, <4>1 DEF TracksAt
    <3>5. (v \in I <=> P[v].in = "icon") BY <1>3
    <3> HIDE DEF V, I, k
    <3>6. b => ViewToIcon(x, v, k) = x
      <4> SUFFICES ASSUME b PROVE ViewToIcon(x, v, k) = x OBVIOUS
      <4>1. v \in I BY <2>3, <3>5
      <4> QED BY <1>2, <4>1, IconStaysSited
    <3>7. ~b => IconToView(x, v, k) = x
      <4>1. Has(x.icons, I) BY <1>2, SiteParts
      <4>2. Contains(x.icons, v) <=> v \in I BY <4>1 DEF Has, Contains
      <4> QED BY <2>3, <3>5, <4>2 DEF IconToView
    <3> QED BY <1>2, <3>2, <3>4, <3>6, <3>7 DEF Site, k, x
  <2> QED BY <2>1, <2>2, <2>3
<1> QED BY <1>5, <1>6, <1>7, MovedPlaced

\* A view that was in no workspace and is in none, the workspaces unchanged.
LEMMA NowherePlaced ==
  ASSUME NEW v \in Views, NEW m, NEW P, Placed(m, P), NEW n, NEW Q, DifferIn(v, n, Q, m, P),
         InPlace(n.view[v], Q[v]), n.ws = m.ws, Q[v].in = "none",
         \A w \in Workspaces : P[v].ws # w \/ P[v].in = "none"
  PROVE  Placed(n, Q)
<1>1. \A u \in Views : InPlace(n.view[u], Q[u]) BY DEF Placed, DifferIn
<1>2. ASSUME NEW w \in Workspaces PROVE n.ws[w] \in Site(n, Q, w)
  <2>1. Site(n, Q, w) = Site(m, P, w) BY SiteElsewhere
  <2> QED BY <2>1 DEF Placed
<1> QED BY <1>1, <1>2 DEF Placed

\* A view's workspace without it, and with it, before it is laid out.
Without(m, v, w) == [m EXCEPT !.ws[w] = RemoveView(@, v, m.view[v].layer)]
With(m, v, w)    == [m EXCEPT !.ws[w] = AddView(@, v, m.view[v].layer)]

LEMMA WithoutHome ==
  ASSUME NEW K, K \subseteq Views, NEW l, NEW n \in Fit(K, l), NEW v \in K, NEW m, NEW P,
         Placed(m, P), n.ws = m.ws, NEW R, DifferIn(v, n, R, m, P),
         n.view[v].layer = m.view[v].layer, InPlace(n.view[v], R[v]), R[v].in = "none",
         NEW w \in Workspaces, P[v].ws = w
  PROVE  Without(n, v, w) \in Home(K, l, R)
<1> DEFINE x == RemoveView(n.ws[w], v, n.view[v].layer)
           y == [n EXCEPT !.ws[w] = x]
<1>1. v \in Views /\ n.view[v].layer \in TrackLayers BY KnownFit
<1>2. x \in Shaped(Views, K) BY <1>1, WsFit, RemoveViewShape
<1>3. Without(n, v, w) = y BY DEF Without
<1>4. x = RemoveView(m.ws[w], v, m.view[v].layer) OBVIOUS
<1> HIDE DEF x
<1>5. y \in Fit(K, l) BY <1>1, <1>2, SetWsFit
<1>6. n \in ModelRecords(CyclesOver(Views, K), K) BY DEF Fit, Sound
<1>7. y.view = n.view /\ \A u \in Workspaces : y.ws[u] = IF u = w THEN x ELSE m.ws[u]
  BY <1>6 DEF ModelRecords
<1> HIDE DEF y
<1>8. DifferIn(v, y, R, m, P) /\ InPlace(y.view[v], R[v]) BY <1>7 DEF DifferIn
<1>9. m.view[v].layer \in TrackLayers BY <1>1
<1>10. \A u \in Workspaces : y.ws[u] = IF u = w THEN RemoveView(m.ws[w], v, m.view[v].layer)
                                       ELSE m.ws[u]
  BY <1>4, <1>7
<1>11. Placed(y, R) BY <1>1, <1>8, <1>9, <1>10, LeavePlaced
<1> QED BY <1>3, <1>5, <1>11 DEF Home

\* The first half of move_view_to_workspace takes the view, whose pointer has
\* changed already, out of every container.
LEMMA LeaveHome ==
  ASSUME NEW K, K \subseteq Views, NEW l, NEW n \in Fit(K, l), NEW v \in K, NEW m, NEW P,
         Placed(m, P), n.ws = m.ws, NEW R, DifferIn(v, n, R, m, P),
         n.view[v].layer = m.view[v].layer, InPlace(n.view[v], R[v]), R[v].in = "none",
         NEW w \in Workspaces \cup {Null}, P[v].ws = w
  PROVE  LeaveWorkspace(n, v, w) \in Home(K, l, R)
<1>1. v \in Views OBVIOUS
<1>2. CASE w = Null
  <2>1. \A u \in Workspaces : P[v].ws # u BY <1>2, NullFresh
  <2>2. Placed(n, R) BY <1>1, <2>1, NowherePlaced
  <2> QED BY <1>2, <2>2 DEF LeaveWorkspace, Home
<1>3. CASE w # Null
  <2>1. w \in Workspaces BY <1>3
  <2>2. LeaveWorkspace(n, v, w) = ApplyLayout(Without(n, v, w), w)
    BY <1>3 DEF LeaveWorkspace, Without
  <2>3. Without(n, v, w) \in Home(K, l, R) BY <2>1, WithoutHome
  <2> QED BY <2>1, <2>2, <2>3, ApplyLayoutSits, HomeSits
<1> QED BY <1>2, <1>3

\* The place of a view that has come to a workspace, or is on its way there.
Arrived(p, w)  == [in |-> "view", ws |-> w, state |-> p.state]
Underway(p, w) == [in |-> "none", ws |-> w, state |-> p.state]

\* The second half puts it among the views of its workspace.
LEMMA WithHome ==
  ASSUME NEW K, K \subseteq Views, NEW l, NEW P, NEW m \in Home(K, l, P), NEW v \in K,
         NEW w \in Workspaces, P[v].in = "none", P[v].ws = w, NEW Q,
         Q[v] = Arrived(P[v], w), \A u \in Views \ {v} : Q[u] = P[u]
  PROVE  With(m, v, w) \in Home(K, l, Q)
<1> DEFINE x == AddView(m.ws[w], v, m.view[v].layer)
           y == [m EXCEPT !.ws[w] = x]
<1>1. m \in Fit(K, l) /\ Placed(m, P) /\ v \in Views BY DEF Home
<1>2. m.view[v].layer \in TrackLayers BY <1>1, KnownFit
<1>3. x \in Shaped(Views, K) BY <1>1, <1>2, WsFit, AddViewShape
<1>4. With(m, v, w) = y BY DEF With
<1>5. x = AddView(m.ws[w], v, m.view[v].layer) OBVIOUS
<1> HIDE DEF x
<1>6. y \in Fit(K, l) BY <1>1, <1>3, SetWsFit
<1>7. m \in ModelRecords(CyclesOver(Views, K), K) BY <1>1 DEF Fit, Sound
<1>8. y.view = m.view /\ \A u \in Workspaces : y.ws[u] = IF u = w THEN x ELSE m.ws[u]
  BY <1>7 DEF ModelRecords
<1> HIDE DEF y
<1>9. DifferIn(v, y, Q, m, P) /\ y.view[v].layer = m.view[v].layer BY <1>8 DEF DifferIn
<1>10. Q[v].ws = w /\ Q[v].in = "view" /\ Q[v].state = P[v].state BY DEF Arrived
<1>11. InPlace(y.view[v], Q[v])
  <2>1. InPlace(m.view[v], P[v]) BY <1>1 DEF Placed
  <2> QED BY <1>8, <1>10, <2>1 DEF InPlace
<1>12. \A u \in Workspaces : y.ws[u] = IF u = w THEN AddView(m.ws[w], v, m.view[v].layer)
                                       ELSE m.ws[u]
  BY <1>5, <1>8
<1>13. Placed(y, Q) BY <1>1, <1>2, <1>9, <1>10, <1>11, <1>12, JoinPlaced
<1> QED BY <1>4, <1>6, <1>13 DEF Home

LEMMA JoinHome ==
  ASSUME NEW K, K \subseteq Views, NEW l, NEW P, NEW m \in Home(K, l, P), NEW v \in K,
         NEW w \in Workspaces, P[v].in = "none", P[v].ws = w, NEW Q,
         Q[v] = Arrived(P[v], w), \A u \in Views \ {v} : Q[u] = P[u]
  PROVE  JoinWorkspace(m, v, w) \in Home(K, l, Q)
<1>1. JoinWorkspace(m, v, w) = ApplyLayout(With(m, v, w), w) BY DEF JoinWorkspace, With
<1> QED BY <1>1, WithHome, ApplyLayoutSits, HomeSits

\* A view sent to a workspace is there, in no other place. What is asked of m is
\* asked of it with the view's pointer already changed: a new view points
\* nowhere.
LEMMA MoveToWorkspaceHome ==
  ASSUME NEW K, K \subseteq Views, NEW l, NEW m, NEW P \in [Views -> Spots], Placed(m, P),
         NEW v \in K, NEW to \in Workspaces, m \in ModelRecords(Cycles(Views), Views),
         [m EXCEPT !.view[v].ws = to] \in Fit(K, l), m.view[v].ws = to => m \in Fit(K, l)
  PROVE  MoveViewToWorkspace(m, v, to)
           \in Home(K, l, IF to = P[v].ws THEN P ELSE [P EXCEPT ![v] = Arrived(P[v], to)])
<1> DEFINE o == m.view[v]
           r == [o EXCEPT !.ws = to]
           n == [m EXCEPT !.view[v] = r]
           R == [P EXCEPT ![v] = Underway(P[v], to)]
           Q == [P EXCEPT ![v] = Arrived(P[v], to)]
           left == LeaveWorkspace(n, v, P[v].ws)
           joined == JoinWorkspace(left, v, to)
           shown == ShowIfVisible(joined, v)
<1>1. v \in Views /\ o \in ViewRecords /\ InPlace(o, P[v]) /\ P[v] \in Spots
  BY DEF ModelRecords, Placed
<1>2. o.ws = P[v].ws BY <1>1 DEF InPlace
<1>3. MoveViewToWorkspace(m, v, to) = IF to = P[v].ws THEN m ELSE SyncFocus(shown)
  BY <1>2 DEF MoveViewToWorkspace
<1>4. CASE to = P[v].ws BY <1>2, <1>3, <1>4 DEF Home
<1>5. CASE to # P[v].ws
  <2>1. n \in Fit(K, l) OBVIOUS
  <2> HIDE DEF r
  <2>2. n.ws = m.ws /\ \A u \in Views : n.view[u] = IF u = v THEN r ELSE m.view[u]
    BY DEF ModelRecords
  <2> USE DEF r
  <2>3. /\ r.layer = o.layer /\ r.ws = to /\ r.state = o.state /\ r.free = o.free
        /\ r.fullscreen = o.fullscreen
    BY <1>1 DEF ViewRecords
  <2>4. /\ R[v].in = "none" /\ R[v].ws = to /\ R[v].state = P[v].state
        /\ \A u \in Views \ {v} : R[u] = P[u]
    BY <1>1 DEF Underway
  <2>5. /\ Q[v] = Arrived(R[v], to) /\ \A u \in Views \ {v} : Q[u] = R[u]
    BY <1>1, <2>4 DEF Arrived
  <2> HIDE DEF r, R, Q, n
  <2>6. DifferIn(v, n, R, m, P) BY <2>2, <2>4 DEF DifferIn
  <2>7. n.view[v] = r /\ n.view[v].layer = m.view[v].layer BY <1>1, <2>2, <2>3
  <2>8. InPlace(n.view[v], R[v]) BY <1>1, <2>3, <2>4, <2>7, NullFresh DEF InPlace
  <2>9. P[v].ws \in Workspaces \cup {Null} BY <1>1 DEF Spots
  <2> HIDE DEF o
  <2>10. left \in Home(K, l, R) BY <2>1, <2>2, <2>4, <2>6, <2>7, <2>8, <2>9, LeaveHome
  <2> HIDE DEF left
  <2>11. joined \in Home(K, l, Q) BY <2>4, <2>5, <2>10, JoinHome
  <2> HIDE DEF joined
  <2>12. shown \in Home(K, l, Q) BY <1>1, <2>11, ShowSits, HomeSits DEF ShowIfVisible
  <2> HIDE DEF shown
  <2>13. SyncFocus(shown) \in Home(K, l, Q) BY <2>12, SyncFocusHome
  <2> QED BY <1>3, <1>5, <2>13 DEF Q
<1> QED BY <1>4, <1>5

----------------------------------------------------------------------------
(* Windows that are lodged.                                                *)

\* A mapped window is in a container, and one that is gone points nowhere.
Settled(P) == \A v \in Views : /\ P[v].state = "mapped" => P[v].in # "none"
                               /\ P[v].state = "gone" => P[v].ws = Null

Lodged(K, l) == {m \in Fit(K, l) : \E P \in [Views -> Spots] : Settled(P) /\ Placed(m, P)}

\* The places of a lodged model.
LEMMA LodgedHome ==
  ASSUME NEW K, NEW l, NEW m
  PROVE  m \in Lodged(K, l) <=> \E P \in [Views -> Spots] : Settled(P) /\ m \in Home(K, l, P)
BY DEF Lodged, Home

\* Spots that differ for one view, which is settled too.
LEMMA SettledOn ==
  ASSUME NEW P \in [Views -> Spots], Settled(P), NEW v \in Views, NEW p \in Spots,
         p.state = "mapped" => p.in # "none", p.state = "gone" => p.ws = Null
  PROVE  [P EXCEPT ![v] = p] \in [Views -> Spots] /\ Settled([P EXCEPT ![v] = p])
BY DEF Settled

\* Its containers change, then its flag; the rest is laid out.
Iconified(m, v, b) ==
  [m EXCEPT !.ws[m.view[v].ws] = IF b THEN ViewToIcon(@, v, m.view[v].layer)
                                      ELSE IconToView(@, v, m.view[v].layer),
            !.view[v].iconified = b]
LEMMA IconifiedHome ==
  ASSUME NEW K, K \subseteq Views, NEW l, NEW P \in [Views -> Spots], NEW m \in Home(K, l, P),
         NEW v \in K, NEW b \in BOOLEAN
  PROVE  Iconified(m, v, b) \in Home(K, l, [P EXCEPT ![v] = IconPlace(P[v], b)])
<1>1. m \in Sits(K, l, m.focus, P) /\ m \in Fit(K, l) /\ Placed(m, P) /\ v \in Views
  BY HomeSits DEF Home
<1>2. /\ m.view[v].ws \in Workspaces /\ P[v].ws = m.view[v].ws
      /\ m.view[v].layer \in TrackLayers /\ m.view[v] \in ViewRecords
      /\ m.ws[m.view[v].ws] \in Shaped(Views, K)
  BY <1>1, KnownSits
<1> DEFINE o == m.view[v]
           x == IF b THEN ViewToIcon(m.ws[o.ws], v, o.layer) ELSE IconToView(m.ws[o.ws], v, o.layer)
           s == [m EXCEPT !.ws[o.ws] = x]
           r == [o EXCEPT !.iconified = b]
           t == [s EXCEPT !.view[v] = r]
           p == IconPlace(P[v], b)
           Q == [P EXCEPT ![v] = p]
<1>3. /\ o.ws \in Workspaces /\ o.layer \in TrackLayers /\ P[v].ws = o.ws
      /\ m.ws[o.ws] \in Shaped(Views, K) /\ o \in ViewRecords
  BY <1>2
<1>4. x \in Shaped(Views, K) BY <1>3, IconShapes
<1>5. m \in ModelRecords(CyclesOver(Views, K), K) BY <1>1 DEF Fit, Sound
<1>6. Iconified(m, v, b) = t BY <1>5 DEF ModelRecords, Iconified
<1>7. P[v] \in Spots BY <1>1
<1>8. p = IconPlace(P[v], b) /\ x = IF b THEN ViewToIcon(m.ws[o.ws], v, o.layer)
                                     ELSE IconToView(m.ws[o.ws], v, o.layer)
  OBVIOUS
<1> HIDE DEF p, x
<1>9. Q[v] = p /\ \A w \in Views \ {v} : Q[w] = P[w] BY <1>1
<1>10. Alike(r, o) /\ Resembles(r, o) BY <1>3, FlagAlike, FlagSet
<1> HIDE DEF Q, r
<1>11. s.view = m.view /\ \A w \in Workspaces : s.ws[w] = IF w = o.ws THEN x ELSE m.ws[w]
  BY <1>5 DEF ModelRecords
<1>12. s \in Fit(K, l) BY <1>1, <1>3, <1>4, SetWsFit
<1> HIDE DEF s, o
<1>13. t.ws = s.ws /\ t.view = [m.view EXCEPT ![v] = r] /\ DOMAIN m.view = Views
  BY <1>5, <1>11, <1>12 DEF Fit, Sound, ModelRecords
<1>14. s.view[v] = o BY <1>11 DEF o
<1>15. t \in Fit(K, l) BY <1>10, <1>12, <1>14, ResetViewFit
<1> HIDE DEF t
<1>16. t.view[v] = r /\ \A w \in Views \ {v} : t.view[w] = m.view[w] BY <1>1, <1>13
<1>17. DifferIn(v, t, Q, m, P) BY <1>9, <1>16 DEF DifferIn
<1>18. Alike(t.view[v], m.view[v]) BY <1>10, <1>16 DEF o
<1>19. Placed(t, Q)
  <2>1. m.view[v].layer \in TrackLayers /\ P[v] \in Spots BY <1>3, <1>7 DEF o
  <2>2. \A w \in Workspaces :
           t.ws[w] = IF w = o.ws THEN IF b THEN ViewToIcon(m.ws[o.ws], v, m.view[v].layer)
                                           ELSE IconToView(m.ws[o.ws], v, m.view[v].layer)
                     ELSE m.ws[w]
    BY <1>8, <1>11, <1>13 DEF o
  <2>3. Q[v] = IconPlace(P[v], b) BY <1>8, <1>9
  <2> QED BY <1>1, <1>3, <1>17, <1>18, <2>1, <2>2, <2>3, IconPlaced
<1> QED BY <1>6, <1>15, <1>19 DEF Home, Q, p

\* set_iconify leaves the windows lodged.
LEMMA SetIconifyLodged ==
  ASSUME NEW K, K \subseteq Views, NEW l, NEW m \in Lodged(K, l), NEW v \in K, NEW b \in BOOLEAN
  PROVE  SetIconify(m, v, b) \in Lodged(K, l)
<1>1. PICK P \in [Views -> Spots] : Settled(P) /\ m \in Home(K, l, P) BY LodgedHome
<1> DEFINE w == m.view[v].ws
           t == Iconified(m, v, b)
           u == IF b THEN Unmap(t, v) ELSE t
           p == IconPlace(P[v], b)
           Q == [P EXCEPT ![v] = p]
<1>2. m \in Sits(K, l, m.focus, P) /\ v \in Views BY <1>1, HomeSits
<1>3. w \in Workspaces BY <1>2, KnownSits
<1>4. SetIconify(m, v, b) = IF m.view[v].iconified = b THEN m ELSE SyncFocus(ApplyLayout(u, w))
  BY DEF SetIconify, Iconified
<1>5. P[v] \in Spots BY <1>1, <1>2
<1>6. p \in Spots /\ p.state = P[v].state /\ p.ws = P[v].ws /\ (P[v].in # "none" => p.in # "none")
  BY <1>5 DEF Spots, IconPlace
<1>7. /\ P[v].state = "mapped" => P[v].in # "none"
      /\ P[v].state = "gone" => P[v].ws = Null
  BY <1>1, <1>2 DEF Settled
<1>8. t \in Home(K, l, Q) BY <1>1, IconifiedHome
<1> HIDE DEF p, w, t
<1>9. Q \in [Views -> Spots] /\ Settled(Q) BY <1>1, <1>2, <1>6, <1>7, SettledOn
<1> HIDE DEF Q
<1>10. u \in Sits(K, l, t.focus, Q) BY <1>2, <1>8, HomeSits, ShowSits
<1> HIDE DEF u
<1>11. ApplyLayout(u, w) \in Home(K, l, Q) BY <1>3, <1>10, ApplyLayoutSits, HomeSits
<1>12. SyncFocus(ApplyLayout(u, w)) \in Home(K, l, Q) BY <1>11, SyncFocusHome
<1>13. SyncFocus(ApplyLayout(u, w)) \in Lodged(K, l) BY <1>9, <1>12, LodgedHome
<1> QED BY <1>1, <1>4, <1>13, LodgedHome

\* pop_deiconify and deiconify_all leave them lodged.
LEMMA PopLodged ==
  ASSUME NEW K, K \subseteq Views, NEW l, NEW m \in Lodged(K, l)
  PROVE  PopDeiconify(m) \in Lodged(K, l) /\ DeiconifyAll(m) \in Lodged(K, l)
<1>1. ASSUME NEW n \in Lodged(K, l) PROVE PopDeiconify(n) \in Lodged(K, l)
  <2>1. n \in Fit(K, l) BY DEF Lodged
  <2>2. PopIcon(Current(n)) \in K \cup {Null} BY <2>1, CurrentFit, PopIconType
  <2> QED BY <2>2, SetIconifyLodged DEF PopDeiconify
<1>2. DeiconifyAll(m) \in Lodged(K, l)
  <2> DEFINE s == Current(m).icons.elements
  <2>1. m \in Fit(K, l) BY DEF Lodged
  <2>2. Current(m).icons \in CyclesOver(Views, K) BY <2>1, CurrentFit DEF Shaped, WorkspaceRecords
  <2>3. s \in Seq(K) /\ DOMAIN s = 1..Len(s) BY <2>2, ElementsOver
  <2> HIDE DEF s
  <2>4. Len(s) \in Nat BY <2>3
  <2>5. \A x \in Lodged(K, l), i \in 1..Len(s) : PopAnother(x, s[i]) \in Lodged(K, l)
    BY <1>1 DEF PopAnother
  <2>6. SE!FoldLeft(PopAnother, m, s) \in Lodged(K, l) BY <2>3, <2>4, <2>5, PopFold
  <2> QED BY <2>6 DEF DeiconifyAll, s
<1> QED BY <1>1, <1>2

\* A known view sent to a workspace stays lodged.
LEMMA MoveToWorkspaceLodged ==
  ASSUME NEW K, K \subseteq Views, NEW l, NEW m \in Lodged(K, l), NEW v \in K,
         NEW to \in Workspaces
  PROVE  MoveViewToWorkspace(m, v, to) \in Lodged(K, l)
<1>1. PICK P \in [Views -> Spots] : Settled(P) /\ m \in Home(K, l, P) BY LodgedHome
<1>0. m \in Sits(K, l, m.focus, P) BY <1>1, HomeSits
<1>14. /\ m.view[v].ws \in Workspaces /\ P[v].ws = m.view[v].ws
       /\ m.view[v].layer \in TrackLayers /\ m.view[v] \in ViewRecords
       /\ InPlace(m.view[v], P[v])
       /\ m.ws[m.view[v].ws] \in Shaped(Views, K)
       /\ m.ws[m.view[v].ws] \in Site(m, P, m.view[v].ws)
  BY <1>0, KnownSits
<1> DEFINE p == Arrived(P[v], to)
           Q == [P EXCEPT ![v] = p]
           r == [m.view[v] EXCEPT !.ws = to]
           n == [m EXCEPT !.view[v] = r]
<1>2. m \in Fit(K, l) /\ Placed(m, P) /\ v \in Views BY <1>1 DEF Home
<1>3. m.view[v] \in ViewRecords /\ (m.view[v].focused => v = m.focus)
  BY <1>2, FitStill, ViewFacts
<1>4. r \in ViewRecords /\ r.ws # Null /\ (r.focused => v = m.focus)
  BY <1>3, NullFresh DEF ViewRecords
<1>5. K \cup {v} = K OBVIOUS
<1>6. n \in Fit(K, l)
  <2> HIDE DEF r
  <2> QED BY <1>2, <1>4, <1>5, NewcomerFit
<1>7. [m EXCEPT !.view[v].ws = to] \in Fit(K, l) BY <1>6
<1>8. m \in ModelRecords(Cycles(Views), Views) BY <1>2, SoundType DEF Fit
<1>9. MoveViewToWorkspace(m, v, to) \in Home(K, l, IF to = P[v].ws THEN P ELSE Q)
  BY <1>1, <1>2, <1>7, <1>8, MoveToWorkspaceHome
<1>10. P[v] \in Spots BY <1>1, <1>2
<1>11. P[v].state # "gone" BY <1>1, <1>2, <1>14, NullFresh DEF Settled
<1>12. p \in Spots /\ p.in = "view" /\ p.state # "gone" BY <1>10, <1>11 DEF Arrived, Spots
<1> HIDE DEF p
<1>13. Q \in [Views -> Spots] /\ Settled(Q) BY <1>1, <1>2, <1>12, SettledOn
<1> HIDE DEF Q
<1> QED BY <1>1, <1>9, <1>13, LodgedHome

\* What register_view does once the view is in its workspace.
LEMMA RegisteredHome ==
  ASSUME NEW K, K \subseteq Views, NEW l, NEW P, NEW m \in Home(K, l, P), NEW v \in K
  PROVE  Registered(m, v) \in Home(K, l, P)
<1>1. MoveViewToTrack(m, v, m.view[v].layer, TRUE) \in Home(K, l, P)
  BY HomeSits, MoveTrackSits
<1> QED BY <1>1, SyncFocusHome DEF Registered

\* A window that maps for the first time, with no rule that makes it float or
\* fullscreen, is lodged in its workspace.
LEMMA RegisterLodged ==
  ASSUME NEW K, K \subseteq Views, NEW l, NEW m \in Lodged(K, l), NEW v \in Views,
         m.view[v].state = "gone",
         NEW asked \in Workspaces, NEW rules \in RuleRecords, rules.float = Null, ~rules.fullscreen
  PROVE  \/ RegisterView(m, v, asked, rules).down
         \/ \E J \in SUBSET Views : RegisterView(m, v, asked, rules) \in Lodged(J, l)
<1>1. PICK P \in [Views -> Spots] : Settled(P) /\ m \in Home(K, l, P) BY LodgedHome
<1> DEFINE o == m.view[v]
           output == OutputOf(m, asked)
           context == IF rules.context # Null THEN rules.context ELSE m.out[output]
           to == IF rules.workspace # Null THEN WorkspaceAt(context, rules.workspace)
                 ELSE m.ctx[context].active
           k == IF rules.float = TRUE THEN FREE ELSE TILE
           b == IF rules.float # Null THEN rules.float ELSE rules.prefersFloating
           r == [o EXCEPT !.state = "mapped", !.mapped = TRUE, !.layer = k, !.floating = b]
           mapped == [m EXCEPT !.view[v].state = "mapped", !.view[v].mapped = TRUE,
                               !.view[v].layer = k, !.view[v].floating = b]
           J == K \cup {v}
           there == MoveViewToWorkspace(mapped, v, to)
           p == [in |-> "none", ws |-> Null, state |-> "mapped"]
           R == [P EXCEPT ![v] = p]
           q == Arrived(p, to)
           Q == [R EXCEPT ![v] = q]
<1>2. m \in Fit(K, l) /\ Placed(m, P) BY <1>1 DEF Home
<1>3. m \in ModelRecords(CyclesOver(Views, K), K) /\ m \in ModelRecords(Cycles(Views), Views)
  BY <1>2, SoundType DEF Fit, Sound
<1>4. k = TILE /\ b \in BOOLEAN BY NullAssumption DEF RuleRecords
<1>5. RegisterView(m, v, asked, rules) =
        IF output = Null /\ rules.context = Null THEN Crashed(m) ELSE Registered(there, v)
  BY DEF RegisterView
<1>6. mapped = [m EXCEPT !.view[v] = r]
  <2>1. v \in DOMAIN m.view /\ "view" \in DOMAIN m BY <1>3 DEF ModelRecords
  <2> HIDE DEF k, b
  <2> QED BY <2>1
<1> HIDE DEF k, b, mapped
<1>7. CASE output = Null /\ rules.context = Null
  <2>1. Crashed(m).down BY <1>3 DEF Crashed, ModelRecords
  <2> QED BY <1>5, <1>7, <2>1
<1>8. CASE ~(output = Null /\ rules.context = Null)
  <2>1. context \in Contexts
    <3>1. CASE rules.context # Null BY <3>1 DEF RuleRecords
    <3>2. CASE rules.context = Null BY <1>2, <1>8, <3>2, OutputOfLive
    <3> QED BY <3>1, <3>2
  <2> HIDE DEF context
  <2>2. to \in Workspaces
    <3>1. rules.workspace # Null => rules.workspace \in 0..(NWorkspaces - 1) BY DEF RuleRecords
    <3>2. m.ctx[context].active \in Workspaces BY <1>2, <2>1, FitStill, ShownWorkspace
    <3> QED BY <2>1, <3>1, <3>2, WorkspaceAtType
  <2> HIDE DEF to
  <2>3. o \in ViewRecords /\ (o.focused => v = m.focus) /\ InPlace(o, P[v])
    BY <1>2, FitStill, ViewFacts DEF Placed
  <2>4. P[v].state = "gone" /\ P[v].ws = Null /\ o.ws = Null
    BY <1>1, <2>3 DEF InPlace, Settled
  <2>5. ~o.free /\ ~o.fullscreen BY <2>3, <2>4 DEF InPlace
  <2>6. TILE \in TrackLayers BY DEF TrackLayers
  <2>7. /\ r \in ViewRecords /\ r.ws = Null /\ (r.focused => v = m.focus)
        /\ r.state = "mapped" /\ r.layer = TILE /\ ~r.free /\ ~r.fullscreen
    BY <1>4, <2>3, <2>4, <2>5, <2>6 DEF ViewRecords
  <2> DEFINE s == [r EXCEPT !.ws = to]
  <2>8. s \in ViewRecords /\ s.ws = to /\ (s.focused => v = m.focus)
    BY <2>2, <2>7 DEF ViewRecords
  <2> HIDE DEF r
  <2>9. mapped \in ModelRecords(Cycles(Views), Views) BY <1>3, <1>6, <2>7 DEF ModelRecords
  <2>10. mapped.ws = m.ws /\ mapped.view = [m.view EXCEPT ![v] = r] /\ DOMAIN m.view = Views
    BY <1>3, <1>6 DEF ModelRecords
  <2>11. [mapped EXCEPT !.view[v].ws = to] = [m EXCEPT !.view[v] = s]
    BY <1>3, <1>6 DEF ModelRecords
  <2> HIDE DEF s
  <2>12. [mapped EXCEPT !.view[v].ws = to] \in Fit(J, l)
    BY <1>2, <2>2, <2>8, <2>11, NullFresh, NewcomerFit
  <2>13. mapped.view[v] = r /\ \A u \in Views \ {v} : mapped.view[u] = m.view[u] BY <2>10
  <2>14. p \in Spots /\ p.in = "none" /\ p.ws = Null /\ p.state = "mapped" BY DEF Spots
  <2> HIDE DEF p
  <2>15. R \in [Views -> Spots] /\ R[v] = p /\ \A u \in Views \ {v} : R[u] = P[u]
    BY <1>1, <2>14
  <2> HIDE DEF R
  <2>16. DifferIn(v, mapped, R, m, P) BY <2>13, <2>15 DEF DifferIn
  <2>17. InPlace(mapped.view[v], R[v]) BY <2>7, <2>13, <2>14, <2>15 DEF InPlace
  <2>18. R[v].in = "none" /\ \A w \in Workspaces : P[v].ws # w
    BY <2>4, <2>14, <2>15, NullFresh
  <2>19. Placed(mapped, R) BY <1>2, <2>10, <2>16, <2>17, <2>18, NowherePlaced
  <2>20. to # R[v].ws /\ mapped.view[v].ws # to BY <2>2, <2>7, <2>13, <2>14, <2>15, NullFresh
  <2>21. v \in J /\ J \subseteq Views OBVIOUS
  <2> HIDE DEF J
  <2>22. there \in Home(J, l, IF to = R[v].ws THEN R ELSE [R EXCEPT ![v] = Arrived(R[v], to)])
    BY <2>2, <2>9, <2>12, <2>15, <2>19, <2>20, <2>21, MoveToWorkspaceHome
  <2> HIDE DEF there
  <2>23. there \in Home(J, l, Q) BY <2>15, <2>20, <2>22
  <2>24. Registered(there, v) \in Home(J, l, Q) BY <2>21, <2>23, RegisteredHome
  <2>25. Q \in [Views -> Spots] /\ Settled(Q)
    <3>1. q \in Spots /\ q.in = "view" /\ q.state = "mapped" BY <2>2, <2>14 DEF Arrived, Spots
    <3> HIDE DEF q
    <3>2. Q = [P EXCEPT ![v] = q] BY <1>1 DEF R
    <3> HIDE DEF Q
    <3> QED BY <1>1, <3>1, <3>2, SettledOn
  <2> HIDE DEF Q
  <2>26. Registered(there, v) \in Lodged(J, l) BY <2>24, <2>25, LodgedHome
  <2> QED BY <1>5, <1>8, <2>21, <2>26
<1> QED BY <1>7, <1>8

\* A window that unmaps is out of every container, or the process ends.
LEMMA UnregisterLodged ==
  ASSUME NEW K, K \subseteq Views, NEW l, NEW m \in Lodged(K, l), NEW v \in K
  PROVE  UnregisterView(m, v).down \/ UnregisterView(m, v) \in Lodged(K, l)
<1>1. PICK P \in [Views -> Spots] : Settled(P) /\ m \in Home(K, l, P) BY LodgedHome
<1> DEFINE w == m.view[v].ws
           x == LeaveWorkspace(m, v, w)
           y == SyncFocus(x)
           r == [y.view[v] EXCEPT !.state = "unmapped", !.managed = FALSE]
           n == [y EXCEPT !.view[v] = r]
           p == [P[v] EXCEPT !.in = "none"]
           R == [P EXCEPT ![v] = p]
           q == [p EXCEPT !.state = "unmapped"]
           Q == [P EXCEPT ![v] = q]
<1>2. m \in Fit(K, l) /\ Placed(m, P) /\ v \in Views BY <1>1 DEF Home
<1>3. w \in Workspaces /\ P[v].ws = w /\ InPlace(m.view[v], P[v]) BY <1>1, HomeSits, KnownSits
<1>4. P[v] \in Spots BY <1>1, <1>2
<1>5. p \in Spots /\ p.in = "none" /\ p.ws = w /\ p.state = P[v].state BY <1>3, <1>4 DEF Spots
<1>6. q \in Spots /\ q.in = "none" /\ q.ws = w /\ q.state = "unmapped" BY <1>5 DEF Spots
<1> HIDE DEF p, q
<1>7. R[v] = p /\ \A u \in Views \ {v} : R[u] = P[u] BY <1>1, <1>2
<1>8. Q \in [Views -> Spots] /\ Settled(Q) BY <1>1, <1>2, <1>6, SettledOn
<1>9. Q[v] = q /\ \A u \in Views \ {v} : Q[u] = P[u] BY <1>1, <1>2
<1> HIDE DEF R, Q
<1>10. DifferIn(v, m, R, m, P) BY <1>7 DEF DifferIn
<1>11. InPlace(m.view[v], R[v]) BY <1>3, <1>5, <1>7 DEF InPlace
<1>12. R[v].in = "none" /\ w \in Workspaces \cup {Null} BY <1>3, <1>5, <1>7
<1> HIDE DEF w
<1>13. x \in Home(K, l, R) BY <1>2, <1>3, <1>10, <1>11, <1>12, LeaveHome
<1>14. UnregisterView(m, v) = IF x.output = Null THEN Crashed(x)
                              ELSE ApplyLayout([y EXCEPT !.view[v].state = "unmapped",
                                                         !.view[v].managed = FALSE],
                                               x.view[v].ws)
  BY DEF UnregisterView, Unregistered, w
<1> HIDE DEF x
<1>15. Crashed(x).down BY <1>13 DEF Home, Fit, Sound, ModelRecords, Crashed
<1>16. y \in Home(K, l, R) BY <1>13, SyncFocusHome
<1> HIDE DEF y
<1>17. y \in Fit(K, l) /\ Placed(y, R) BY <1>16 DEF Home
<1>18. y \in ModelRecords(CyclesOver(Views, K), K) BY <1>17 DEF Fit, Sound
<1>19. [y EXCEPT !.view[v].state = "unmapped", !.view[v].managed = FALSE] = n
  <2>1. v \in DOMAIN y.view /\ "view" \in DOMAIN y BY <1>2, <1>18 DEF ModelRecords
  <2> QED BY <2>1
<1>20. y.view[v] \in ViewRecords /\ (y.view[v].focused => v = y.focus)
  BY <1>2, <1>17, FitStill, ViewFacts
<1>21. InPlace(y.view[v], R[v]) BY <1>2, <1>17 DEF Placed
<1>22. /\ r \in ViewRecords /\ r.ws = y.view[v].ws /\ (r.focused => v = y.focus)
       /\ r.state = "unmapped" /\ r.layer = y.view[v].layer /\ r.free = y.view[v].free
       /\ r.fullscreen = y.view[v].fullscreen
  BY <1>20 DEF ViewRecords
<1> HIDE DEF r
<1>23. n \in Fit(K, l) BY <1>2, <1>17, <1>22, SetView, FitStill
<1>24. n.ws = y.ws /\ n.view = [y.view EXCEPT ![v] = r] /\ DOMAIN y.view = Views
  BY <1>18 DEF ModelRecords
<1> HIDE DEF n
<1>25. n.view[v] = r /\ \A u \in Views \ {v} : n.view[u] = y.view[u] BY <1>2, <1>24
<1>26. DifferIn(v, n, Q, y, R) BY <1>7, <1>9, <1>25 DEF DifferIn
<1>27. InPlace(n.view[v], Q[v])
  BY <1>5, <1>6, <1>7, <1>9, <1>21, <1>22, <1>25 DEF InPlace
<1>28. Q[v].in = "none" /\ \A u \in Workspaces : R[v].ws # u \/ R[v].in = "none"
  BY <1>6, <1>9, <1>12
<1>29. Placed(n, Q) BY <1>2, <1>17, <1>24, <1>26, <1>27, <1>28, NowherePlaced
<1>30. n \in Home(K, l, Q) BY <1>23, <1>29 DEF Home
<1>31. x.view[v].ws \in Workspaces BY <1>13, HomeSits, KnownSits
<1>32. ApplyLayout(n, x.view[v].ws) \in Home(K, l, Q) BY <1>30, <1>31, ApplyLayoutSits, HomeSits
<1>33. ApplyLayout(n, x.view[v].ws) \in Lodged(K, l) BY <1>8, <1>32, LodgedHome
<1> QED BY <1>14, <1>15, <1>19, <1>33

\* A window that is destroyed was in no container, or the process goes down; it
\* then points nowhere.
LEMMA DestroyLodged ==
  ASSUME NEW K, K \subseteq Views, NEW l, NEW m \in Lodged(K, l), NEW v \in Views
  PROVE  DestroyView(m, v).down \/ DestroyView(m, v) \in Lodged(K \ {v}, l)
<1>1. PICK P \in [Views -> Spots] : Settled(P) /\ m \in Home(K, l, P) BY LodgedHome
<1> DEFINE n == DestroyView(m, v)
           p == [in |-> "none", ws |-> Null, state |-> "gone"]
           Q == [P EXCEPT ![v] = p]
<1>2. m \in Fit(K, l) /\ Placed(m, P) BY <1>1 DEF Home
<1>3. m \in ModelRecords(CyclesOver(Views, K), K) BY <1>2 DEF Fit, Sound
<1>4. /\ n.view = [m.view EXCEPT ![v] = NewView] /\ n.ws = m.ws /\ DOMAIN m.view = Views
      /\ n.down = (m.down \/ Referenced(m, v))
  BY <1>3 DEF DestroyView, ModelRecords
<1>5. SUFFICES ASSUME ~n.down PROVE n \in Lodged(K \ {v}, l) OBVIOUS
<1>6. n \in Fit(K \ {v}, l) BY <1>2, <1>5, DestroyFit
<1>7. ~Referenced(m, v) BY <1>4, <1>5
<1> HIDE DEF n
<1>8. P[v] \in Spots BY <1>1
<1>9. \A w \in Workspaces : P[v].ws # w \/ P[v].in = "none"
  <2> SUFFICES ASSUME NEW w \in Workspaces, P[v].ws = w, P[v].in # "none" PROVE FALSE OBVIOUS
  <2>1. P[v].in \in {"view", "icon"} BY <1>8 DEF Spots
  <2>2. v \in ViewsAt(P, w) \cup IconsAt(P, w) BY <2>1 DEF ViewsAt, IconsAt
  <2>3. m.ws[w] \in Site(m, P, w) BY <1>2 DEF Placed
  <2>4. Has(m.ws[w].views, ViewsAt(P, w)) /\ Has(m.ws[w].icons, IconsAt(P, w))
    BY <2>3, SiteTypes, SiteParts DEF Site
  <2>5. Contains(m.ws[w].views, v) \/ Contains(m.ws[w].icons, v)
    BY <2>2, <2>4 DEF Has, Contains
  <2>6. ~Contains(m.ws[w].views, v) /\ ~Contains(m.ws[w].icons, v) BY <1>7 DEF Referenced
  <2> QED BY <2>5, <2>6
<1>10. p \in Spots /\ p.in = "none" /\ p.ws = Null /\ p.state = "gone" BY DEF Spots
<1> HIDE DEF p
<1>11. Q \in [Views -> Spots] /\ Settled(Q) BY <1>1, <1>10, SettledOn
<1>12. Q[v] = p /\ \A u \in Views \ {v} : Q[u] = P[u] BY <1>1
<1> HIDE DEF Q
<1>13. n.view[v] = NewView /\ \A u \in Views \ {v} : n.view[u] = m.view[u] BY <1>4
<1>14. DifferIn(v, n, Q, m, P) BY <1>12, <1>13 DEF DifferIn
<1>15. InPlace(n.view[v], Q[v])
  <2>1. InPlace(NewView, p) BY <1>10 DEF NewView, InPlace
  <2> QED BY <1>12, <1>13, <2>1
<1>16. Q[v].in = "none" BY <1>10, <1>12
<1>17. Placed(n, Q) BY <1>2, <1>4, <1>9, <1>14, <1>15, <1>16, NowherePlaced
<1> QED BY <1>6, <1>11, <1>17 DEF Lodged

----------------------------------------------------------------------------
(* Contexts and outputs.                                                   *)

\* activate_context leaves the views in place.
LEMMA ActivateContextHome ==
  ASSUME NEW K, K \subseteq Views, NEW P, NEW m, m \in Home(K, m, P), NEW c \in Contexts
  PROVE  Placed(ActivateContext(m, c), P)
<1> DEFINE hidden  == SE!FoldLeft(Unmap, m, Current(m).views.elements)
           there   == m.ctx[c].output
           swapped == IF there # Null /\ there # m.output
                      THEN SetContext(hidden, there, m.context) ELSE hidden
           set     == SetContext(swapped, m.output, c)
           shown   == [set EXCEPT !.prevContext = m.context, !.context = c, !.ctxIndex = c]
           last    == ActivateWorkspace(shown, m.ctx[c].active)
<1>1. m \in Sound(K) /\ Placed(m, P) BY DEF Home, Fit
<1>2. /\ m.workspace \in Workspaces /\ m.context \in Contexts
      /\ m.ctx[c] \in ContextRecords /\ m.output \in Outputs \cup {Null}
  BY <1>1 DEF Sound, ModelRecords
<1>3. hidden \in Sound(K) /\ Placed(hidden, P)
  <2>1. hidden \in Home(K, m, P) BY <1>2, HomeSits, HideSits DEF Current
  <2> QED BY <2>1 DEF Home, Fit
<1>4. there \in Outputs \cup {Null} /\ m.ctx[c].active \in Workspaces
  BY <1>2 DEF ContextRecords
<1>5. ActivateContext(m, c) = IF c = m.context THEN m
                              ELSE IF m.output = Null THEN Crashed(hidden) ELSE last
  BY DEF ActivateContext
<1> HIDE DEF hidden, there
<1>6. Crashed(hidden).ws = hidden.ws /\ Crashed(hidden).view = hidden.view
  BY <1>3 DEF Crashed, Sound, ModelRecords
<1>7. Placed(Crashed(hidden), P) BY <1>3, <1>6, SamePlaces DEF Alike
<1>8. ASSUME NEW n \in Sound(K), Placed(n, P), NEW o \in Outputs, NEW d \in Contexts
      PROVE  SetContext(n, o, d) \in Sound(K) /\ Placed(SetContext(n, o, d), P)
  <2>1. SetContext(n, o, d).ws = n.ws /\ SetContext(n, o, d).view = n.view
    BY <1>8 DEF SetContext, Sound, ModelRecords
  <2> QED BY <1>8, <2>1, SetContextSound, SamePlaces DEF Alike
<1>9. swapped \in Sound(K) /\ Placed(swapped, P) BY <1>2, <1>3, <1>4, <1>8
<1> HIDE DEF swapped
<1>10. ASSUME m.output # Null PROVE Placed(last, P)
  <2>1. set \in Sound(K) /\ Placed(set, P) BY <1>2, <1>8, <1>9, <1>10
  <2> HIDE DEF set
  <2>2. shown \in Sound(K) BY <1>2, <2>1, ContextChosenFit, FitSound
  <2>3. shown.ws = set.ws /\ shown.view = set.view BY <2>1 DEF Sound, ModelRecords
  <2> HIDE DEF shown
  <2>4. Placed(shown, P) BY <2>1, <2>3, SamePlaces DEF Alike
  <2>5. shown \in Home(K, shown, P) BY <2>2, <2>4, FitSound DEF Home
  <2>6. last \in Home(K, shown, P) BY <1>4, <2>5, ActivateWorkspaceHome
  <2> QED BY <2>6 DEF Home
<1> QED BY <1>1, <1>5, <1>7, <1>10

\* An output that comes or goes leaves the views in place.
LEMMA OutputsHome ==
  ASSUME NEW K, K \subseteq Views, NEW P, NEW m, m \in Home(K, m, P), NEW o \in Outputs
  PROVE  Placed(NewOutput(m, o), P) /\ Placed(DestroyOutput(m, o), P)
<1> DEFINE u == UpdateOutputs(m)
<1>1. u \in Home(K, m, P) BY UpdateOutputsSits, HomeSits
<1>2. u \in ModelRecords(CyclesOver(Views, K), K) /\ Placed(u, P) BY <1>1 DEF Home, Fit, Sound
<1>3. DestroyOutput(m, o).ws = u.ws /\ DestroyOutput(m, o).view = u.view
  BY <1>2 DEF DestroyOutput, ModelRecords
<1>4. NewOutput(m, o).ws = u.ws /\ NewOutput(m, o).view = u.view
  BY <1>2 DEF NewOutput, RegisterOutput, SetContext, Crashed, ModelRecords
<1> HIDE DEF u
<1>5. Placed(DestroyOutput(m, o), P) BY <1>2, <1>3, SamePlaces DEF Alike
<1>6. Placed(NewOutput(m, o), P) BY <1>2, <1>4, SamePlaces DEF Alike
<1> QED BY <1>5, <1>6

\* At the start every view points nowhere, and every container is empty.
Nowhere == [v \in Views |-> [in |-> "none", ws |-> Null, state |-> "gone"]]

LEMMA ConstructedHome ==
  ASSUME NEW kind \in DOMAIN LayoutKinds
  PROVE  /\ Nowhere \in [Views -> Spots] /\ Settled(Nowhere)
         /\ Constructed(kind) \in Home({}, Constructed(kind), Nowhere)
<1> DEFINE n == Constructed(kind)
           p == [in |-> "none", ws |-> Null, state |-> "gone"]
           P == Nowhere
           e == EmptyCycle(TRUE)
<1>1. n \in Fit({}, n) BY ConstructedSound, FitSound
<1>2. /\ \A w \in Workspaces : n.ws[w] = NewWorkspace(kind)
      /\ \A v \in Views : n.view[v] = NewView
  BY DEF Constructed
<1> HIDE DEF n
<1>3. p \in Spots /\ p.in = "none" /\ p.ws = Null /\ p.state = "gone" BY DEF Spots
<1>4. InPlace(NewView, p) BY <1>3 DEF NewView, InPlace
<1>8. P = [v \in Views |-> p] BY DEF Nowhere
<1> HIDE DEF p
<1>5. P \in [Views -> Spots] /\ Settled(P) BY <1>3, <1>8 DEF Settled
<1>6. ASSUME NEW w \in Workspaces PROVE n.ws[w] \in Site(n, P, w)
  <2>1. ViewsAt(P, w) = {} /\ IconsAt(P, w) = {} BY <1>3, <1>8 DEF ViewsAt, IconsAt
  <2>2. \A l \in TrackLayers : TracksAt(n, P, w)[l] = {} BY <2>1 DEF TracksAt
  <2>3. Has(e, {})
    <3> DEFINE nil == << >>
    <3>1. nil \in Seq(Views) /\ IsDistinct(nil) /\ Range(nil) = {} /\ Len(nil) = 0
      BY DEF IsDistinct, Range
    <3>2. e = [elements |-> nil, index |-> 0, stack |-> nil, unwindable |-> TRUE]
      BY DEF EmptyCycle
    <3> HIDE DEF nil, e
    <3> QED BY <3>1, <3>2 DEF Has, IsCycle, Cycles, IndexBounded, LiveHistory, LastIndex, Size
  <2>4. /\ NewWorkspace(kind).views = e /\ NewWorkspace(kind).icons = e
        /\ \A l \in TrackLayers : NewWorkspace(kind).tracks[l] = e
    BY DEF NewWorkspace
  <2> HIDE DEF e
  <2>5. NewWorkspace(kind) \in Shaped(Views, Views) BY NewShape
  <2> QED BY <1>2, <2>1, <2>2, <2>3, <2>4, <2>5 DEF Site, Sited
<1>7. Placed(n, P) BY <1>2, <1>4, <1>6, <1>8 DEF Placed
<1> QED BY <1>1, <1>5, <1>7 DEF Home, n

----------------------------------------------------------------------------
(* The specification.                                                      *)

\* No window maps a second time before it is destroyed, and none is or becomes
\* fullscreen, nor floats by a rule, before or while it is shown.
Plain == Families \cap {"remap", "traits", "fullscreen"} = {}

\* As long as the process runs, some known views are lodged.
Housed(m) == ~m.down => \E K \in SUBSET Views : m \in Lodged(K, m)

\* The inductive invariant.
PlacementInvariant == ModelInvariant /\ Housed(model)

\* Views in settled places are housed.
LEMMA HomeHoused ==
  ASSUME NEW K, K \subseteq Views, NEW l, NEW P \in [Views -> Spots], Settled(P), NEW n,
         n \in Home(K, l, P)
  PROVE  Housed(n)
<1>1. n \in Fit(K, n) /\ Placed(n, P) BY FitSound DEF Home
<1> QED BY <1>1 DEF Housed, Lodged

\* Lodged views are housed.
LEMMA LodgedHoused ==
  ASSUME NEW K, K \subseteq Views, NEW l, NEW n, n \in Lodged(K, l)
  PROVE  Housed(n)
<1>1. n \in Fit(K, n) BY FitSound DEF Lodged
<1> QED BY <1>1 DEF Housed, Lodged

\* The actions of the windows leave the views housed.
LEMMA WindowHoused ==
  ASSUME Plain, NEW K, K \subseteq Views, model \in Lodged(K, model), NEW v \in Views,
         \/ \E asked \in AskedWorkspaces, rules \in RuleSets : MapView(v, asked, rules)
         \/ \E on \in BOOLEAN : RequestFullscreen(v, on)
         \/ \E w \in Workspaces : MoveToWorkspace(v, w)
         \/ UnmapView(v) \/ Destroy(v) \/ FocusUnderCursor(v) \/ RequestActivate(v)
         \/ ReverseFloating(v) \/ ReverseFullscreen(v) \/ Nudge(v) \/ Jump(v)
         \/ MapOnNoOutput(v)
  PROVE  Housed(model')
<1>1. PICK P \in [Views -> Spots] : Settled(P) /\ model \in Home(K, model, P) BY LodgedHome
<1>2. model \in Fit(K, model) BY DEF Lodged
<1>3. ASSUME NEW asked \in AskedWorkspaces, NEW rules \in RuleSets, MapView(v, asked, rules)
      PROVE  Housed(model')
  <2>1. asked \in Workspaces
    <3>1. /\ model.workspace \in Workspaces /\ model.out \in [Outputs -> Contexts \cup {Null}]
          /\ model.ctx \in [Contexts -> ContextRecords]
      BY <1>2 DEF Fit, Sound, ModelRecords
    <3> QED BY <3>1 DEF AskedWorkspaces, Attached, ContextRecords
  <2>2. rules \in RuleRecords BY DEF RuleSets, RuleRecords
  <2>3. "traits" \notin Families /\ "remap" \notin Families BY DEF Plain
  <2>4. rules.float = Null /\ ~rules.fullscreen BY <2>3 DEF RuleSets
  <2>5. model' = RegisterView(model, v, asked, rules) /\ model.view[v].state = "gone"
    BY <1>3, <2>3 DEF MapView, Mappable
  <2>6. model'.down \/ \E J \in SUBSET Views : model' \in Lodged(J, model)
    BY <2>1, <2>2, <2>4, <2>5, RegisterLodged
  <2>7. CASE model'.down BY <2>7 DEF Housed
  <2>8. ASSUME NEW J \in SUBSET Views, model' \in Lodged(J, model) PROVE Housed(model')
    BY <2>8, LodgedHoused
  <2> QED BY <2>6, <2>7, <2>8
<1>4. ASSUME v = focus \/ v \in Pointable PROVE v \in K
  BY <1>2, <1>4, MappedKnown, NullFresh DEF Pointable
<1>5. ASSUME NEW w \in Workspaces, MoveToWorkspace(v, w) PROVE Housed(model')
  <2>1. v \in K BY <1>4, <1>5 DEF MoveToWorkspace
  <2> QED BY <1>5, <2>1, MoveToWorkspaceLodged, LodgedHoused DEF MoveToWorkspace
<1>6. CASE UnmapView(v)
  <2>1. v \in K BY <1>2, <1>6, MappedKnown DEF UnmapView
  <2>2. model' = UnregisterView(model, v) BY <1>6 DEF UnmapView
  <2>3. model'.down \/ model' \in Lodged(K, model) BY <2>1, <2>2, UnregisterLodged
  <2> QED BY <2>3, LodgedHoused DEF Housed
<1>7. CASE Destroy(v)
  <2>1. model' = DestroyView(model, v) BY <1>7 DEF Destroy
  <2>2. model'.down \/ model' \in Lodged(K \ {v}, model) BY <2>1, DestroyLodged
  <2>3. CASE model'.down BY <2>3 DEF Housed
  <2>4. ASSUME model' \in Lodged(K \ {v}, model) PROVE Housed(model')
    <3>1. K \ {v} \subseteq Views OBVIOUS
    <3> QED BY <2>4, <3>1, LodgedHoused
  <2> QED BY <2>2, <2>3, <2>4
<1>8. ASSUME NEW n, n \in Home(K, model, P) PROVE FocusView(n, v) \in Home(K, model, P)
  BY <1>8, FocusViewHome
<1>9. CASE FocusUnderCursor(v) \/ RequestActivate(v)
  <2>1. model' = FocusView(model, v) BY <1>9 DEF FocusUnderCursor, RequestActivate
  <2> QED BY <1>1, <1>8, <2>1, HomeHoused
<1>10. CASE ReverseFloating(v)
  <2>1. v \in K BY <1>4, <1>10 DEF ReverseFloating
  <2>2. (~model.view[v].floating) \in BOOLEAN OBVIOUS
  <2>3. SetFloating(model, v, ~model.view[v].floating) \in Home(K, model, P)
    BY <1>1, <2>1, <2>2, SetFloatingHome
  <2>4. FocusManaged(SetFloating(model, v, ~model.view[v].floating), v) \in Home(K, model, P)
    BY <1>8, <2>3 DEF FocusManaged
  <2> QED BY <1>1, <1>10, <2>3, <2>4, HomeHoused DEF ReverseFloating
<1>11. CASE Nudge(v)
  <2>1. v \in K BY <1>4, <1>11 DEF Nudge
  <2> QED BY <1>1, <1>11, <2>1, NudgeHome, HomeHoused DEF Nudge
<1>12. CASE Jump(v)
  BY <1>1, <1>12, JumpHome, HomeHoused DEF Jump
<1>13. ~ReverseFullscreen(v) /\ \A on \in BOOLEAN : ~RequestFullscreen(v, on)
  BY DEF Plain, ReverseFullscreen, RequestFullscreen, Uses
<1>14. CASE MapOnNoOutput(v)
  <2>1. model'.down BY <1>2, <1>14 DEF MapOnNoOutput, Crashed, Fit, Sound, ModelRecords
  <2> QED BY <2>1 DEF Housed
<1> QED BY <1>3, <1>5, <1>6, <1>7, <1>9, <1>10, <1>11, <1>12, <1>13, <1>14

\* So do the bindings.
LEMMA BindingHoused ==
  ASSUME NEW K, K \subseteq Views, model \in Lodged(K, model),
         \/ \E d \in Directions : MoveFocus(d) \/ DragFocus(d) \/ Reorder(d)
         \/ \E d \in Directions, n \in 0..2 : Shuffle(d, n)
         \/ \E k \in Kinds, same \in BOOLEAN : ChooseLayout(k, same)
         \/ SwitchLayout \/ ReverseContained \/ ReverseIconify \/ Deiconify
         \/ \E w \in Workspaces : SwitchWorkspace(w)
         \/ RegainFocus \/ Relayout
  PROVE  Housed(model')
<1>1. PICK P \in [Views -> Spots] : Settled(P) /\ model \in Home(K, model, P) BY LodgedHome
<1>2. model \in Fit(K, model) BY DEF Lodged
<1>3. model' \in Home(K, model, P) => Housed(model') BY <1>1, HomeHoused
<1>4. ASSUME NEW d \in Directions, MoveFocus(d) \/ DragFocus(d) \/ Reorder(d)
      PROVE  Housed(model')
  <2>1. 0 \in Nat OBVIOUS
  <2>2. /\ CycleFocusCommand(model, d) \in Home(K, model, P)
        /\ CycleFocusTrackCommand(model, d) \in Home(K, model, P)
        /\ DragFocusTrackCommand(model, d) \in Home(K, model, P)
        /\ CycleTrackCommand(model, d) \in Home(K, model, P)
        /\ ReverseViews(model) \in Home(K, model, P)
        /\ RotateViews(model, d) \in Home(K, model, P)
    BY <1>1, <2>1, FocusCommandsHome
  <2> QED BY <1>3, <1>4, <2>2 DEF MoveFocus, DragFocus, Reorder
<1>5. ASSUME NEW d \in Directions, NEW n \in 0..2, Shuffle(d, n) PROVE Housed(model')
  <2>1. n \in Nat OBVIOUS
  <2>2. /\ ShuffleMainCommand(model, d, n) \in Home(K, model, P)
        /\ ShuffleStackCommand(model, d, n) \in Home(K, model, P)
    BY <1>1, <2>1, FocusCommandsHome
  <2> QED BY <1>3, <1>5, <2>2 DEF Shuffle
<1>6. ASSUME NEW k \in Kinds, NEW same \in BOOLEAN, ChooseLayout(k, same) PROVE Housed(model')
  <2>1. k \in DOMAIN LayoutKinds BY KindsAssumption
  <2>2. /\ SetLayout(model, k, same) \in Home(K, model, P)
        /\ SetLayoutRetainRegion(model, k, same) \in Home(K, model, P)
    BY <1>1, <2>1, LayoutCommandsHome
  <2> QED BY <1>3, <1>6, <2>2 DEF ChooseLayout
<1>7. CASE SwitchLayout
  <2>1. InitialKind \in DOMAIN LayoutKinds BY KindsAssumption
  <2>2. ToggleLayout(model) \in Home(K, model, P) BY <1>1, <2>1, LayoutCommandsHome
  <2> QED BY <1>3, <1>7, <2>2 DEF SwitchLayout
<1>8. CASE ReverseContained
  <2>1. focus \in K BY <1>2, <1>8, MappedKnown DEF ReverseContained
  <2>2. (~model.view[focus].contained) \in BOOLEAN OBVIOUS
  <2>3. SetContained(model, focus, ~model.view[focus].contained) \in Home(K, model, P)
    BY <1>1, <2>1, <2>2, SetContainedHome
  <2> QED BY <1>3, <1>8, <2>3 DEF ReverseContained
<1>9. CASE ReverseIconify
  <2>1. focus \in K BY <1>2, <1>9, MappedKnown DEF ReverseIconify
  <2>2. (~model.view[focus].iconified) \in BOOLEAN OBVIOUS
  <2>3. SetIconify(model, focus, ~model.view[focus].iconified) \in Lodged(K, model)
    BY <2>1, <2>2, SetIconifyLodged
  <2> QED BY <1>9, <2>3, LodgedHoused DEF ReverseIconify
<1>10. CASE Deiconify
  <2>1. PopDeiconify(model) \in Lodged(K, model) /\ DeiconifyAll(model) \in Lodged(K, model)
    BY PopLodged
  <2> QED BY <1>10, <2>1, LodgedHoused DEF Deiconify
<1>11. ASSUME NEW w \in Workspaces, SwitchWorkspace(w) PROVE Housed(model')
  BY <1>1, <1>3, <1>11, ActivateWorkspaceHome DEF SwitchWorkspace
<1>12. CASE RegainFocus
  BY <1>1, <1>3, <1>12, RefocusHome DEF RegainFocus
<1>13. CASE Relayout
  <2>1. UpdateOutputs(model) \in Home(K, model, P) BY <1>1, UpdateOutputsSits, HomeSits
  <2> QED BY <1>3, <1>13, <2>1 DEF Relayout
<1> QED BY <1>4, <1>5, <1>6, <1>7, <1>8, <1>9, <1>10, <1>11, <1>12, <1>13

\* So do the actions on contexts and outputs.
LEMMA OutputHoused ==
  ASSUME NEW K, K \subseteq Views, model \in Lodged(K, model),
         \/ \E c \in Contexts : SwitchContext(c)
         \/ \E o \in Outputs : AttachOutput(o) \/ DetachOutput(o)
  PROVE  Housed(model')
<1>1. PICK P \in [Views -> Spots] : Settled(P) /\ model \in Home(K, model, P) BY LodgedHome
<1>2. model \in Sound(K) BY <1>1, FitSound DEF Home
<1>3. ASSUME ~model'.down => model' \in Sound(K), Placed(model', P) PROVE Housed(model')
  <2>1. SUFFICES ASSUME ~model'.down PROVE Housed(model') BY DEF Housed
  <2>2. model' \in Home(K, model', P) BY <1>3, <2>1, FitSound DEF Home
  <2> QED BY <1>1, <2>2, HomeHoused
<1>4. ASSUME NEW c \in Contexts, SwitchContext(c) PROVE Housed(model')
  <2>1. model' = ActivateContext(model, c) BY <1>4 DEF SwitchContext
  <2>2. model' \in Sound(K) BY <1>2, <2>1, ActivateContextSound
  <2>3. Placed(model', P) BY <1>1, <2>1, ActivateContextHome
  <2> QED BY <1>3, <2>2, <2>3
<1>5. ASSUME NEW o \in Outputs, AttachOutput(o) PROVE Housed(model')
  <2>1. model' = NewOutput(model, o) BY <1>5 DEF AttachOutput
  <2>2. model' \in Sound(K) BY <1>2, <2>1, NewOutputSound
  <2>3. Placed(model', P) BY <1>1, <2>1, OutputsHome
  <2> QED BY <1>3, <2>2, <2>3
<1>6. ASSUME NEW o \in Outputs, DetachOutput(o) PROVE Housed(model')
  <2>1. model' = DestroyOutput(model, o) /\ model.out[o] # Null BY <1>6 DEF DetachOutput, Attached
  <2>2. ~model'.down => model' \in Sound(K) BY <1>2, <2>1, DestroyOutputSound
  <2>3. Placed(model', P) BY <1>1, <2>1, OutputsHome
  <2> QED BY <1>3, <2>2, <2>3
<1> QED BY <1>4, <1>5, <1>6

\* The views are housed when the first output has been registered.
THEOREM PlacementStarts == Init => PlacementInvariant
<1> SUFFICES ASSUME NEW o \in Outputs, model = NewOutput(Constructed(InitialKind), o)
             PROVE  Housed(model)
  BY ModelStarts DEF Init, PlacementInvariant
<1> DEFINE n == Constructed(InitialKind)
           P == Nowhere
<1>1. InitialKind \in DOMAIN LayoutKinds BY KindsAssumption
<1>2. P \in [Views -> Spots] /\ Settled(P) /\ n \in Home({}, n, P) BY <1>1, ConstructedHome
<1>3. n \in Sound({}) BY <1>2, FitSound DEF Home
<1> HIDE DEF n
<1>4. model = NewOutput(n, o) BY DEF n
<1> HIDE DEF P
<1>5. {} \subseteq Views OBVIOUS
<1>6. model \in Sound({}) BY <1>3, <1>4, <1>5, NewOutputSound
<1>7. Placed(model, P) BY <1>2, <1>4, <1>5, OutputsHome
<1>8. model \in Home({}, model, P) BY <1>6, <1>7, FitSound DEF Home
<1> QED BY <1>2, <1>5, <1>8, HomeHoused

\* The inductive step: every handler leaves every window in its place.
THEOREM PlacementSteps ==
  ASSUME Plain
  PROVE  PlacementInvariant /\ [Next]_model => PlacementInvariant'
<1> SUFFICES ASSUME ModelInvariant, Housed(model), [Next]_model PROVE Housed(model')
  BY ModelSteps DEF PlacementInvariant
<1>1. CASE UNCHANGED model BY <1>1
<1>2. CASE Next
  <2>1. ~model.down BY <1>2, StepRuns
  <2>2. PICK K \in SUBSET Views : model \in Lodged(K, model) BY <2>1 DEF Housed
  <2> QED BY <1>2, <2>2, WindowHoused, BindingHoused, OutputHoused DEF Next, Handled
<1> QED BY <1>1, <1>2

\* What the contents of the containers are in a lodged model.
LEMMA LodgedContents ==
  ASSUME NEW K, NEW l, model \in Lodged(K, l)
  PROVE  \E P \in [Views -> Spots] :
           /\ Settled(P)
           /\ \A v \in Views : model.view[v].ws = P[v].ws /\ model.view[v].state = P[v].state
           /\ \A w \in Workspaces :
                /\ Has(model.ws[w].views, ViewsAt(P, w)) /\ Has(model.ws[w].icons, IconsAt(P, w))
                /\ DOMAIN model.ws[w].tracks = TrackLayers
                /\ \A k \in TrackLayers :
                     Has(model.ws[w].tracks[k], {v \in ViewsAt(P, w) : model.view[v].layer = k})
<1>1. PICK P \in [Views -> Spots] : Settled(P) /\ Placed(model, P) BY DEF Lodged
<1>2. \A v \in Views : model.view[v].ws = P[v].ws /\ model.view[v].state = P[v].state
  BY <1>1 DEF Placed, InPlace
<1>3. ASSUME NEW w \in Workspaces
      PROVE  /\ Has(model.ws[w].views, ViewsAt(P, w)) /\ Has(model.ws[w].icons, IconsAt(P, w))
             /\ DOMAIN model.ws[w].tracks = TrackLayers
             /\ \A k \in TrackLayers :
                  Has(model.ws[w].tracks[k], {v \in ViewsAt(P, w) : model.view[v].layer = k})
  <2>1. model.ws[w] \in Sited(ViewsAt(P, w), IconsAt(P, w), TracksAt(model, P, w))
    BY <1>1 DEF Placed, Site
  <2>2. model.ws[w] \in Shaped(Views, Views) BY <2>1 DEF Sited
  <2>3. DOMAIN model.ws[w].tracks = TrackLayers BY <2>2 DEF Shaped, WorkspaceRecords
  <2>4. \A k \in TrackLayers :
          TracksAt(model, P, w)[k] = {v \in ViewsAt(P, w) : model.view[v].layer = k}
    BY DEF TracksAt
  <2> QED BY <2>1, <2>3, <2>4 DEF Sited
<1> QED BY <1>1, <1>2, <1>3

\* In a housed model the tracks partition the views by layer.
LEMMA HousedTracks == PlacementInvariant => TracksPartitionViews
<1> SUFFICES ASSUME PlacementInvariant, ~model.down, NEW w \in Workspaces
             PROVE  /\ \A v \in Members(model.ws[w].views) :
                         Contains(model.ws[w].tracks[model.view[v].layer], v)
                    /\ \A l \in TrackLayers : \A v \in Members(model.ws[w].tracks[l]) :
                         Contains(model.ws[w].views, v) /\ model.view[v].layer = l
  BY DEF TracksPartitionViews
<1>1. PICK K \in SUBSET Views : model \in Lodged(K, model) BY DEF PlacementInvariant, Housed
<1>2. PICK P \in [Views -> Spots] : \A u \in Workspaces :
                /\ Has(model.ws[u].views, ViewsAt(P, u)) /\ Has(model.ws[u].icons, IconsAt(P, u))
                /\ DOMAIN model.ws[u].tracks = TrackLayers
                /\ \A k \in TrackLayers :
                     Has(model.ws[u].tracks[k], {v \in ViewsAt(P, u) : model.view[v].layer = k})
  BY <1>1, LodgedContents
<1> DEFINE V == ViewsAt(P, w)
<1>3. /\ Range(model.ws[w].views.elements) = V /\ V \subseteq Views
      /\ \A k \in TrackLayers :
           Range(model.ws[w].tracks[k].elements) = {v \in V : model.view[v].layer = k}
  BY <1>2 DEF Has, ViewsAt
<1>4. \A v \in Views : model.view[v].layer \in TrackLayers
  <2>1. model \in Sound(K) BY <1>1, FitSound DEF Lodged
  <2> QED BY <2>1, PartTypes DEF ViewRecords
<1> HIDE DEF V
<1> QED BY <1>3, <1>4 DEF Members, Contains

\* In a housed model the windows are home.
LEMMA HousedWindows == PlacementInvariant => WindowsAreHome
<1> SUFFICES ASSUME PlacementInvariant, ~model.down
             PROVE  /\ \A w \in Workspaces :
                         /\ \A c \in CyclesOf(model.ws[w]) : IsCycle(c, Views)
                         /\ Members(model.ws[w].views) \cap Members(model.ws[w].icons) = {}
                         /\ \A v \in Members(model.ws[w].views) \cup Members(model.ws[w].icons) :
                              model.view[v].ws = w
                    /\ \A v \in Mapped :
                         \/ Contains(model.ws[model.view[v].ws].views, v)
                         \/ Contains(model.ws[model.view[v].ws].icons, v)
  BY DEF WindowsAreHome
<1>1. PICK K \in SUBSET Views : model \in Lodged(K, model) BY DEF PlacementInvariant, Housed
<1>2. PICK P \in [Views -> Spots] :
           /\ Settled(P)
           /\ \A v \in Views : model.view[v].ws = P[v].ws /\ model.view[v].state = P[v].state
           /\ \A u \in Workspaces :
                /\ Has(model.ws[u].views, ViewsAt(P, u)) /\ Has(model.ws[u].icons, IconsAt(P, u))
                /\ DOMAIN model.ws[u].tracks = TrackLayers
                /\ \A k \in TrackLayers :
                     Has(model.ws[u].tracks[k], {v \in ViewsAt(P, u) : model.view[v].layer = k})
  BY <1>1, LodgedContents
<1>3. ASSUME NEW w \in Workspaces
      PROVE  /\ Members(model.ws[w].views) = ViewsAt(P, w)
             /\ Members(model.ws[w].icons) = IconsAt(P, w)
  BY <1>2 DEF Has, Members
<1>4. ASSUME NEW w \in Workspaces, NEW c \in CyclesOf(model.ws[w]) PROVE IsCycle(c, Views)
  <2>1. CASE c \in {model.ws[w].views, model.ws[w].icons} BY <1>2, <2>1 DEF Has
  <2>2. CASE c \in Range(model.ws[w].tracks)
    <3>1. PICK k \in TrackLayers : c = model.ws[w].tracks[k] BY <1>2, <2>2 DEF Range
    <3> QED BY <1>2, <3>1 DEF Has
  <2> QED BY <2>1, <2>2 DEF CyclesOf
<1>5. ASSUME NEW w \in Workspaces
      PROVE  /\ ViewsAt(P, w) \cap IconsAt(P, w) = {}
             /\ \A v \in ViewsAt(P, w) \cup IconsAt(P, w) : model.view[v].ws = w
  BY <1>2 DEF ViewsAt, IconsAt
<1>6. ASSUME NEW v \in Mapped
      PROVE  \/ Contains(model.ws[model.view[v].ws].views, v)
             \/ Contains(model.ws[model.view[v].ws].icons, v)
  <2> DEFINE w == model.view[v].ws
  <2>1. v \in Views /\ model.view[v].state = "mapped" BY DEF Mapped
  <2>2. w \in Workspaces
    <3>1. model \in Fit(K, model) BY <1>1 DEF Lodged
    <3>2. v \in K BY <3>1, MappedKnown
    <3> QED BY <3>1, <3>2, KnownFit
  <2>3. P[v].ws = w /\ P[v].state = "mapped" BY <1>2, <2>1
  <2>4. P[v].in \in {"view", "icon"}
    <3>1. P[v] \in Spots BY <2>1
    <3>2. P[v].in # "none" BY <1>2, <2>1, <2>3 DEF Settled
    <3> QED BY <3>1, <3>2 DEF Spots
  <2>5. v \in ViewsAt(P, w) \/ v \in IconsAt(P, w) BY <2>1, <2>3, <2>4 DEF ViewsAt, IconsAt
  <2> HIDE DEF w
  <2>6. Contains(model.ws[w].views, v) \/ Contains(model.ws[w].icons, v)
    BY <1>3, <2>2, <2>5 DEF Members, Contains
  <2> QED BY <2>6 DEF w
<1> QED BY <1>3, <1>4, <1>5, <1>6

\* Every window is among the views or the icons of the workspace it points to,
\* once, and nowhere else, in every state in which the process runs: for any
\* number of windows, workspaces and outputs, unless a window maps again on the
\* same workspace, or is made fullscreen.
THEOREM WindowsStayHome ==
  ASSUME Plain
  PROVE  Spec => []WindowsAreHome
<1>1. Spec => []PlacementInvariant BY PlacementStarts, PlacementSteps, PTL DEF Spec
<1> QED BY <1>1, HousedWindows, PTL

\* Every view is in the track of its scene layer and in no other, under the same
\* conditions: whoever changes a layer changes the track.
THEOREM TracksStayApart ==
  ASSUME Plain
  PROVE  Spec => []TracksPartitionViews
<1>1. Spec => []PlacementInvariant BY PlacementStarts, PlacementSteps, PTL DEF Spec
<1> QED BY <1>1, HousedTracks, PTL
==============================================================================
