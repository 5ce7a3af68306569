----------------------------- MODULE Workspace -----------------------------
(***************************************************************************)
(* Workspace (src/kranewl/workspace.cc, include/kranewl/workspace.hh): the *)
(* views of one workspace, the tracks (one per scene layer) they are also  *)
(* kept in, the icons, and the one view that is active.                    *)
(*                                                                         *)
(* A workspace is a record                                                 *)
(*   views           m_views                                               *)
(*   tracks          m_tracks, by layer                                    *)
(*   icons           m_iconified_views                                     *)
(*   trackLayer      m_track_layer                                         *)
(*   prevTrackLayer  m_prev_track_layer                                    *)
(*   track           the layer of the track mp_track points to             *)
(*   active          mp_active                                             *)
(*   kind, prevKind  the kinds of mp_layout and mp_prev_layout             *)
(* and every method is an operator from workspaces to workspaces. What it  *)
(* reads of a view (its scene layer) is an argument.                       *)
(*                                                                         *)
(* Views are only ever put on the layers TILE, FREE and OVERLAY, so the    *)
(* tracks of the other five layers stay empty and are left out.            *)
(***************************************************************************)
EXTENDS Cycle

TILE    == 2
FREE    == 3
OVERLAY == 5

TrackLayers == {TILE, FREE, OVERLAY}
LayerCount  == 8                        \* of SceneLayer, the empty ones included

\* Layout kinds that behave alike are one kind: what the configuration of a
\* kind says of its placement method, and of persistent, single and wraps.
LayoutKinds == [Float       |-> [free |-> TRUE,  persistent |-> FALSE, single |-> FALSE, wraps |-> TRUE],
                SingleFloat |-> [free |-> TRUE,  persistent |-> TRUE,  single |-> TRUE,  wraps |-> TRUE],
                Stack       |-> [free |-> FALSE, persistent |-> FALSE, single |-> FALSE, wraps |-> TRUE],
                Paper       |-> [free |-> FALSE, persistent |-> TRUE,  single |-> FALSE, wraps |-> FALSE]]

Layout(w) == LayoutKinds[w.kind]

\* A kind of the same behaviour may be another kind (Monocle after Center) or
\* the very same one, which set_kind ignores.
SetKind(w, k, same) ==
  IF same /\ k = w.kind THEN w ELSE [w EXCEPT !.prevKind = w.kind, !.kind = k]
SetPrevKind(w) == [w EXCEPT !.kind = w.prevKind, !.prevKind = w.kind]

NewWorkspace(kind) ==
  [views |-> EmptyCycle(TRUE), icons |-> EmptyCycle(TRUE),
   tracks |-> [l \in TrackLayers |-> EmptyCycle(TRUE)],
   trackLayer |-> FREE, prevTrackLayer |-> TILE, track |-> FREE,
   active |-> Null, kind |-> kind, prevKind |-> kind]

----------------------------------------------------------------------------
(* The active view, and the view m_views holds as active.                  *)

\* The idiom that ends most methods: what has become active is activated in
\* m_views too, if there is anything.
Activated(w, v) ==
  [w EXCEPT !.active = v,
            !.views  = IF v # Null THEN ActivateElement(@, v) ELSE @]

FromViews(w) == [w EXCEPT !.active = ActiveElement(w.views)]

CurrentTrack(w) == w.tracks[w.track]

----------------------------------------------------------------------------
(* Tracks.                                                                 *)

ActivateTrack(w, layer) ==
  Activated([w EXCEPT !.track = layer, !.prevTrackLayer = w.trackLayer,
                      !.trackLayer = layer],
            ActiveElement(w.tracks[layer]))

ToggleTrack(w) == ActivateTrack(w, w.prevTrackLayer)

\* How many steps from one layer to the next, all the way round from a layer
\* to itself.
Steps(from, to, direction) ==
  LET n == (IF direction = "Forward" THEN to - from ELSE from - to) % LayerCount
  IN  IF n = 0 THEN LayerCount ELSE n

FilledTracks(w) == {l \in TrackLayers : Size(w.tracks[l]) > 0}

\* The first track in the direction that is not empty, or back where it began.
NextTrackLayer(w, direction) ==
  IF FilledTracks(w) = {}
  THEN w.trackLayer
  ELSE CHOOSE l \in FilledTracks(w) : \A k \in FilledTracks(w) :
         Steps(w.trackLayer, l, direction) <= Steps(w.trackLayer, k, direction)

\* m_track_layer is stepped in place before activate_track saves it as the
\* previous one: both come to be the new layer.
CycleTrack(w, direction) ==
  LET l == NextTrackLayer(w, direction)
  IN  ActivateTrack([w EXCEPT !.trackLayer = l], l)

CycleTrackSucceeds(w) == FilledTracks(w) # {}

AddViewToTrack(w, view, layer, shiftFocus) ==
  IF Contains(w.tracks[layer], view)
  THEN w
  ELSE LET tracks     == [w.tracks EXCEPT ![layer] = InsertAtBack(@, view)]
           trackLayer == IF shiftFocus \/ Size(tracks[w.trackLayer]) = 0
                         THEN layer ELSE w.trackLayer
       IN  [w EXCEPT !.tracks     = tracks,
                     !.trackLayer = trackLayer,
                     !.active     = IF shiftFocus \/ layer = trackLayer
                                    THEN view ELSE @]

\* Mutants: any track's removal moves the focus; an emptied track leaves the
\* removed view active, or leaves none.
RemoveMovingFocus(w, view, layer) ==
  LET removed == [w EXCEPT !.tracks[layer] = RemoveElement(@, view)]
      next    == ActiveElement(removed.tracks[layer])
  IN  IF next # Null THEN Activated(removed, next) ELSE CycleTrack(removed, "Forward")
RemoveKeepingActive(w, view, layer) ==
  LET removed == [w EXCEPT !.tracks[layer] = RemoveElement(@, view)]
      next    == ActiveElement(removed.tracks[layer])
  IN  IF layer = w.trackLayer /\ next # Null THEN Activated(removed, next) ELSE removed
RemoveLeavingNone(w, view, layer) ==
  LET removed == [w EXCEPT !.tracks[layer] = RemoveElement(@, view)]
  IN  IF layer = w.trackLayer
      THEN Activated(removed, ActiveElement(removed.tracks[layer])) ELSE removed

\* What takes over from a view that left the track.
NextInTrack(w, layer) ==
  LET next == ActiveElement(w.tracks[layer])
  IN  IF layer # w.trackLayer THEN w
      ELSE IF next # Null THEN Activated(w, next)
      ELSE CycleTrack([w EXCEPT !.active = Null], "Forward")

RemoveViewFromTrack(w, view, layer) ==
  NextInTrack([w EXCEPT !.tracks[layer] = RemoveElement(@, view)], layer)

\* Mutant: the view is not taken out of the track it was in.
ChangeTrackCopying(w, view, from, to, shiftFocus) ==
  AddViewToTrack(w, view, to, shiftFocus)

\* from is the view's scene layer, which the caller changes afterwards.
ChangeViewTrack(w, view, from, to, shiftFocus) ==
  IF from = to
  THEN IF shiftFocus THEN [w EXCEPT !.trackLayer = to, !.active = view] ELSE w
  ELSE AddViewToTrack(RemoveViewFromTrack(w, view, from), view, to, shiftFocus)

----------------------------------------------------------------------------
(* Moving the focus.                                                       *)

AtEnd(w, direction) ==
  CurrentTrack(w).index = IF direction = "Forward" THEN LastIndex(CurrentTrack(w)) ELSE 0

CycleFocusTrack(w, direction) ==
  IF ~Layout(w).wraps /\ AtEnd(w, direction)
  THEN w
  ELSE LET track == CycleActive(CurrentTrack(w), direction)
       IN  Activated([w EXCEPT !.tracks[w.track] = track], ActiveElement(track))

\* The current track is entered at index i.
EnterTrack(w, i) ==
  LET track == ActivateAtIndex(CurrentTrack(w), i)
  IN  Activated([w EXCEPT !.tracks[w.track] = track], ActiveElement(track))

NearEnd(w, direction) == IF direction = "Forward" THEN 0 ELSE LastIndex(CurrentTrack(w))
EnterNearEnd(w, direction) == EnterTrack(w, NearEnd(w, direction))

\* Mutants: the next track is entered where it was left, or at its front.
CycleFocusWhereLeft(w, direction) ==
  IF ~AtEnd(w, direction) THEN CycleFocusTrack(w, direction) ELSE CycleTrack(w, direction)
CycleFocusAtFront(w, direction) ==
  IF ~AtEnd(w, direction) THEN CycleFocusTrack(w, direction)
  ELSE EnterTrack(CycleTrack(w, direction), 0)

\* Beyond the end of a track the focus enters the next one at its near end.
CycleFocus(w, direction) ==
  IF ~AtEnd(w, direction) THEN CycleFocusTrack(w, direction)
  ELSE IF CycleTrackSucceeds(w) THEN EnterNearEnd(CycleTrack(w, direction), direction)
  ELSE CycleTrack(w, direction)

DragFocusTrack(w, direction) ==
  IF ~Layout(w).wraps /\ AtEnd(w, direction)
  THEN w
  ELSE LET dragged == DragActive(CurrentTrack(w), direction)
           view    == ActiveElement(dragged)
           passed  == dragged.elements[CurrentTrack(w).index + 1]
       IN  Activated([w EXCEPT !.tracks[w.track] = dragged,
                               !.views = SwapElements(@, passed, view)], view)

\* Mutant: the active view stays what it was.
RotateKeepingActive(w, direction) == [w EXCEPT !.views = RotateCycle(@, direction)]

Reverse(w)           == FromViews([w EXCEPT !.views = ReverseCycle(@)])
Rotate(w, direction) == FromViews([w EXCEPT !.views = RotateCycle(@, direction)])

ShuffleMain(w, direction, mainCount) ==
  FromViews([w EXCEPT !.views = RotateRange(@, direction, 0, mainCount)])

ShuffleStack(w, direction, mainCount) ==
  FromViews([w EXCEPT !.views = RotateRange(@, direction, mainCount, Size(@))])

----------------------------------------------------------------------------
(* Views and icons. layer is the view's scene layer.                       *)

\* Mutant: the view's track does not hear of it.
ActivateViewOnly(w, view, layer) ==
  IF Contains(w.views, view)
  THEN [w EXCEPT !.views = ActivateElement(@, view), !.active = view] ELSE w

ActivateView(w, view, layer) ==
  IF Contains(w.views, view)
  THEN [w EXCEPT !.views         = ActivateElement(@, view),
                 !.tracks[layer] = ActivateElement(@, view),
                 !.active        = view]
  ELSE w

\* Mutants: the new view does not become active; it enters only the track.
AddViewInactive(w, view, layer) ==
  [w EXCEPT !.views = InsertAtBack(@, view), !.tracks[layer] = InsertAtBack(@, view),
            !.trackLayer = layer, !.active = IF @ = Null THEN view ELSE @]
AddViewToTrackOnly(w, view, layer) ==
  [w EXCEPT !.tracks[layer] = InsertAtBack(@, view), !.trackLayer = layer, !.active = view]

\* A track may already hold the view (a fullscreen request of an icon puts it
\* there); it is then inserted a second time.
AddView(w, view, layer) ==
  IF Contains(w.views, view)
  THEN w
  ELSE [w EXCEPT !.views         = InsertAtBack(@, view),
                 !.tracks[layer] = InsertAtBack(@, view),
                 !.trackLayer    = layer,
                 !.active        = view]

RemoveView(w, view, layer) ==
  RemoveViewFromTrack([w EXCEPT !.icons = RemoveElement(@, view),
                                !.views = RemoveElement(@, view)], view, layer)

ViewToIcon(w, view, layer) ==
  IF Contains(w.icons, view)
  THEN w
  ELSE [RemoveView(w, view, layer) EXCEPT !.icons = InsertAtBack(@, view)]

\* Mutant: the icon stays.
IconToViewCopying(w, view, layer) == AddView(w, view, layer)

IconToView(w, view, layer) ==
  IF Contains(w.icons, view)
  THEN AddView([w EXCEPT !.icons = RemoveElement(@, view)], view, layer)
  ELSE w

\* Mutant: the oldest icon.
PopFirstIcon(w) == IF Size(w.icons) = 0 THEN Null ELSE w.icons.elements[1]

PopIcon(w) == IF Size(w.icons) = 0 THEN Null ELSE w.icons.elements[Size(w.icons)]

----------------------------------------------------------------------------
(* What a workspace is: C are the cycles it may keep, K the views that may *)
(* be active.                                                              *)

WorkspaceRecords(C, K) ==
  [views : C, icons : C, tracks : [TrackLayers -> C],
   trackLayer : TrackLayers, prevTrackLayer : TrackLayers, track : TrackLayers,
   active : K \cup {Null}, kind : DOMAIN LayoutKinds, prevKind : DOMAIN LayoutKinds]
============================================================================
