----------------------------- MODULE FocusProofs -----------------------------
(****************************************************************************)
(* Who has the focus, for every value of the constants: the view that is    *)
(* active in the workspace on display, in its track and in its views. What  *)
(* holds of every hidden workspace lets the next one be entered, and what   *)
(* holds of the layout lets it be arranged without moving the focus. What   *)
(* is mapped follows: the views on display, or the focus alone.             *)
(****************************************************************************)
EXTENDS ModelProofs

----------------------------------------------------------------------------
(* The active element of a cycle.                                          *)

\* A cycle without elements has size zero.
LEMMA HasSize ==
  ASSUME NEW M, NEW c, Has(c, M)
  PROVE  /\ Size(c) \in Nat /\ Size(c) = Len(c.elements)
         /\ (Size(c) = 0) <=> (M = {})
         /\ (Size(c) > 0) <=> (M # {})
<1> DEFINE s == c.elements
<1>1. s \in Seq(Views) /\ Range(s) = M /\ Size(c) = Len(s) /\ Len(s) \in Nat
  BY CycleParts DEF Has
<1> HIDE DEF s
<1>2. DOMAIN s = 1..Len(s) /\ M = {s[i] : i \in DOMAIN s} BY <1>1 DEF Range
<1>3. ASSUME Len(s) > 0 PROVE M # {}
  <2>1. s[1] \in M BY <1>1, <1>2, <1>3
  <2> QED BY <2>1
<1>4. ASSUME Len(s) = 0 PROVE M = {} BY <1>2, <1>4
<1> QED BY <1>1, <1>3, <1>4 DEF s

\* There is one as soon as there is an element, and removing another element
\* leaves it active.
LEMMA ActiveKept ==
  ASSUME NEW M, NEW c, Has(c, M), NEW e
  PROVE  /\ M # {} => ActiveElement(c) \in M
         /\ M = {} => ActiveElement(c) = Null
         /\ e # ActiveElement(c) => ActiveElement(RemoveElement(c, e)) = ActiveElement(c)
<1>1. /\ c.elements \in Seq(Views) /\ IsDistinct(c.elements) /\ Len(c.elements) \in Nat
      /\ c.index \in Nat /\ Size(c) = Len(c.elements)
      /\ (Size(c) = 0 => c.index = 0) /\ (Size(c) > 0 => c.index < Size(c))
      /\ Range(c.elements) = M /\ c \in Cycles(Views) /\ IsCycle(c, Views)
  BY CycleParts DEF Has, IsCycle
<1>2. (Size(c) = 0) <=> (M = {}) BY HasSize
<1>3. M # {} => ActiveElement(c) \in M
  BY <1>1, <1>2, ActiveIsElement DEF HasActive
<1>4. M = {} => ActiveElement(c) = Null
  BY <1>1, <1>2 DEF ActiveElement, ElementAt
<1>5. ASSUME e # ActiveElement(c), e \notin M
      PROVE  ActiveElement(RemoveElement(c, e)) = ActiveElement(c)
  <2>1. EraseRemove(c.elements, e) = c.elements BY <1>1, <1>5, EraseAbsent
  <2>2. ~Contains(c, e) /\ ~IsActiveElement(c, e) BY <1>1, <1>5 DEF Contains, IsActiveElement
  <2> DEFINE st == EraseRemove(c.stack, e)
  <2>3. RemoveElement(c, e) = [c EXCEPT !.elements = c.elements, !.stack = st, !.index = c.index]
    BY <2>1, <2>2 DEF RemoveElement
  <2> HIDE DEF st
  <2>4. RemoveElement(c, e).elements = c.elements /\ RemoveElement(c, e).index = c.index
    BY <1>1, <2>3 DEF Cycles
  <2> QED BY <2>4 DEF ActiveElement, ElementAt, Size
<1>6. ASSUME e # ActiveElement(c), e \in M
      PROVE  ActiveElement(RemoveElement(c, e)) = ActiveElement(c)
  <2> DEFINE s   == c.elements
             k   == FirstAt(s, e)
             els == EraseRemove(s, e)
             st  == EraseRemove(c.stack, e)
             i   == IF c.index >= k - 1 /\ c.index # 0 THEN c.index - 1 ELSE c.index
  <2>1. s \in Seq(Views) /\ IsDistinct(s) /\ Len(s) \in Nat BY <1>1
  <2>2. k \in 1..Len(s) /\ s[k] = e BY <1>1, <1>6, IndexOfFacts
  <2>3. els = [j \in 1..(Len(s) - 1) |-> IF j < k THEN s[j] ELSE s[j + 1]]
    <3> HIDE DEF k
    <3>1. k \in DOMAIN s BY <2>1, <2>2
    <3>2. EraseRemove(s, s[k]) = [j \in 1..(Len(s) - 1) |-> IF j < k THEN s[j] ELSE s[j + 1]]
      BY <2>1, <3>1, ErasePresent
    <3> QED BY <2>2, <3>2
  <2>4. els \in Seq(Views) /\ Len(els) = Len(s) - 1
    BY <1>1, <1>6, EraseFacts
  <2>5. c.index < Len(s) BY <1>1, <2>2
  <2>6. ActiveElement(c) = s[c.index + 1] BY <1>1, <2>5 DEF ActiveElement, ElementAt
  <2>7. c.index # k - 1 BY <1>6, <2>2, <2>6
  <2>8. ~IsActiveElement(c, e) BY <2>7 DEF IsActiveElement, IndexOf
  <2>9. RemoveElement(c, e) = [c EXCEPT !.elements = els, !.stack = st, !.index = i]
    BY <1>1, <1>6, <2>8 DEF RemoveElement, Contains, IndexOf
  <2>10. RemoveElement(c, e).elements = els /\ RemoveElement(c, e).index = i
    <3> HIDE DEF els, st, i
    <3> QED BY <1>1, <2>9 DEF Cycles
  <2>11. i \in Nat /\ i < Len(s) - 1 /\ els[i + 1] = s[c.index + 1]
    <3> HIDE DEF k, els
    <3>1. CASE c.index >= k - 1
      <4>1. c.index >= k /\ i = c.index - 1 BY <1>1, <2>2, <2>5, <2>7, <3>1
      <4>2. i + 1 \in 1..(Len(s) - 1) /\ ~(i + 1 < k) BY <1>1, <2>2, <2>5, <4>1
      <4>3. i + 1 = c.index /\ i \in Nat /\ i < Len(s) - 1 BY <1>1, <2>2, <2>5, <4>1
      <4>4. els[i + 1] = s[(i + 1) + 1] BY <2>3, <4>2
      <4> QED BY <4>3, <4>4
    <3>2. CASE ~(c.index >= k - 1)
      <4>1. i = c.index /\ i + 1 < k /\ i + 1 \in 1..(Len(s) - 1) BY <1>1, <2>2, <2>5, <3>2
      <4>2. els[i + 1] = s[i + 1] BY <2>3, <4>1
      <4>3. i < Len(s) - 1 /\ i \in Nat BY <1>1, <2>2, <2>5, <4>1
      <4> QED BY <4>1, <4>2, <4>3
    <3> QED BY <3>1, <3>2
  <2> HIDE DEF els, i, k
  <2> QED BY <2>4, <2>6, <2>10, <2>11 DEF ActiveElement, ElementAt, Size
<1> QED BY <1>3, <1>4, <1>5, <1>6

\* An element that is activated, or inserted, is the active one.
LEMMA ActivatedLeads ==
  ASSUME NEW M, NEW c, Has(c, M), NEW e
  PROVE  /\ e \in M => ActiveElement(ActivateElement(c, e)) = e
         /\ e \in Views \ M => ActiveElement(InsertAtBack(c, e)) = e
<1>1. /\ c.elements \in Seq(Views) /\ IsDistinct(c.elements) /\ Len(c.elements) \in Nat
      /\ c.index \in Nat /\ Size(c) = Len(c.elements)
      /\ Range(c.elements) = M /\ c \in Cycles(Views) /\ IsCycle(c, Views)
  BY CycleParts DEF Has, IsCycle
<1> DEFINE p == PushActive(c)
<1>2. p \in Cycles(Views) /\ p.elements = c.elements BY <1>1, PushHolds
<1> HIDE DEF p
<1>3. ASSUME e \in M PROVE ActiveElement(ActivateElement(c, e)) = e
  <2> DEFINE k == IndexOf(c.elements, e)
             d == ActivateElement(c, e)
  <2>1. k \in 0..(Len(c.elements) - 1) /\ c.elements[k + 1] = e
    BY <1>1, <1>3, IndexOfFacts DEF IndexOf
  <2>2. d = IF k = c.index THEN c ELSE [p EXCEPT !.index = k]
    BY <1>1, <1>3 DEF ActivateElement, Contains, ActivateAtIndex, p
  <2> HIDE DEF k, d
  <2>3. d.elements = c.elements /\ d.index = k BY <1>1, <1>2, <2>2 DEF Cycles
  <2>4. ActiveElement(d) = e BY <1>1, <2>1, <2>3 DEF ActiveElement, ElementAt, Size
  <2> QED BY <2>4 DEF d
<1>4. ASSUME e \in Views \ M PROVE ActiveElement(InsertAtBack(c, e)) = e
  <2> DEFINE s == Append(c.elements, e)
             n == Size(c)
             d == InsertAtBack(c, e)
  <2>1. Len(s) = n + 1 /\ s[n + 1] = e BY <1>1, <1>4
  <2>2. d = [p EXCEPT !.elements = s, !.index = n] BY <1>2 DEF InsertAtBack, p
  <2> HIDE DEF d, s
  <2>3. d.elements = s /\ d.index = n BY <1>1, <1>2, <2>2 DEF Cycles
  <2>4. ActiveElement(d) = e BY <1>1, <2>1, <2>3 DEF ActiveElement, ElementAt, Size
  <2> QED BY <2>4 DEF d
<1> QED BY <1>3, <1>4

----------------------------------------------------------------------------
(* The active view of a workspace.                                         *)

\* The tracks divide the views.
Parts(V, T) == /\ T \in [TrackLayers -> SUBSET Views]
               /\ \A l \in TrackLayers : T[l] \subseteq V
               /\ \A v \in V : \E l \in TrackLayers : v \in T[l]
               /\ \A j, k \in TrackLayers : \A v \in T[j] : v \in T[k] => j = k

\* Some of the views V may be in no track, for a while.
Within(W, V, T) == W \subseteq V /\ Parts(W, T)

\* A workspace of the views V has an active one, if there is any; its m_views
\* and the track it was in last have the same one; that track is the one the
\* next step goes through.
Owned(x, V)  == IF V = {} THEN x.active = Null ELSE x.active \in V
Locked(x, V) == /\ Owned(x, V)
                /\ V # {} => /\ ActiveElement(x.views) = x.active
                             /\ ActiveElement(x.tracks[x.trackLayer]) = x.active
Lead(x, V)   == Locked(x, V) /\ (V # {} => x.track = x.trackLayer)

\* What is active in the containers of a workspace.
LEMMA SiteActive ==
  ASSUME NEW V, NEW W, NEW I, NEW T, Within(W, V, T), NEW w \in Sited(V, I, T),
         NEW l \in TrackLayers
  PROVE  /\ V # {} => ActiveElement(w.views) \in V
         /\ T[l] # {} => ActiveElement(w.tracks[l]) \in T[l] /\ Size(w.tracks[l]) > 0
         /\ T[l] = {} => ActiveElement(w.tracks[l]) = Null /\ Size(w.tracks[l]) = 0
         /\ T[l] \subseteq W /\ W \subseteq V /\ V \subseteq Views /\ Null \notin V
         /\ w.trackLayer \in TrackLayers /\ w.track \in TrackLayers
         /\ Has(w.tracks[l], T[l]) /\ Has(w.views, V) /\ Has(w.icons, I)
         /\ w \in Shaped(Views, Views)
<1>1. /\ w \in Shaped(Views, Views) /\ Has(w.views, V) /\ Has(w.icons, I) /\ Has(w.tracks[l], T[l])
      /\ V \subseteq Views /\ w.track \in TrackLayers
  BY SiteParts
<1>2. w.trackLayer \in TrackLayers BY <1>1 DEF Shaped, WorkspaceRecords
<1>3. /\ (Size(w.tracks[l]) = 0) <=> (T[l] = {})
      /\ (Size(w.tracks[l]) > 0) <=> (T[l] # {})
  BY <1>1, HasSize
<1>4. /\ V # {} => ActiveElement(w.views) \in V
      /\ T[l] # {} => ActiveElement(w.tracks[l]) \in T[l]
      /\ T[l] = {} => ActiveElement(w.tracks[l]) = Null
  BY <1>1, ActiveKept
<1>5. T[l] \subseteq W /\ W \subseteq V BY DEF Parts, Within
<1>6. Null \notin V BY <1>1, NullFresh
<1> QED BY <1>1, <1>2, <1>3, <1>4, <1>5, <1>6

\* What activating a view sets.
LEMMA ActivatedFields ==
  ASSUME NEW w \in Shaped(Views, Views), NEW a
  PROVE  /\ Activated(w, a).active = a /\ Activated(w, a).tracks = w.tracks
         /\ Activated(w, a).views = IF a # Null THEN ActivateElement(w.views, a) ELSE w.views
         /\ Activated(w, a).track = w.track /\ Activated(w, a).trackLayer = w.trackLayer
         /\ Activated(w, a).icons = w.icons /\ Activated(w, a).kind = w.kind
<1> DEFINE c == IF a # Null THEN ActivateElement(w.views, a) ELSE w.views
<1>1. Activated(w, a) = [w EXCEPT !.active = a, !.views = c] BY DEF Activated
<1> HIDE DEF c
<1>2. /\ Activated(w, a).active = a /\ Activated(w, a).tracks = w.tracks /\ Activated(w, a).views = c
      /\ Activated(w, a).track = w.track /\ Activated(w, a).trackLayer = w.trackLayer
      /\ Activated(w, a).icons = w.icons /\ Activated(w, a).kind = w.kind
  BY <1>1 DEF Shaped, WorkspaceRecords
<1> QED BY <1>2 DEF c

\* A track that is activated leads, if it has a view.
LEMMA ActivateTrackLeads ==
  ASSUME NEW V, NEW W, NEW I, NEW T, Within(W, V, T), NEW w \in Sited(V, I, T),
         NEW l \in TrackLayers
  PROVE  /\ ActivateTrack(w, l).active = ActiveElement(w.tracks[l])
         /\ ActivateTrack(w, l).tracks = w.tracks /\ ActivateTrack(w, l).kind = w.kind
         /\ ActivateTrack(w, l).track = l /\ ActivateTrack(w, l).trackLayer = l
         /\ T[l] # {} => ActivateTrack(w, l).active \in T[l]
         /\ T[l] # {} \/ W = {} => Lead(ActivateTrack(w, l), W)
<1> DEFINE a == ActiveElement(w.tracks[l])
           x == [w EXCEPT !.track = l, !.prevTrackLayer = w.trackLayer, !.trackLayer = l]
           y == ActivateTrack(w, l)
<1>1. /\ T[l] # {} => a \in T[l]
      /\ T[l] = {} => a = Null
      /\ T[l] \subseteq W /\ W \subseteq V /\ V \subseteq Views /\ Null \notin V
      /\ Has(w.views, V) /\ w \in Shaped(Views, Views) /\ w.trackLayer \in TrackLayers
  BY SiteActive
<1>2. y = Activated(x, a) BY DEF ActivateTrack
<1>3. /\ x \in Shaped(Views, Views) /\ x.tracks = w.tracks /\ x.views = w.views
      /\ x.track = l /\ x.trackLayer = l /\ x.kind = w.kind
  BY <1>1 DEF Shaped, WorkspaceRecords
<1> HIDE DEF x, y, a
<1>4. /\ y.active = a /\ y.tracks = w.tracks /\ y.track = l /\ y.trackLayer = l
      /\ y.views = IF a # Null THEN ActivateElement(w.views, a) ELSE w.views
      /\ y.kind = w.kind
  BY <1>2, <1>3, ActivatedFields
<1>5. ASSUME T[l] # {} PROVE Lead(y, W)
  <2>1. a \in W /\ a # Null BY <1>1, <1>5
  <2>2. ActiveElement(ActivateElement(w.views, a)) = a BY <1>1, <2>1, ActivatedLeads
  <2> QED BY <1>4, <2>1, <2>2 DEF Lead, Locked, Owned, a
<1>6. ASSUME W = {} PROVE Lead(y, W)
  <2>1. y.active = Null BY <1>1, <1>4, <1>6
  <2> QED BY <1>6, <2>1 DEF Lead, Locked, Owned
<1> QED BY <1>1, <1>4, <1>5, <1>6 DEF a, y

\* cycle_track finds a track that leads.
LEMMA CycleTrackLeads ==
  ASSUME NEW V, NEW W, NEW I, NEW T, Within(W, V, T), NEW w \in Sited(V, I, T), NEW d
  PROVE  /\ Lead(CycleTrack(w, d), W)
         /\ CycleTrack(w, d).tracks = w.tracks /\ CycleTrack(w, d).kind = w.kind
         /\ CycleTrack(w, d).track = CycleTrack(w, d).trackLayer
         /\ W # {} => CycleTrack(w, d).active \in T[CycleTrack(w, d).trackLayer]
         /\ W = {} => CycleTrack(w, d).trackLayer = w.trackLayer
<1> DEFINE l == NextTrackLayer(w, d)
           x == [w EXCEPT !.trackLayer = l]
           y == CycleTrack(w, d)
<1>1. w \in Shaped(Views, Views) /\ w.trackLayer \in TrackLayers /\ Null \notin V
  BY SiteActive DEF TrackLayers
<1>2. l \in TrackLayers /\ (FilledTracks(w) # {} => l \in FilledTracks(w))
  BY <1>1, NextTrackLayerType
<1>3. \A k \in TrackLayers : k \in FilledTracks(w) <=> T[k] # {}
  <2> TAKE k \in TrackLayers
  <2>1. (T[k] # {} => Size(w.tracks[k]) > 0) /\ (T[k] = {} => Size(w.tracks[k]) = 0)
    BY SiteActive
  <2> QED BY <2>1 DEF FilledTracks
<1>4. W # {} => T[l] # {}
  <2>1. ASSUME NEW v \in W PROVE T[l] # {}
    <3>1. PICK k \in TrackLayers : v \in T[k] BY DEF Parts, Within
    <3>2. FilledTracks(w) # {} BY <1>3, <3>1
    <3> QED BY <1>2, <1>3, <3>2
  <2> QED BY <2>1
<1>5. W = {} => l = w.trackLayer
  <2>1. W = {} => \A k \in TrackLayers : T[k] = {} BY DEF Parts, Within
  <2>2. W = {} => FilledTracks(w) = {} BY <1>3, <2>1 DEF FilledTracks
  <2> QED BY <2>2 DEF NextTrackLayer
<1> HIDE DEF l
<1>6. /\ x \in Shaped(Views, Views) /\ x.icons = w.icons /\ x.views = w.views /\ x.tracks = w.tracks
      /\ x.kind = w.kind
  BY <1>1, <1>2 DEF Shaped, WorkspaceRecords
<1>7. y = ActivateTrack(x, l) BY DEF CycleTrack, l
<1> HIDE DEF x, y
<1>8. x \in Sited(V, I, T) BY <1>6, SameSite
<1>9. /\ y.tracks = x.tracks /\ y.kind = x.kind /\ y.track = l /\ y.trackLayer = l
      /\ T[l] # {} => y.active \in T[l]
      /\ T[l] # {} \/ W = {} => Lead(y, W)
  BY <1>2, <1>7, <1>8, ActivateTrackLeads
<1>10. Lead(y, W) BY <1>4, <1>9
<1> QED BY <1>4, <1>5, <1>6, <1>9, <1>10 DEF y

\* What takes over from a view that left a track is active wherever it should
\* be; it leads if the track did, or if another had to be found.
LEMMA NextLeads ==
  ASSUME NEW V, NEW W, NEW I, NEW T, Within(W, V, T), NEW w \in Sited(V, I, T),
         NEW l \in TrackLayers
  PROVE  /\ NextInTrack(w, l).tracks = w.tracks /\ NextInTrack(w, l).kind = w.kind
         /\ l # w.trackLayer => NextInTrack(w, l) = w
         /\ l = w.trackLayer =>
              /\ Locked(NextInTrack(w, l), W)
              /\ w.track = l \/ T[l] = {} => Lead(NextInTrack(w, l), W)
              /\ T[l] # {} => /\ NextInTrack(w, l).active = ActiveElement(w.tracks[l])
                              /\ NextInTrack(w, l).trackLayer = l
                              /\ NextInTrack(w, l).track = w.track
              /\ T[l] = {} /\ W # {} =>
                   NextInTrack(w, l).active \in T[NextInTrack(w, l).trackLayer]
              /\ W = {} => NextInTrack(w, l).trackLayer = l
<1> DEFINE a == ActiveElement(w.tracks[l])
           x == [w EXCEPT !.active = Null]
           y == NextInTrack(w, l)
<1>1. /\ T[l] # {} => a \in T[l]
      /\ T[l] = {} => a = Null
      /\ T[l] \subseteq W /\ W \subseteq V /\ V \subseteq Views /\ Null \notin V
      /\ Has(w.views, V) /\ w \in Shaped(Views, Views)
  BY SiteActive
<1>2. CASE l # w.trackLayer
  <2>1. y = w BY <1>2 DEF NextInTrack
  <2> QED BY <1>2, <2>1
<1>3. CASE l = w.trackLayer /\ T[l] # {}
  <2>1. a \in W /\ a # Null BY <1>1, <1>3
  <2>2. y = Activated(w, a) BY <1>3, <2>1 DEF NextInTrack
  <2> HIDE DEF a, y
  <2>3. /\ y.active = a /\ y.tracks = w.tracks /\ y.views = ActivateElement(w.views, a)
        /\ y.track = w.track /\ y.trackLayer = w.trackLayer /\ y.kind = w.kind
    BY <1>1, <2>1, <2>2, ActivatedFields
  <2>4. ActiveElement(ActivateElement(w.views, a)) = a BY <1>1, <2>1, ActivatedLeads
  <2>5. Locked(y, W) BY <1>3, <2>1, <2>3, <2>4 DEF Locked, Owned, a
  <2>6. w.track = l => Lead(y, W) BY <1>3, <2>3, <2>5 DEF Lead
  <2> QED BY <1>3, <2>1, <2>3, <2>5, <2>6 DEF a, y
<1>4. CASE l = w.trackLayer /\ T[l] = {}
  <2>1. /\ x \in Shaped(Views, Views) /\ x.icons = w.icons /\ x.views = w.views /\ x.tracks = w.tracks
        /\ x.kind = w.kind /\ x.trackLayer = w.trackLayer
    BY <1>1 DEF Shaped, WorkspaceRecords
  <2>2. y = CycleTrack(x, "Forward") BY <1>1, <1>4 DEF NextInTrack
  <2> HIDE DEF x, y
  <2>3. x \in Sited(V, I, T) BY <2>1, SameSite
  <2>4. /\ Lead(y, W) /\ y.tracks = x.tracks /\ y.kind = x.kind
        /\ W # {} => y.active \in T[y.trackLayer]
        /\ W = {} => y.trackLayer = x.trackLayer
    BY <2>2, <2>3, CycleTrackLeads
  <2>5. Locked(y, W) BY <2>4 DEF Lead
  <2> QED BY <1>4, <2>1, <2>4, <2>5 DEF y
<1> QED BY <1>2, <1>3, <1>4

\* In between handlers every view is in its track.
LEMMA PartsWithin ==
  ASSUME NEW V, NEW T, Parts(V, T)
  PROVE  Within(V, V, T)
BY DEF Within

\* The tracks still divide the views when one leaves, enters or moves.
LEMMA PartsChange ==
  ASSUME NEW V, NEW T, Parts(V, T), NEW v, NEW l \in TrackLayers, NEW j \in TrackLayers
  PROVE  /\ (\A k \in TrackLayers : v \in T[k] => k = l) =>
              Parts(V \ {v}, [T EXCEPT ![l] = T[l] \ {v}])
         /\ v \in Views \ V => Parts(V \cup {v}, [T EXCEPT ![l] = T[l] \cup {v}])
         /\ v \in T[j] /\ j # l => Parts(V, [T EXCEPT ![j] = T[j] \ {v}, ![l] = T[l] \cup {v}])
<1> DEFINE Less == [T EXCEPT ![l] = T[l] \ {v}]
           More == [T EXCEPT ![l] = T[l] \cup {v}]
           Both == [T EXCEPT ![j] = T[j] \ {v}, ![l] = T[l] \cup {v}]
<1>1. /\ T \in [TrackLayers -> SUBSET Views]
      /\ \A k \in TrackLayers : T[k] \subseteq V
      /\ \A u \in V : \E k \in TrackLayers : u \in T[k]
      /\ \A i, k \in TrackLayers : \A u \in T[i] : u \in T[k] => i = k
  BY DEF Parts
<1>2. ASSUME \A k \in TrackLayers : v \in T[k] => k = l PROVE Parts(V \ {v}, Less)
  <2>1. /\ Less \in [TrackLayers -> SUBSET Views]
        /\ \A k \in TrackLayers : Less[k] = T[k] \ {v}
    BY <1>1, <1>2
  <2> HIDE DEF Less
  <2> QED BY <1>1, <2>1 DEF Parts
<1>3. ASSUME v \in Views \ V PROVE Parts(V \cup {v}, More)
  <2>1. /\ More \in [TrackLayers -> SUBSET Views]
        /\ \A k \in TrackLayers : More[k] = IF k = l THEN T[k] \cup {v} ELSE T[k]
    BY <1>1, <1>3
  <2> HIDE DEF More
  <2>2. \A k \in TrackLayers : v \notin T[k] BY <1>1, <1>3
  <2>3. \A k \in TrackLayers : More[k] \subseteq V \cup {v} BY <1>1, <2>1
  <2>4. \A u \in V \cup {v} : \E k \in TrackLayers : u \in More[k] BY <1>1, <2>1
  <2>5. \A i, k \in TrackLayers : \A u \in More[i] : u \in More[k] => i = k BY <1>1, <2>1, <2>2
  <2> QED BY <2>1, <2>3, <2>4, <2>5 DEF Parts
<1>4. ASSUME v \in T[j], j # l PROVE Parts(V, Both)
  <2>0. v \in Views /\ v \in V BY <1>1, <1>4
  <2>1. /\ Both \in [TrackLayers -> SUBSET Views]
        /\ \A k \in TrackLayers : Both[k] = IF k = l THEN T[k] \cup {v} ELSE T[k] \ {v}
    <3>1. \A k \in TrackLayers : k # j => T[k] = T[k] \ {v} BY <1>1, <1>4
    <3> QED BY <1>1, <1>4, <2>0, <3>1
  <2> HIDE DEF Both
  <2>2. \A k \in TrackLayers : v \in T[k] => k = j BY <1>1, <1>4
  <2>3. \A k \in TrackLayers : Both[k] \subseteq V BY <1>1, <2>0, <2>1
  <2>4. \A u \in V : \E k \in TrackLayers : u \in Both[k]
    <3> TAKE u \in V
    <3>1. CASE u = v BY <2>1, <3>1
    <3>2. CASE u # v BY <1>1, <2>1, <3>2
    <3> QED BY <3>1, <3>2
  <2>5. \A i, k \in TrackLayers : \A u \in Both[i] : u \in Both[k] => i = k
    <3> TAKE i, k \in TrackLayers
    <3> TAKE u \in Both[i]
    <3>1. CASE u = v BY <2>1, <3>1
    <3>2. CASE u # v BY <1>1, <2>1, <3>2
    <3> QED BY <3>1, <3>2
  <2> QED BY <2>1, <2>3, <2>4, <2>5 DEF Parts
<1> QED BY <1>2, <1>3, <1>4

\* remove_view leaves another view active, or none.
LEMMA RemoveViewLeads ==
  ASSUME NEW V, NEW I, NEW T, Parts(V, T), NEW w \in Sited(V, I, T), NEW v, NEW l \in TrackLayers,
         \A k \in TrackLayers : v \in T[k] => k = l, Locked(w, V)
  PROVE  /\ Locked(RemoveView(w, v, l), V \ {v})
         /\ Lead(w, V) => Lead(RemoveView(w, v, l), V \ {v})
         /\ RemoveView(w, v, l).kind = w.kind
<1> DEFINE W == V \ {v}
           J == I \ {v}
           M == T[l] \ {v}
           U == [T EXCEPT ![l] = M]
           views == RemoveElement(w.views, v)
           icons == RemoveElement(w.icons, v)
           track == RemoveElement(w.tracks[l], v)
           x == [w EXCEPT !.icons = icons, !.views = views]
           z == [x EXCEPT !.tracks[l] = track]
           y == NextInTrack(z, l)
<1>0. "Forward" \in Directions /\ 0 \in Nat BY DEF Directions
<1>1. /\ Has(w.views, V) /\ Has(w.icons, I) /\ Has(w.tracks[l], T[l]) /\ w \in Shaped(Views, Views)
      /\ w.trackLayer \in TrackLayers
  BY PartsWithin, SiteActive
<1>2. Has(views, W) /\ Has(icons, J) /\ Has(track, M) BY <1>0, <1>1, HasKept
<1>3. Parts(W, U)
  <2>1. \A k \in TrackLayers : v \in T[k] => k = l OBVIOUS
  <2> QED BY <2>1, PartsChange
<1>4. T \in [TrackLayers -> SUBSET Views] /\ M \subseteq Views BY DEF Parts
<1>5. RemoveView(w, v, l) = y BY <1>1 DEF RemoveView, RemoveViewFromTrack, Shaped, WorkspaceRecords
<1>6. /\ views \in CyclesOver(Views, Views) /\ icons \in CyclesOver(Views, Views)
  BY <1>1, OverClosed DEF Shaped, WorkspaceRecords
<1>7. ActiveElement(w.views) # v => ActiveElement(views) = ActiveElement(w.views)
  BY <1>1, ActiveKept
<1>8. ActiveElement(w.tracks[l]) # v => ActiveElement(track) = ActiveElement(w.tracks[l])
  BY <1>1, ActiveKept
<1> HIDE DEF W, J, M, views, icons, track
<1>9. /\ x \in Shaped(Views, Views) /\ x.tracks = w.tracks /\ x.views = views /\ x.icons = icons
      /\ x.active = w.active /\ x.track = w.track /\ x.trackLayer = w.trackLayer /\ x.kind = w.kind
  BY <1>1, <1>6 DEF Shaped, WorkspaceRecords
<1> HIDE DEF x
<1>10. x \in Sited(W, J, T) BY <1>1, <1>2, <1>9, Resited
<1>11. z \in Sited(W, J, U) BY <1>2, <1>4, <1>10, TrackReplaced
<1>12. /\ z.tracks = [w.tracks EXCEPT ![l] = track] /\ z.views = views
       /\ z.active = w.active /\ z.track = w.track /\ z.trackLayer = w.trackLayer /\ z.kind = w.kind
       /\ DOMAIN w.tracks = TrackLayers
  BY <1>9 DEF Shaped, WorkspaceRecords
<1> HIDE DEF z, U, y
<1>13. /\ y.kind = z.kind
       /\ l # z.trackLayer => y = z
       /\ l = z.trackLayer => /\ Locked(y, W)
                              /\ z.track = l \/ U[l] = {} => Lead(y, W)
  BY <1>3, <1>11, PartsWithin, NextLeads DEF y
<1>14. CASE l = w.trackLayer
  <2>1. Locked(y, W) BY <1>12, <1>13, <1>14
  <2>2. ASSUME Lead(w, V) PROVE Lead(y, W)
    <3>1. CASE V = {}
      <4>1. W = {} BY <3>1 DEF W
      <4> QED BY <2>1, <4>1 DEF Lead
    <3>2. CASE V # {}
      <4>1. z.track = l BY <1>12, <1>14, <2>2, <3>2 DEF Lead
      <4> QED BY <1>12, <1>13, <1>14, <4>1
    <3> QED BY <3>1, <3>2
  <2> QED BY <1>5, <1>12, <1>13, <2>1, <2>2 DEF W
<1>15. CASE l # w.trackLayer
  <2>1. y = z /\ z.tracks[w.trackLayer] = w.tracks[w.trackLayer] BY <1>1, <1>12, <1>13, <1>15
  <2>2. CASE V = {}
    <3>1. W = {} /\ z.active = Null BY <1>12, <2>2 DEF W, Locked, Owned
    <3> QED BY <1>5, <1>12, <2>1, <3>1 DEF W, Locked, Lead, Owned
  <2>3. CASE V # {}
    <3>1. /\ w.active \in V /\ ActiveElement(w.views) = w.active
          /\ ActiveElement(w.tracks[w.trackLayer]) = w.active
      BY <2>3 DEF Locked, Owned
    <3>2. w.active # Null BY <3>1, PartsWithin, SiteActive
    <3>3. w.active \in T[w.trackLayer] BY <1>1, <3>1, <3>2, PartsWithin, SiteActive
    <3>4. w.active # v BY <1>1, <1>15, <3>3
    <3>5. ActiveElement(z.views) = w.active BY <1>7, <1>12, <3>1, <3>4
    <3>6. Locked(y, W) BY <1>12, <2>1, <3>1, <3>4, <3>5 DEF Locked, Owned, W
    <3>7. Lead(w, V) => Lead(y, W) BY <1>12, <2>1, <2>3, <3>6 DEF Lead
    <3> QED BY <1>5, <1>12, <2>1, <3>6, <3>7 DEF W
  <2> QED BY <2>2, <2>3
<1> QED BY <1>14, <1>15

\* add_view makes the view the active one everywhere, but does not enter its
\* track.
LEMMA AddViewLeads ==
  ASSUME NEW V, NEW I, NEW T, Parts(V, T), NEW w \in Sited(V, I, T), NEW v \in Views \ V,
         NEW l \in TrackLayers
  PROVE  /\ Locked(AddView(w, v, l), V \cup {v})
         /\ AddView(w, v, l).active = v /\ AddView(w, v, l).trackLayer = l
         /\ AddView(w, v, l).track = w.track /\ AddView(w, v, l).kind = w.kind
         /\ AddView(w, v, l).tracks = [w.tracks EXCEPT ![l] = InsertAtBack(w.tracks[l], v)]
         /\ AddView(w, v, l).views = InsertAtBack(w.views, v)
<1> DEFINE views == InsertAtBack(w.views, v)
           track == InsertAtBack(w.tracks[l], v)
           tracks == [w.tracks EXCEPT ![l] = track]
           y == AddView(w, v, l)
<1>1. /\ Has(w.views, V) /\ Has(w.tracks[l], T[l]) /\ w \in Shaped(Views, Views)
      /\ T[l] \subseteq V
  BY PartsWithin, SiteActive
<1>2. ~Contains(w.views, v) BY <1>1 DEF Has, Contains
<1>3. ActiveElement(views) = v /\ ActiveElement(track) = v BY <1>1, ActivatedLeads
<1>4. y = [w EXCEPT !.views = views, !.tracks[l] = track, !.trackLayer = l, !.active = v]
  BY <1>2 DEF AddView
<1> HIDE DEF views, track, y
<1>5. /\ y.views = views /\ y.tracks = tracks /\ y.trackLayer = l /\ y.active = v
      /\ y.track = w.track /\ y.kind = w.kind /\ DOMAIN w.tracks = TrackLayers
  BY <1>1, <1>4 DEF Shaped, WorkspaceRecords
<1>6. tracks[l] = track BY <1>5
<1>7. Locked(y, V \cup {v})
  <2>1. v \in V \cup {v} /\ V \cup {v} # {} OBVIOUS
  <2> HIDE DEF tracks
  <2> QED BY <1>3, <1>5, <1>6, <2>1 DEF Locked, Owned
<1> QED BY <1>5, <1>7 DEF views, track, y

\* n is w after v has left track j: of the views W that remain in tracks U, one
\* is active.
Left(n, w, v, j, W, V, I, U) ==
  /\ n \in Sited(V, I, U) /\ Parts(W, U) /\ Within(W, V, U)
  /\ n.tracks = [w.tracks EXCEPT ![j] = RemoveElement(w.tracks[j], v)] /\ n.kind = w.kind
  /\ j # w.trackLayer => /\ n.active = w.active /\ n.trackLayer = w.trackLayer
                         /\ n.track = w.track /\ n.views = w.views
  /\ j = w.trackLayer =>
       /\ Locked(n, W)
       /\ w.track = j \/ U[j] = {} => Lead(n, W)
       /\ U[j] # {} => /\ n.active = ActiveElement(n.tracks[j])
                       /\ n.trackLayer = j /\ n.track = w.track
       /\ U[j] = {} /\ W # {} => n.active \in U[n.trackLayer]
       /\ W = {} => n.trackLayer = j

\* remove_view_from_track leaves the view without a track for a while.
LEMMA LeaveTrack ==
  ASSUME NEW V, NEW I, NEW T, Parts(V, T), NEW w \in Sited(V, I, T), NEW j \in TrackLayers,
         NEW v \in T[j]
  PROVE  Left(RemoveViewFromTrack(w, v, j), w, v, j, V \ {v}, V, I, [T EXCEPT ![j] = T[j] \ {v}])
<1> DEFINE n == RemoveViewFromTrack(w, v, j)
           W == V \ {v}
           U == [T EXCEPT ![j] = T[j] \ {v}]
           c == RemoveElement(w.tracks[j], v)
           M == T[j] \ {v}
           z == [w EXCEPT !.tracks[j] = c]
<1>1. /\ Has(w.tracks[j], T[j]) /\ w \in Shaped(Views, Views) /\ w.trackLayer \in TrackLayers
  BY PartsWithin, SiteActive
<1>2. "Forward" \in Directions /\ 0 \in Nat BY DEF Directions
<1>3. Has(c, M) BY <1>1, <1>2, HasKept
<1>4. T \in [TrackLayers -> SUBSET Views] /\ M \subseteq Views BY DEF Parts
<1>5. n = NextInTrack(z, j) BY DEF RemoveViewFromTrack
<1>6. U = [T EXCEPT ![j] = M] OBVIOUS
<1>7. Parts(W, U)
  <2>1. \A k \in TrackLayers : v \in T[k] => k = j BY DEF Parts
  <2> QED BY <2>1, PartsChange
<1>8. Within(W, V, U) BY <1>7 DEF Within
<1> HIDE DEF c, M, n, W, U
<1>9. z \in Sited(V, I, U) BY <1>3, <1>4, <1>6, TrackReplaced
<1>10. /\ z.tracks = [w.tracks EXCEPT ![j] = c] /\ z.views = w.views /\ z.active = w.active
       /\ z.track = w.track /\ z.trackLayer = w.trackLayer /\ z.kind = w.kind
       /\ DOMAIN w.tracks = TrackLayers
  BY <1>1 DEF Shaped, WorkspaceRecords
<1>11. z.tracks[j] = c BY <1>10
<1> HIDE DEF z
<1>12. n \in Sited(V, I, U) BY <1>5, <1>9, NextInTrackSited
<1>13. /\ NextInTrack(z, j).tracks = z.tracks /\ NextInTrack(z, j).kind = z.kind
       /\ j # z.trackLayer => NextInTrack(z, j) = z
       /\ j = z.trackLayer =>
              /\ Locked(NextInTrack(z, j), W)
              /\ z.track = j \/ U[j] = {} => Lead(NextInTrack(z, j), W)
              /\ U[j] # {} => /\ NextInTrack(z, j).active = ActiveElement(z.tracks[j])
                              /\ NextInTrack(z, j).trackLayer = j
                              /\ NextInTrack(z, j).track = z.track
              /\ U[j] = {} /\ W # {} =>
                   NextInTrack(z, j).active \in U[NextInTrack(z, j).trackLayer]
              /\ W = {} => NextInTrack(z, j).trackLayer = j
  BY <1>8, <1>9, NextLeads
<1>14. n.tracks[j] = c BY <1>5, <1>11, <1>13
<1> QED BY <1>5, <1>7, <1>8, <1>10, <1>11, <1>12, <1>13, <1>14 DEF Left, c, n, W, U

\* y is n after v has entered track k, which becomes the current one where that
\* is empty.
Entered(y, n, v, k, T) ==
  /\ y.tracks = [n.tracks EXCEPT ![k] = InsertAtBack(n.tracks[k], v)]
  /\ ActiveElement(y.tracks[k]) = v
  /\ \A l \in TrackLayers \ {k} : y.tracks[l] = n.tracks[l]
  /\ y.views = n.views /\ y.track = n.track /\ y.kind = n.kind
  /\ y.trackLayer = IF T[n.trackLayer] = {} THEN k ELSE n.trackLayer
  /\ y.active = IF y.trackLayer = k THEN v ELSE n.active

LEMMA EnterTrackEnds ==
  ASSUME NEW V, NEW W, NEW I, NEW T, Within(W, V, T), NEW n \in Sited(V, I, T),
         NEW k \in TrackLayers, NEW v \in Views, v \notin T[k]
  PROVE  Entered(AddViewToTrack(n, v, k, FALSE), n, v, k, T)
<1> DEFINE y == AddViewToTrack(n, v, k, FALSE)
           c == InsertAtBack(n.tracks[k], v)
           tracks == [n.tracks EXCEPT ![k] = c]
           l == IF Size(tracks[n.trackLayer]) = 0 THEN k ELSE n.trackLayer
<1>1. /\ Has(n.tracks[k], T[k]) /\ n \in Shaped(Views, Views) /\ n.trackLayer \in TrackLayers
  BY SiteActive
<1>2. (T[n.trackLayer] = {} => Size(n.tracks[n.trackLayer]) = 0)
      /\ (T[n.trackLayer] # {} => Size(n.tracks[n.trackLayer]) > 0)
  BY <1>1, SiteActive
<1>3. "Forward" \in Directions /\ 0 \in Nat BY DEF Directions
<1>4. Has(c, T[k] \cup {v}) BY <1>1, <1>3, HasKept
<1>5. Size(c) # 0
  <2> DEFINE M == T[k] \cup {v}
  <2>1. M # {} OBVIOUS
  <2> HIDE DEF M
  <2>2. (Size(c) = 0) <=> (M = {}) BY <1>4, HasSize DEF M
  <2> QED BY <2>1, <2>2
<1>6. ActiveElement(c) = v BY <1>1, ActivatedLeads
<1>7. ~Contains(n.tracks[k], v) BY <1>1 DEF Has, Contains
<1>8. y = [n EXCEPT !.tracks = tracks, !.trackLayer = l, !.active = IF k = l THEN v ELSE n.active]
  BY <1>7 DEF AddViewToTrack
<1>9. DOMAIN n.tracks = TrackLayers BY <1>1 DEF Shaped, WorkspaceRecords
<1> HIDE DEF c
<1>10. tracks[k] = c /\ \A i \in TrackLayers \ {k} : tracks[i] = n.tracks[i] BY <1>9
<1>11. l = IF T[n.trackLayer] = {} THEN k ELSE n.trackLayer
  <2>1. CASE n.trackLayer = k BY <1>5, <1>10, <2>1
  <2>2. CASE n.trackLayer # k
    <3>1. tracks[n.trackLayer] = n.tracks[n.trackLayer] BY <1>1, <1>10, <2>2
    <3> QED BY <1>2, <3>1
  <2> QED BY <2>1, <2>2
<1>12. tracks = [n.tracks EXCEPT ![k] = InsertAtBack(n.tracks[k], v)] BY DEF c
<1> HIDE DEF l, tracks, y
<1>13. /\ y.tracks = tracks /\ y.trackLayer = l /\ y.active = IF k = l THEN v ELSE n.active
       /\ y.views = n.views /\ y.track = n.track /\ y.kind = n.kind
  BY <1>1, <1>8 DEF Shaped, WorkspaceRecords
<1> QED BY <1>6, <1>10, <1>11, <1>12, <1>13 DEF Entered, y

\* A view that changes its track leaves some view active, and is the active
\* one of the track it enters.
Crossed(y, w, V, k, v) == /\ Owned(w, V) => Owned(y, V)
                          /\ y.kind = w.kind /\ ActiveElement(y.tracks[k]) = v
LEMMA ChangeTrackOwned ==
  ASSUME NEW V, NEW I, NEW T, Parts(V, T), NEW w \in Sited(V, I, T), NEW j \in TrackLayers,
         NEW k \in TrackLayers, j # k, NEW v \in T[j]
  PROVE  Crossed(ChangeViewTrack(w, v, j, k, FALSE), w, V, k, v)
<1> DEFINE y == ChangeViewTrack(w, v, j, k, FALSE)
           n == RemoveViewFromTrack(w, v, j)
           W == V \ {v}
           U == [T EXCEPT ![j] = T[j] \ {v}]
<1>1. y = AddViewToTrack(n, v, k, FALSE) BY DEF ChangeViewTrack
<1>2. v \in V /\ v \in Views /\ v \notin T[k] BY DEF Parts
<1>3. U[k] = T[k] BY DEF Parts
<1>4. Left(n, w, v, j, W, V, I, U) BY LeaveTrack
<1>5. U[j] = T[j] \ {v} BY DEF Parts
<1> HIDE DEF n, W, U, y
<1>6. /\ n \in Sited(V, I, U) /\ Parts(W, U) /\ Within(W, V, U) /\ n.kind = w.kind
      /\ j # w.trackLayer => /\ n.active = w.active /\ n.trackLayer = w.trackLayer
                             /\ n.track = w.track /\ n.views = w.views
      /\ j = w.trackLayer => Locked(n, W) /\ (W = {} => n.trackLayer = j)
  BY <1>4 DEF Left
<1>7. v \notin U[k] BY <1>2, <1>3
<1>71. Entered(y, n, v, k, U) BY <1>1, <1>2, <1>6, <1>7, EnterTrackEnds
<1>8. /\ ActiveElement(y.tracks[k]) = v /\ y.kind = n.kind
      /\ y.trackLayer = IF U[n.trackLayer] = {} THEN k ELSE n.trackLayer
      /\ y.active = IF y.trackLayer = k THEN v ELSE n.active
  BY <1>71 DEF Entered
<1>9. ASSUME Owned(w, V) PROVE Owned(y, V)
  <2>1. SUFFICES ASSUME y.trackLayer # k PROVE n.active \in V BY <1>2, <1>8 DEF Owned
  <2>2. U[n.trackLayer] # {} /\ y.trackLayer = n.trackLayer BY <1>8, <2>1
  <2>3. CASE j # w.trackLayer
    <3>1. n.active = w.active BY <1>6, <2>3
    <3> QED BY <1>2, <1>9, <3>1 DEF Owned
  <2>4. CASE j = w.trackLayer
    <3>1. W # {} \/ U[j] = {} BY <1>6 DEF Parts
    <3>2. W # {} BY <1>6, <2>2, <2>4, <3>1
    <3>3. n.active \in W BY <1>6, <2>4, <3>2 DEF Locked, Owned
    <3> QED BY <3>3 DEF W
  <2> QED BY <2>3, <2>4
<1> QED BY <1>6, <1>8, <1>9 DEF y, Crossed

\* A newcomer that the layout moves to another track, and that does not end up
\* as the active view, leaves everything as it was for the one that is.
LEMMA MovedLeads ==
  ASSUME NEW V, NEW I, NEW T, Parts(V, T), NEW w \in Sited(V, I, T), NEW v \in Views \ V,
         NEW j \in TrackLayers, NEW k \in TrackLayers, j # k, Lead(w, V), V # {},
         ChangeViewTrack(AddView(w, v, j), v, j, k, FALSE).active = w.active
  PROVE  Lead(ChangeViewTrack(AddView(w, v, j), v, j, k, FALSE), V \cup {v})
<1> DEFINE X == V \cup {v}
           T1 == [T EXCEPT ![j] = T[j] \cup {v}]
           r == AddView(w, v, j)
           W == X \ {v}
           U == [T1 EXCEPT ![j] = T1[j] \ {v}]
           n == RemoveViewFromTrack(r, v, j)
           y == ChangeViewTrack(r, v, j, k, FALSE)
<1>1. T \in [TrackLayers -> SUBSET Views] /\ \A l \in TrackLayers : T[l] \subseteq V
  BY DEF Parts
<1>2. v \notin T[j] /\ v \notin T[k] /\ v \in T1[j] BY <1>1
<1>3. Parts(X, T1) BY PartsChange
<1>4. r \in Sited(X, I, T1) BY <1>1, <1>2, AddViewSited
<1>5. r.active = v /\ r.trackLayer = j /\ r.track = w.track
  <2>1. /\ Locked(AddView(w, v, j), V \cup {v})
        /\ AddView(w, v, j).active = v /\ AddView(w, v, j).trackLayer = j
        /\ AddView(w, v, j).track = w.track /\ AddView(w, v, j).kind = w.kind
        /\ AddView(w, v, j).tracks = [w.tracks EXCEPT ![j] = InsertAtBack(w.tracks[j], v)]
        /\ AddView(w, v, j).views = InsertAtBack(w.views, v)
    BY AddViewLeads
  <2> QED BY <2>1
<1>6. W = V /\ U[j] = T[j] /\ U[k] = T[k] BY <1>1, <1>2
<1>7. y = AddViewToTrack(n, v, k, FALSE) BY DEF ChangeViewTrack
<1>8. w.active \in V /\ w.active = ActiveElement(w.tracks[w.trackLayer]) /\ w.track = w.trackLayer
  BY DEF Lead, Locked, Owned
<1>9. w.active \in T[w.trackLayer] /\ w.trackLayer \in TrackLayers
  <2>1. w.trackLayer \in TrackLayers BY PartsWithin, SiteActive DEF TrackLayers
  <2>2. w.active # Null BY <1>8, PartsWithin, SiteActive DEF TrackLayers
  <2> QED BY <1>8, <2>1, <2>2, PartsWithin, SiteActive
<1> HIDE DEF r, T1, X
<1>10. Left(n, r, v, j, W, X, I, U) BY <1>2, <1>3, <1>4, LeaveTrack
<1> HIDE DEF n, y, W, U
<1>11. /\ n \in Sited(X, I, U) /\ Within(W, X, U)
       /\ j = r.trackLayer =>
            /\ Locked(n, W)
            /\ r.track = j \/ U[j] = {} => Lead(n, W)
            /\ U[j] # {} => /\ n.active = ActiveElement(n.tracks[j])
                            /\ n.trackLayer = j /\ n.track = r.track
            /\ U[j] = {} /\ W # {} => n.active \in U[n.trackLayer]
            /\ W = {} => n.trackLayer = j
  BY <1>10 DEF Left
<1>12. Entered(y, n, v, k, U) BY <1>2, <1>6, <1>7, <1>11, EnterTrackEnds
<1>13. /\ \A l \in TrackLayers \ {k} : y.tracks[l] = n.tracks[l]
       /\ y.views = n.views /\ y.track = n.track
       /\ y.trackLayer = IF U[n.trackLayer] = {} THEN k ELSE n.trackLayer
       /\ y.active = IF y.trackLayer = k THEN v ELSE n.active
  BY <1>12 DEF Entered
<1>14. n.trackLayer \in TrackLayers BY <1>11, SiteActive
<1>15. y.active = w.active /\ w.active # v BY <1>8 DEF y, r
<1>16. y.trackLayer # k /\ y.active = n.active /\ y.trackLayer = n.trackLayer BY <1>13, <1>15
<1>17. y.tracks[y.trackLayer] = n.tracks[n.trackLayer] BY <1>13, <1>14, <1>16
<1>18. Locked(n, V) BY <1>5, <1>6, <1>11
<1>19. y.active \in X BY <1>8, <1>15 DEF X
<1>20. Locked(y, X) BY <1>13, <1>16, <1>17, <1>18, <1>19 DEF Locked, Owned
<1>21. y.track = y.trackLayer
  <2>1. CASE T[j] = {}
    <3>1. Lead(n, V) BY <1>5, <1>6, <1>11, <2>1
    <3> QED BY <1>13, <1>16, <3>1 DEF Lead
  <2>2. CASE T[j] # {}
    <3>1. n.active = ActiveElement(n.tracks[j]) /\ n.trackLayer = j /\ n.track = w.track
      BY <1>5, <1>6, <1>11, <2>2
    <3>2. n.active \in U[j] BY <1>6, <1>11, <2>2, <3>1, SiteActive
    <3>3. w.active \in T[j] BY <1>6, <1>15, <1>16, <3>2
    <3>4. j = w.trackLayer BY <1>9, <3>3 DEF Parts
    <3> QED BY <1>8, <1>13, <1>16, <3>1, <3>4
  <2> QED BY <2>1, <2>2
<1>22. Lead(y, X) BY <1>20, <1>21 DEF Lead
<1> QED BY <1>22 DEF y, X, r

\* The current track changed in itself, and its active view activated.
Leads(y, w, V) == Lead(y, V) /\ y.kind = w.kind

LEMMA RetrackedLeads ==
  ASSUME NEW V, NEW I, NEW T, Parts(V, T), NEW w \in Sited(V, I, T), w.track = w.trackLayer,
         NEW c, Has(c, T[w.track]), T[w.track] # {}
  PROVE  /\ Leads(Activated([w EXCEPT !.tracks[w.track] = c], ActiveElement(c)), w, V)
         /\ \A s : Has(s, V) =>
              Leads(Activated([w EXCEPT !.tracks[w.track] = c, !.views = s], ActiveElement(c)), w, V)
<1> SUFFICES ASSUME NEW s, Has(s, V)
             PROVE  /\ Leads(Activated([w EXCEPT !.tracks[w.track] = c], ActiveElement(c)), w, V)
                    /\ Leads(Activated([w EXCEPT !.tracks[w.track] = c, !.views = s],
                                       ActiveElement(c)), w, V)
  <2>1. Has(w.views, V) BY SiteParts
  <2> QED BY <2>1
<1> DEFINE l == w.track
           a == ActiveElement(c)
           x == [w EXCEPT !.tracks[w.track] = c]
           z == [w EXCEPT !.tracks[w.track] = c, !.views = s]
<1>1. w \in Shaped(Views, Views) /\ l \in TrackLayers /\ Has(w.views, V)
  BY PartsWithin, SiteActive DEF TrackLayers
<1>2. a \in T[l] BY ActiveKept
<1>3. a \in V /\ a # Null
  <2>1. a \in V BY <1>1, <1>2 DEF Parts
  <2>2. V \subseteq Views /\ Null \notin V BY <1>1, PartsWithin, SiteActive
  <2> QED BY <2>1, <2>2
<1>4. c \in CyclesOver(Views, Views) /\ s \in CyclesOver(Views, Views)
  BY RangeType DEF Has, IsCycle, CyclesOver
<1> HIDE DEF a
<1>5. /\ x \in Shaped(Views, Views) /\ x.tracks[l] = c /\ x.views = w.views
      /\ x.track = l /\ x.trackLayer = l /\ x.kind = w.kind
  BY <1>1, <1>4 DEF Shaped, WorkspaceRecords
<1>6. /\ z \in Shaped(Views, Views) /\ z.tracks[l] = c /\ z.views = s
      /\ z.track = l /\ z.trackLayer = l /\ z.kind = w.kind
  BY <1>1, <1>4 DEF Shaped, WorkspaceRecords
<1> HIDE DEF x, z, l
<1>7. /\ Activated(x, a).active = a /\ Activated(x, a).tracks = x.tracks
      /\ Activated(x, a).views = ActivateElement(x.views, a)
      /\ Activated(x, a).track = x.track /\ Activated(x, a).trackLayer = x.trackLayer
      /\ Activated(x, a).kind = x.kind
  BY <1>3, <1>5, ActivatedFields
<1>8. /\ Activated(z, a).active = a /\ Activated(z, a).tracks = z.tracks
      /\ Activated(z, a).views = ActivateElement(z.views, a)
      /\ Activated(z, a).track = z.track /\ Activated(z, a).trackLayer = z.trackLayer
      /\ Activated(z, a).kind = z.kind
  BY <1>3, <1>6, ActivatedFields
<1>9. ActiveElement(ActivateElement(w.views, a)) = a /\ ActiveElement(ActivateElement(s, a)) = a
  BY <1>1, <1>3, ActivatedLeads
<1>10. Lead(Activated(x, a), V) BY <1>3, <1>5, <1>7, <1>9 DEF Lead, Locked, Owned, a
<1>11. Lead(Activated(z, a), V) BY <1>3, <1>6, <1>8, <1>9 DEF Lead, Locked, Owned, a
<1> QED BY <1>5, <1>6, <1>7, <1>8, <1>10, <1>11 DEF Leads, x, z, a

\* The active view of a workspace is in the track the workspace was in last; of
\* one that leads, in the current one.
LEMMA LockedFacts ==
  ASSUME NEW V, NEW I, NEW T, Parts(V, T), NEW w \in Sited(V, I, T), Locked(w, V), V # {}
  PROVE  w.trackLayer \in TrackLayers /\ w.active \in T[w.trackLayer]
<1>1. w.active \in V /\ ActiveElement(w.tracks[w.trackLayer]) = w.active BY DEF Locked, Owned
<1>2. w.trackLayer \in TrackLayers /\ w.active # Null
  BY <1>1, PartsWithin, SiteActive DEF TrackLayers
<1> QED BY <1>1, <1>2, PartsWithin, SiteActive
LEMMA LeadFacts ==
  ASSUME NEW V, NEW I, NEW T, Parts(V, T), NEW w \in Sited(V, I, T), Lead(w, V), V # {}
  PROVE  /\ w.track = w.trackLayer /\ w.track \in TrackLayers /\ T[w.track] # {}
         /\ w.active \in T[w.track] /\ w.active \in V
         /\ ActiveElement(w.views) = w.active /\ ActiveElement(w.tracks[w.track]) = w.active
<1>1. /\ w.track = w.trackLayer /\ w.active \in V
      /\ ActiveElement(w.views) = w.active /\ ActiveElement(w.tracks[w.track]) = w.active
  BY DEF Lead, Locked, Owned
<1>2. w.track \in TrackLayers /\ w.active # Null
  BY <1>1, PartsWithin, SiteActive DEF TrackLayers
<1>3. w.active \in T[w.track] BY <1>1, <1>2, PartsWithin, SiteActive
<1> QED BY <1>1, <1>2, <1>3

\* Stepping the focus, or dragging the view that has it, keeps the lead.
LEMMA CycleFocusTrackLeads ==
  ASSUME NEW V, NEW I, NEW T, Parts(V, T), NEW w \in Sited(V, I, T), Lead(w, V), V # {},
         NEW d \in Directions
  PROVE  Leads(CycleFocusTrack(w, d), w, V)
<1> DEFINE c == CycleActive(CurrentTrack(w), d)
<1>1. w.track = w.trackLayer /\ T[w.track] # {} BY LeadFacts
<1>2. 0 \in Nat /\ Has(CurrentTrack(w), T[w.track]) /\ Has(w.views, V) BY SiteParts
<1>3. Has(c, T[w.track]) BY <1>2, HasKept
<1>4. CycleFocusTrack(w, d) = IF ~Layout(w).wraps /\ AtEnd(w, d) THEN w
        ELSE Activated([w EXCEPT !.tracks[w.track] = c], ActiveElement(c))
  BY DEF CycleFocusTrack
<1> HIDE DEF c
<1>5. Leads(Activated([w EXCEPT !.tracks[w.track] = c], ActiveElement(c)), w, V)
  BY <1>1, <1>3, RetrackedLeads
<1> QED BY <1>4, <1>5 DEF Leads

LEMMA CycleFocusLeads ==
  ASSUME NEW V, NEW I, NEW T, Parts(V, T), NEW w \in Sited(V, I, T), Lead(w, V), V # {},
         NEW d \in Directions
  PROVE  Leads(CycleFocus(w, d), w, V)
<1> DEFINE x == CycleTrack(w, d)
           i == NearEnd(x, d)
           t == CurrentTrack(x)
           c == ActivateAtIndex(t, i)
<1>1. Leads(CycleFocusTrack(w, d), w, V) BY CycleFocusTrackLeads
<1>2. x \in Sited(V, I, T) BY CycleTrackSited
<1>3. Lead(x, V) /\ x.kind = w.kind
  <2>1. /\ Lead(CycleTrack(w, d), V)
        /\ CycleTrack(w, d).tracks = w.tracks /\ CycleTrack(w, d).kind = w.kind
        /\ CycleTrack(w, d).track = CycleTrack(w, d).trackLayer
        /\ V # {} => CycleTrack(w, d).active \in T[CycleTrack(w, d).trackLayer]
        /\ V = {} => CycleTrack(w, d).trackLayer = w.trackLayer
    BY PartsWithin, CycleTrackLeads
  <2> QED BY <2>1
<1> HIDE DEF x
<1>4. x.track = x.trackLayer /\ T[x.track] # {} BY <1>2, <1>3, LeadFacts
<1>5. Has(t, T[x.track]) /\ Has(x.views, V) BY <1>2, SiteParts
<1>6. Size(t) \in Nat BY <1>5, HasSize
<1>7. i \in Nat /\ (i = 0 \/ i < Size(t)) BY <1>6 DEF NearEnd, LastIndex
<1> HIDE DEF i, t
<1>8. Has(c, T[x.track]) BY <1>5, <1>7, HasKept
<1>9. EnterNearEnd(x, d) = Activated([x EXCEPT !.tracks[x.track] = c], ActiveElement(c))
  BY DEF EnterNearEnd, EnterTrack, c, i, t
<1> HIDE DEF c
<1>10. Leads(Activated([x EXCEPT !.tracks[x.track] = c], ActiveElement(c)), x, V)
  BY <1>2, <1>4, <1>8, RetrackedLeads
<1> QED BY <1>1, <1>3, <1>9, <1>10 DEF CycleFocus, Leads, x

LEMMA DragFocusTrackLeads ==
  ASSUME NEW V, NEW I, NEW T, Parts(V, T), NEW w \in Sited(V, I, T), Lead(w, V), V # {},
         NEW d \in Directions
  PROVE  Leads(DragFocusTrack(w, d), w, V)
<1> DEFINE c == DragActive(CurrentTrack(w), d)
           s == SwapElements(w.views, c.elements[CurrentTrack(w).index + 1], ActiveElement(c))
<1>1. w.track = w.trackLayer /\ T[w.track] # {} BY LeadFacts
<1>2. 0 \in Nat /\ Has(CurrentTrack(w), T[w.track]) /\ Has(w.views, V) BY SiteParts
<1>3. Has(c, T[w.track]) BY <1>2, HasKept
<1>4. Has(s, V) BY <1>2, HasKept
<1>5. w \in Shaped(Views, Views) BY SiteParts
<1>6. DragFocusTrack(w, d) = IF ~Layout(w).wraps /\ AtEnd(w, d) THEN w
        ELSE LET passed == DragActive(CurrentTrack(w), d).elements[CurrentTrack(w).index + 1]
             IN  Activated([w EXCEPT !.tracks[w.track] = c, !.views = SwapElements(@, passed, ActiveElement(c))],
                            ActiveElement(c))
  BY DEF DragFocusTrack
<1>7. DragFocusTrack(w, d) = IF ~Layout(w).wraps /\ AtEnd(w, d) THEN w
        ELSE Activated([w EXCEPT !.tracks[w.track] = c, !.views = s], ActiveElement(c))
  BY <1>5, <1>6 DEF Shaped, WorkspaceRecords
<1> HIDE DEF c, s
<1>8. Leads(Activated([w EXCEPT !.tracks[w.track] = c, !.views = s], ActiveElement(c)), w, V)
  BY <1>1, <1>3, <1>4, RetrackedLeads
<1> QED BY <1>7, <1>8 DEF Leads

\* A reordering makes another view the active one, or leaves the lead where it
\* was.
Resumes(y, w, V) == /\ Owned(y, V) /\ y.kind = w.kind
                    /\ Lead(w, V) /\ y.active = w.active => Lead(y, V)

LEMMA ReorderedLeads ==
  ASSUME NEW V, NEW I, NEW T, Parts(V, T), NEW w \in Sited(V, I, T), NEW c, Has(c, V)
  PROVE  Resumes(FromViews([w EXCEPT !.views = c]), w, V)
<1> DEFINE y == FromViews([w EXCEPT !.views = c])
<1>1. w \in Shaped(Views, Views) BY SiteParts
<1>2. /\ V # {} => ActiveElement(c) \in V
      /\ V = {} => ActiveElement(c) = Null
  BY ActiveKept
<1>3. /\ y.views = c /\ y.active = ActiveElement(c) /\ y.tracks = w.tracks
      /\ y.track = w.track /\ y.trackLayer = w.trackLayer /\ y.kind = w.kind
  BY <1>1 DEF Shaped, WorkspaceRecords, FromViews
<1> HIDE DEF y
<1>4. Owned(y, V) BY <1>2, <1>3 DEF Owned
<1>5. ASSUME Lead(w, V), y.active = w.active PROVE Lead(y, V)
  BY <1>3, <1>4, <1>5 DEF Lead, Locked
<1> QED BY <1>3, <1>4, <1>5 DEF Resumes, y

LEMMA OrderLeads ==
  ASSUME NEW V, NEW I, NEW T, Parts(V, T), NEW w \in Sited(V, I, T), NEW d \in Directions,
         NEW n \in Nat
  PROVE  /\ Resumes(Reverse(w), w, V) /\ Resumes(Rotate(w, d), w, V)
         /\ Resumes(ShuffleMain(w, d, n), w, V) /\ Resumes(ShuffleStack(w, d, n), w, V)
<1>1. Has(w.views, V) BY SiteParts
<1>2. Size(w.views) \in Nat /\ 0 \in Nat BY <1>1, CycleParts DEF Has
<1>3. /\ Has(ReverseCycle(w.views), V) /\ Has(RotateCycle(w.views, d), V)
      /\ Has(RotateRange(w.views, d, 0, n), V)
      /\ Has(RotateRange(w.views, d, n, Size(w.views)), V)
  BY <1>1, <1>2, HasKept
<1> QED BY <1>3, ReorderedLeads DEF Reverse, Rotate, ShuffleMain, ShuffleStack

\* A view that is activated in its workspace takes the lead once its track is
\* the current one.
Takes(y, w, v, V) == Lead(y, V) /\ y.active = v /\ y.kind = w.kind

LEMMA ActivateViewLeads ==
  ASSUME NEW V, NEW I, NEW T, Parts(V, T), NEW w \in Sited(V, I, T), NEW l \in TrackLayers,
         NEW v \in T[l]
  PROVE  /\ Takes(ActivateTrack(ActivateView(w, v, l), l), w, v, V)
         /\ w.track = l /\ w.trackLayer = l => Takes(ActivateView(w, v, l), w, v, V)
         /\ ActivateView(w, v, l) \in Sited(V, I, T) /\ ActivateView(w, v, l).kind = w.kind
<1> DEFINE views == ActivateElement(w.views, v)
           track == ActivateElement(w.tracks[l], v)
           y == ActivateView(w, v, l)
           z == ActivateTrack(y, l)
<1>0. T \in [TrackLayers -> SUBSET Views] /\ v \in Views /\ v \in V BY DEF Parts
<1>1. /\ Has(w.views, V) /\ Has(w.tracks[l], T[l]) /\ w \in Shaped(Views, Views)
  BY PartsWithin, SiteActive
<1>2. ActiveElement(views) = v /\ ActiveElement(track) = v BY <1>0, <1>1, ActivatedLeads
<1>3. Contains(w.views, v) BY <1>0, <1>1 DEF Has, Contains
<1>4. y = [w EXCEPT !.views = views, !.tracks[l] = track, !.active = v]
  BY <1>3 DEF ActivateView
<1>5. y \in Sited(V, I, T) BY <1>0, ActivateViewSited
<1> HIDE DEF views, track, y
<1>6. /\ y.views = views /\ y.tracks[l] = track /\ y.trackLayer = w.trackLayer /\ y.active = v
      /\ y.track = w.track /\ y.kind = w.kind
  BY <1>1, <1>4 DEF Shaped, WorkspaceRecords
<1>7. w.track = l /\ w.trackLayer = l => Takes(y, w, v, V)
  BY <1>0, <1>2, <1>6 DEF Takes, Lead, Locked, Owned
<1> HIDE DEF z
<1>8. Within(V, V, T) BY PartsWithin
<1>9. /\ ActivateTrack(y, l).active = ActiveElement(y.tracks[l])
      /\ ActivateTrack(y, l).tracks = y.tracks /\ ActivateTrack(y, l).kind = y.kind
      /\ ActivateTrack(y, l).track = l /\ ActivateTrack(y, l).trackLayer = l
      /\ T[l] # {} => ActivateTrack(y, l).active \in T[l]
      /\ T[l] # {} \/ V = {} => Lead(ActivateTrack(y, l), V)
  BY <1>5, <1>8, ActivateTrackLeads
<1>10. T[l] # {} OBVIOUS
<1>11. Takes(z, w, v, V) BY <1>2, <1>6, <1>9, <1>10 DEF Takes, z
<1> QED BY <1>5, <1>6, <1>7, <1>11 DEF y, z

\* Shifting the focus of a workspace to a view of the layer it is on already.
Shifted(y, w, v, V) == /\ Resumes(y, w, V) /\ y.active = v
                       /\ Locked(w, V) /\ w.active = v => Locked(y, V)
LEMMA ShiftLeads ==
  ASSUME NEW V, NEW I, NEW T, Parts(V, T), NEW w \in Sited(V, I, T), NEW l \in TrackLayers,
         NEW v \in T[l]
  PROVE  Shifted(ChangeViewTrack(w, v, l, l, TRUE), w, v, V)
<1> DEFINE y == ChangeViewTrack(w, v, l, l, TRUE)
<1>1. v \in V /\ w \in Shaped(Views, Views) BY PartsWithin, SiteActive DEF Parts
<1>2. y = [w EXCEPT !.trackLayer = l, !.active = v] BY DEF ChangeViewTrack
<1> HIDE DEF y
<1>3. /\ y.trackLayer = l /\ y.active = v /\ y.views = w.views /\ y.tracks = w.tracks
      /\ y.track = w.track /\ y.kind = w.kind
  BY <1>1, <1>2 DEF Shaped, WorkspaceRecords
<1>4. Owned(y, V) BY <1>1, <1>3 DEF Owned
<1>5. ASSUME Locked(w, V), w.active = v PROVE Locked(y, V) /\ l = w.trackLayer
  <2>1. v = ActiveElement(w.tracks[w.trackLayer]) /\ v = ActiveElement(w.views)
    BY <1>1, <1>5 DEF Locked
  <2>2. w.trackLayer \in TrackLayers /\ v # Null BY <1>1, PartsWithin, SiteActive
  <2>3. v \in T[w.trackLayer] BY <1>1, <1>5, LockedFacts
  <2>4. l = w.trackLayer BY <2>2, <2>3 DEF Parts
  <2> QED BY <1>3, <1>4, <2>1, <2>4 DEF Locked
<1>6. ASSUME Lead(w, V), w.active = v PROVE Lead(y, V)
  <2>1. Locked(w, V) /\ w.track = w.trackLayer BY <1>1, <1>6 DEF Lead
  <2>2. Locked(y, V) /\ l = w.trackLayer BY <1>5, <1>6, <2>1
  <2> QED BY <1>3, <2>1, <2>2 DEF Lead
<1> QED BY <1>3, <1>4, <1>5, <1>6 DEF Shifted, Resumes, y

\* The icons are no part of it.
LEMMA IconsLead ==
  ASSUME NEW w \in Shaped(Views, Views), NEW c, NEW V
  PROVE  /\ Locked(w, V) <=> Locked([w EXCEPT !.icons = c], V)
         /\ Lead(w, V) <=> Lead([w EXCEPT !.icons = c], V)
         /\ [w EXCEPT !.icons = c].kind = w.kind /\ [w EXCEPT !.icons = c].active = w.active
<1> DEFINE x == [w EXCEPT !.icons = c]
<1>1. /\ x.views = w.views /\ x.tracks = w.tracks /\ x.active = w.active /\ x.track = w.track
      /\ x.trackLayer = w.trackLayer /\ x.kind = w.kind
  BY DEF Shaped, WorkspaceRecords
<1> HIDE DEF x
<1>2. (Locked(w, V) <=> Locked(x, V)) /\ (Lead(w, V) <=> Lead(x, V))
  BY <1>1 DEF Lead, Locked, Owned
<1> QED BY <1>1, <1>2 DEF x

LEMMA ToIconLeads ==
  ASSUME NEW V, NEW I, NEW T, Parts(V, T), NEW w \in Sited(V, I, T), NEW v, v \notin I,
         NEW l \in TrackLayers, \A k \in TrackLayers : v \in T[k] => k = l, Locked(w, V)
  PROVE  /\ Locked(ViewToIcon(w, v, l), V \ {v})
         /\ Lead(w, V) => Lead(ViewToIcon(w, v, l), V \ {v})
         /\ ViewToIcon(w, v, l).kind = w.kind
<1> DEFINE x == RemoveView(w, v, l)
<1>1. /\ Locked(x, V \ {v})
      /\ Lead(w, V) => Lead(x, V \ {v})
      /\ x.kind = w.kind
  BY RemoveViewLeads
<1>2. x \in Shaped(Views, Views) /\ Has(w.icons, I)
  <2>1. w \in Shaped(Views, Views) /\ Has(w.icons, I) BY SiteParts
  <2> QED BY <2>1, RemoveViewShape
<1>3. ViewToIcon(w, v, l) = [x EXCEPT !.icons = InsertAtBack(@, v)]
  BY <1>2 DEF ViewToIcon, Has, Contains
<1> HIDE DEF x
<1> QED BY <1>1, <1>2, <1>3, IconsLead

----------------------------------------------------------------------------
(* The parts of a model that a layout and a change of focus leave alone.   *)

Aside(n, m) == /\ n.workspace = m.workspace /\ n.context = m.context /\ n.ctx = m.ctx
               /\ n.out = m.out /\ n.output = m.output
               /\ n.down = m.down /\ n.astray = m.astray

\* What only flags of appearance tell apart.
Same(r, o) == Alike(r, o) /\ r.floating = o.floating /\ r.managed = o.managed

Quiet(n, m) == /\ Aside(n, m) /\ n.ws = m.ws
               /\ \A u \in Views : Same(n.view[u], m.view[u])

\* A view of a model replaced, or a field of the model.
LEMMA ViewSet ==
  ASSUME NEW C, NEW K, NEW m \in ModelRecords(C, K), NEW v \in Views, NEW r
  PROVE  /\ Aside([m EXCEPT !.view[v] = r], m) /\ [m EXCEPT !.view[v] = r].ws = m.ws
         /\ [m EXCEPT !.view[v] = r].view[v] = r /\ [m EXCEPT !.view[v] = r].focus = m.focus
         /\ \A u \in Views \ {v} : [m EXCEPT !.view[v] = r].view[u] = m.view[u]
BY DEF ModelRecords, Aside

LEMMA WsSet ==
  ASSUME NEW C, NEW K, NEW m \in ModelRecords(C, K), NEW w \in Workspaces, NEW x
  PROVE  /\ Aside([m EXCEPT !.ws[w] = x], m) /\ [m EXCEPT !.ws[w] = x].view = m.view
         /\ [m EXCEPT !.ws[w] = x].ws[w] = x /\ [m EXCEPT !.ws[w] = x].focus = m.focus
         /\ \A u \in Workspaces \ {w} : [m EXCEPT !.ws[w] = x].ws[u] = m.ws[u]
BY DEF ModelRecords, Aside

\* Showing and hiding a view changes its appearance only.
Shown(n, m, v, b) == /\ Quiet(n, m) /\ n.focus = m.focus
                     /\ \A u \in Views \ {v} : n.view[u] = m.view[u]
                     /\ n.view[v].mapped => b \/ m.view[v].mapped
LEMMA UnfocusQuiet ==
  ASSUME NEW C, NEW K, NEW m \in ModelRecords(C, K), NEW v \in Views
  PROVE  /\ Shown(Unfocus(m, v), m, v, FALSE) /\ Unfocus(m, v) \in ModelRecords(C, K)
         /\ Unfocus(m, v).view[v].mapped = m.view[v].mapped /\ ~Unfocus(m, v).view[v].focused
<1> DEFINE r == [m.view[v] EXCEPT !.focused = FALSE]
<1>1. m.view[v] \in ViewRecords BY DEF ModelRecords
<1>2. v # Null BY NullFresh
<1>3. Unfocus(m, v) = [m EXCEPT !.view[v] = r] BY <1>2 DEF Unfocus
<1>4. Same(r, m.view[v]) /\ r.mapped = m.view[v].mapped /\ r \in ViewRecords /\ ~r.focused
  BY <1>1 DEF Same, Alike, ViewRecords
<1>5. \A u \in Views : Same(m.view[u], m.view[u]) BY DEF Same, Alike
<1> HIDE DEF r
<1> DEFINE n == [m EXCEPT !.view[v] = r]
<1>6. /\ Aside(n, m) /\ n.ws = m.ws /\ n.view[v] = r /\ n.focus = m.focus
      /\ \A u \in Views \ {v} : n.view[u] = m.view[u]
  BY <1>1, ViewSet
<1>8. n \in ModelRecords(C, K) BY <1>4 DEF ModelRecords
<1> HIDE DEF n
<1>7. Quiet(n, m) BY <1>4, <1>5, <1>6 DEF Quiet
<1> QED BY <1>3, <1>4, <1>6, <1>7, <1>8 DEF n, Shown

LEMMA ShownTwice ==
  ASSUME NEW m, NEW n, NEW o, NEW v, NEW a, NEW b, Shown(n, m, v, a), Shown(o, n, v, b)
  PROVE  Shown(o, m, v, a \/ b)
<1>1. Aside(o, m) BY DEF Shown, Quiet, Aside
<1>2. \A u \in Views : Same(o.view[u], m.view[u]) BY DEF Shown, Quiet, Same, Alike
<1> QED BY <1>1, <1>2 DEF Shown, Quiet

\* A view shown keeps the focus it had, and so does one hidden that had none.
Lamp(n, m, v, b) == /\ n.view[v].mapped <=> b
                    /\ b \/ ~m.view[v].focused => n.view[v].focused = m.view[v].focused
LEMMA ShowQuiet ==
  ASSUME NEW C, NEW K, NEW m \in ModelRecords(C, K), NEW v \in Views
  PROVE  /\ Shown(Map(m, v), m, v, TRUE) /\ Shown(Unmap(m, v), m, v, FALSE)
         /\ \A b : Shown(Show(m, v, b), m, v, b)
         /\ \A b : Lamp(Show(m, v, b), m, v, b)
         /\ Lamp(Unmap(m, v), m, v, FALSE)
<1>0. ASSUME NEW n \in ModelRecords(C, K), NEW b \in BOOLEAN
      PROVE  /\ Shown([n EXCEPT !.view[v].mapped = b], n, v, b)
             /\ [n EXCEPT !.view[v].mapped = b].view[v].mapped = b
             /\ [n EXCEPT !.view[v].mapped = b].view[v].focused = n.view[v].focused
  <2> DEFINE r == [n.view[v] EXCEPT !.mapped = b]
  <2>1. n \in ModelRecords(C, K) /\ n.view[v] \in ViewRecords BY <1>0 DEF ModelRecords
  <2>2. [n EXCEPT !.view[v].mapped = b] = [n EXCEPT !.view[v] = r] OBVIOUS
  <2>3. Same(r, n.view[v]) /\ r.mapped = b /\ r.focused = n.view[v].focused
    BY <2>1 DEF Same, Alike, ViewRecords
  <2>4. \A u \in Views : Same(n.view[u], n.view[u]) BY DEF Same, Alike
  <2> HIDE DEF r
  <2> DEFINE o == [n EXCEPT !.view[v] = r]
  <2>5. /\ Aside(o, n) /\ o.ws = n.ws /\ o.view[v] = r /\ o.focus = n.focus
        /\ \A u \in Views \ {v} : o.view[u] = n.view[u]
    BY <2>1, ViewSet
  <2> HIDE DEF o
  <2>6. Quiet(o, n) BY <2>3, <2>4, <2>5 DEF Quiet
  <2> QED BY <2>2, <2>3, <2>5, <2>6 DEF o, Shown
<1>1. /\ Shown(Map(m, v), m, v, TRUE) /\ Map(m, v).view[v].mapped
      /\ Map(m, v).view[v].focused = m.view[v].focused
  BY <1>0 DEF Map
<1>2. /\ Unfocus(m, v) \in ModelRecords(C, K) /\ Shown(Unfocus(m, v), m, v, FALSE)
      /\ ~Unfocus(m, v).view[v].focused
  BY UnfocusQuiet
<1>3. Shown(m, m, v, FALSE) BY DEF Shown, Quiet, Aside, Same, Alike
<1>4. Shown(Unmap(m, v), m, v, FALSE) /\ Lamp(Unmap(m, v), m, v, FALSE)
  <2> DEFINE n == Unfocus(m, v)
  <2>1. n \in ModelRecords(C, K) /\ Shown(n, m, v, FALSE) /\ ~n.view[v].focused BY <1>2
  <2>0. n.view[v].focused \in BOOLEAN /\ m.view[v].focused \in BOOLEAN
    BY <2>1 DEF ModelRecords, ViewRecords
  <2> HIDE DEF n
  <2> DEFINE o == [n EXCEPT !.view[v].mapped = FALSE]
  <2>2. /\ Shown(o, n, v, FALSE) /\ o.view[v].mapped = FALSE
        /\ o.view[v].focused = n.view[v].focused
    BY <1>0, <2>1
  <2> HIDE DEF o
  <2>3. Shown(o, m, v, FALSE \/ FALSE) BY <2>1, <2>2, ShownTwice
  <2>4. Shown(o, m, v, FALSE) BY <2>3
  <2>5. Unmap(m, v) = IF m.view[v].mapped THEN o ELSE m BY DEF Unmap, o, n
  <2>6. Lamp(o, m, v, FALSE) BY <2>0, <2>1, <2>2 DEF Lamp
  <2>7. ~m.view[v].mapped => Lamp(m, m, v, FALSE) BY DEF Lamp
  <2> QED BY <1>3, <2>4, <2>5, <2>6, <2>7
<1>5. ASSUME NEW b PROVE Shown(Show(m, v, b), m, v, b) /\ Lamp(Show(m, v, b), m, v, b)
  <2>1. CASE b
    <3>1. Show(m, v, b) = Map(m, v) BY <2>1 DEF Show
    <3> QED BY <1>1, <2>1, <3>1 DEF Shown, Lamp
  <2>2. CASE ~b
    <3>1. Show(m, v, b) = Unmap(m, v) BY <2>2 DEF Show
    <3> QED BY <1>4, <2>2, <3>1 DEF Shown, Lamp
  <2> QED BY <2>1, <2>2
<1> QED BY <1>1, <1>4, <1>5

\* place_view as a free or a tiled view: its track and its layer change
\* together.
Put(n, m, v, b) ==
  LET w == m.view[v].ws
      k == IF b THEN FREE ELSE TILE
  IN  /\ Aside(n, m)
      /\ n.ws[w] = ChangeViewTrack(m.ws[w], v, m.view[v].layer, k, FALSE)
      /\ \A u \in Workspaces \ {w} : n.ws[u] = m.ws[u]
      /\ \A u \in Views \ {v} : n.view[u] = m.view[u]
      /\ n.view[v].free = b /\ n.view[v].layer = k
      /\ n.view[v].floating = m.view[v].floating /\ n.view[v].managed = m.view[v].managed

LEMMA PlacePuts ==
  ASSUME NEW K, K \subseteq Views, NEW l, NEW f, NEW P, NEW m \in Sits(K, l, f, P),
         NEW p, p.view \in K, p.method \in {"Free", "Tile"}
  PROVE  /\ \E b \in BOOLEAN : b = (p.method = "Free") /\ Put(PlaceView(m, p), m, p.view, b)
         /\ Lamp(PlaceView(m, p), m, p.view, p.shown)
<1> DEFINE v == p.view
           b == PlacedFree(m, p)
           w == m.view[v].ws
           j == m.view[v].layer
           k == IF b THEN FREE ELSE TILE
           x == ChangeViewTrack(m.ws[w], v, j, k, FALSE)
           a == [m.view[v] EXCEPT !.free = b]
           n == [m EXCEPT !.view[v] = a]
           z == MoveViewToTrack(n, v, k, FALSE)
<1>1. /\ w \in Workspaces /\ j \in TrackLayers /\ k \in TrackLayers
      /\ m.view[v] \in ViewRecords /\ m \in ModelRecords(CyclesOver(Views, K), K)
  BY KnownSits, SitsFacts DEF TrackLayers
<1>2. b \in BOOLEAN /\ PlacedLayer[p.method] = k /\ b = (p.method = "Free")
  <2>1. CASE p.method = "Free"
    <3>1. b = TRUE BY <2>1 DEF PlacedFree
    <3>2. PlacedLayer[p.method] = FREE BY <2>1 DEF PlacedLayer
    <3> HIDE DEF b
    <3> QED BY <2>1, <3>1, <3>2
  <2>2. CASE p.method = "Tile"
    <3>1. b = FALSE BY <2>2 DEF PlacedFree
    <3>2. PlacedLayer[p.method] = TILE BY <2>2 DEF PlacedLayer
    <3> HIDE DEF b
    <3> QED BY <2>2, <3>1, <3>2
  <2> QED BY <2>1, <2>2
<1> HIDE DEF b
<1>3. PlaceView(m, p) = Show(z, v, p.shown)
  <2>1. [m EXCEPT !.view[p.view].free = PlacedFree(m, p)] = n BY DEF b
  <2> QED BY <1>2, <2>1 DEF PlaceView
<1>4. /\ Aside(n, m) /\ n.ws = m.ws /\ n.view[v] = a /\ n.focus = m.focus
      /\ \A u \in Views \ {v} : n.view[u] = m.view[u]
  BY <1>1, ViewSet
<1>5. /\ a.ws = w /\ a.layer = j /\ a.free = b /\ a.floating = m.view[v].floating
      /\ a.managed = m.view[v].managed /\ a \in ViewRecords /\ a.focused = m.view[v].focused
  BY <1>1, <1>2 DEF ViewRecords
<1>6. n \in ModelRecords(CyclesOver(Views, K), K) BY <1>1, <1>5 DEF ModelRecords
<1> DEFINE r == [a EXCEPT !.layer = k]
<1>7. z = [[n EXCEPT !.ws[w] = x] EXCEPT !.view[v] = r]
  <2>1. z = [n EXCEPT !.ws[w] = x, !.view[v].layer = k] BY <1>4, <1>5 DEF MoveViewToTrack
  <2>2. [n EXCEPT !.ws[w] = x].view[v] = a BY <1>1, <1>4, <1>6, WsSet
  <2> HIDE DEF n, x, a, k, w
  <2> QED BY <2>1, <2>2
<1>8. /\ r.free = b /\ r.layer = k /\ r.floating = m.view[v].floating
      /\ r.managed = m.view[v].managed /\ r.focused = m.view[v].focused
  BY <1>5 DEF ViewRecords
<1> HIDE DEF r, a, n, x, k, j, w
<1> DEFINE y == [n EXCEPT !.ws[w] = x]
<1>9. /\ Aside(y, n) /\ y.view = n.view /\ y.ws[w] = x /\ y.focus = n.focus
      /\ \A u \in Workspaces \ {w} : y.ws[u] = n.ws[u]
  BY <1>1, <1>6, WsSet
<1>10. y.view = n.view /\ DOMAIN n.view = Views /\ DOMAIN y = DOMAIN n
  BY <1>6, <1>9 DEF ModelRecords
<1>11. /\ Aside(z, y) /\ z.ws = y.ws /\ z.view[v] = r
       /\ \A u \in Views \ {v} : z.view[u] = y.view[u]
  <2>1. y.view = n.view /\ DOMAIN n.view = Views /\ v \in Views BY <1>10
  <2>2. "view" \in DOMAIN y
    <3>1. DOMAIN y = DOMAIN n BY <1>10
    <3>2. "view" \in DOMAIN n BY <1>6 DEF ModelRecords
    <3> HIDE DEF y
    <3> QED BY <3>1, <3>2
  <2>3. z = [y EXCEPT !.view[v] = r] BY <1>7
  <2> HIDE DEF y, z
  <2> QED BY <2>1, <2>2, <2>3 DEF Aside
<1> HIDE DEF y, z, x
<1>12. Put(z, m, v, b)
  <2>1. Aside(z, m) BY <1>4, <1>9, <1>11 DEF Aside
  <2>2. z.ws[w] = x /\ \A u \in Workspaces \ {w} : z.ws[u] = m.ws[u] BY <1>4, <1>9, <1>11
  <2>3. \A u \in Views \ {v} : z.view[u] = m.view[u] BY <1>4, <1>9, <1>11
  <2> QED BY <1>8, <1>11, <2>1, <2>2, <2>3 DEF Put, x, w, j, k
<1>13. z \in ModelRecords(CyclesOver(Views, K), K)
  <2>1. m \in Still(K, l, f) BY SitsFacts
  <2>2. Resembles(a, m.view[v]) BY <1>1, <1>2, FlagSet DEF a
  <2>3. n \in Still(K, l, f) BY <2>1, <2>2, ResetView DEF n
  <2>4. z \in Still(K, l, f) BY <1>1, <2>3, MoveTrackStill DEF z
  <2> QED BY <2>4 DEF Still, Fit, Sound
<1> DEFINE o == Show(z, v, p.shown)
<1>14. Shown(o, z, v, p.shown) /\ Lamp(o, z, v, p.shown) BY <1>13, ShowQuiet
<1> HIDE DEF o
<1>15. Put(o, m, v, b)
  <2>1. Aside(o, m) BY <1>12, <1>14 DEF Put, Shown, Quiet, Aside
  <2>2. Same(o.view[v], z.view[v]) /\ o.ws = z.ws BY <1>14 DEF Shown, Quiet
  <2>3. \A u \in Views \ {v} : o.view[u] = m.view[u] BY <1>12, <1>14 DEF Shown, Put
  <2> QED BY <1>12, <2>1, <2>2, <2>3 DEF Put, Same, Alike
<1>16. Lamp(o, m, v, p.shown) BY <1>8, <1>11, <1>14 DEF Lamp
<1> QED BY <1>2, <1>3, <1>15, <1>16 DEF o

----------------------------------------------------------------------------
(* What a layout does: every view of the workspace comes to be placed as    *)
(* its layout asks, and only those that were not change tracks.             *)

\* arrange names each view, to be free in a free layout or when it floats, and
\* to be shown unless the layout shows only the focused one.
Arranged(s, m, V, k) ==
  /\ \E n \in Nat : DOMAIN s = 1..n
  /\ \A i \in DOMAIN s :
       /\ s[i].view \in V /\ s[i].method \in {"Free", "Tile"}
       /\ (s[i].method = "Free") <=> (k.free \/ m.view[s[i].view].floating)
       /\ s[i].shown <=> (k.single => m.view[s[i].view].focused)
  /\ \A v \in V : \E i \in DOMAIN s : s[i].view = v

LEMMA ArrangeFollows ==
  ASSUME NEW K, K \subseteq Views, NEW l, NEW f, NEW P, NEW m \in Sits(K, l, f, P),
         NEW w \in Workspaces
  PROVE  Arranged(Arrange(m, w), m, ViewsAt(P, w), Layout(m.ws[w]))
<1> DEFINE V        == ViewsAt(P, w)
           views    == m.ws[w].views.elements
           layout   == Layout(m.ws[w])
           full     == {v \in Views : m.view[v].fullscreen /\ ~m.view[v].contained}
           floating == IF layout.free THEN {} ELSE {v \in Views \ full : m.view[v].floating}
           others   == Views \ (full \cup floating)
           Shows(v) == layout.single => m.view[v].focused
           Chosen(S) == Kept(views, {i \in DOMAIN views : views[i] \in S})
           Place(method, S) ==
             [i \in DOMAIN Chosen(S) |->
               [view |-> Chosen(S)[i], method |-> method, shown |-> Shows(Chosen(S)[i])]]
           plain    == IF layout.free THEN "Free" ELSE "Tile"
<1>1. views \in Seq(V) /\ Range(views) = V BY ViewsPlaced
<1>2. full = {} BY SitsFacts DEF InPlace
<1>3. Arrange(m, w) = Place("Fullscreen", full) \o Place("Free", floating) \o Place(plain, others)
  BY DEF Arrange
<1>0. V \subseteq Views BY DEF ViewsAt
<1> DEFINE G == [view : V, method : {"Free", "Tile"}, shown : BOOLEAN]
<1>4. ASSUME NEW a, NEW S
      PROVE  /\ a \in {"Free", "Tile"} => Place(a, S) \in Seq(G)
             /\ \A i \in DOMAIN Place(a, S) :
                  /\ Place(a, S)[i].view \in V /\ Place(a, S)[i].view \in S
                  /\ Place(a, S)[i].method = a
                  /\ Place(a, S)[i].shown = Shows(Place(a, S)[i].view)
             /\ \A v \in V : v \in S => \E i \in DOMAIN Place(a, S) : Place(a, S)[i].view = v
             /\ S = {} => Place(a, S) = << >>
  <2> DEFINE kept == {j \in DOMAIN views : views[j] \in S}
             c    == Kept(views, kept)
             s    == [i \in DOMAIN c |-> [view |-> c[i], method |-> a, shown |-> Shows(c[i])]]
  <2>0. Place(a, S) = s OBVIOUS
  <2>1. c \in Seq(V) /\ Range(c) = {views[i] : i \in kept} BY <1>1, KeptFacts
  <2>3. \A v : v \in Range(c) <=> v \in V /\ v \in S BY <1>1, <2>1 DEF Range
  <2>8. \A v : Shows(v) \in BOOLEAN OBVIOUS
  <2> HIDE DEF c, kept, V, Shows, Place
  <2>4. Len(c) \in Nat /\ DOMAIN c = 1..Len(c) BY <2>1
  <2>5. \A i \in DOMAIN c : c[i] \in V /\ c[i] \in S BY <2>3 DEF Range
  <2>6. \A v \in V : v \in S => \E i \in DOMAIN c : c[i] = v BY <2>3 DEF Range
  <2>7. S = {} => s = << >>
    <3> SUFFICES ASSUME S = {} PROVE s = << >> OBVIOUS
    <3>1. Len(c) = 0
      <4>1. Len(c) # 0 => 1 \in DOMAIN c BY <2>4
      <4> QED BY <2>4, <2>5, <4>1
    <3> QED BY <2>4, <3>1
  <2>9. a \in {"Free", "Tile"} => s \in Seq(G) BY <2>4, <2>5, <2>8
  <2> QED BY <2>0, <2>4, <2>5, <2>6, <2>7, <2>9
<1> HIDE DEF Place, Shows, Chosen, V, G
<1> DEFINE b == Place("Free", floating)
           c == Place(plain, others)
           s == b \o c
<1>15. plain \in {"Free", "Tile"} OBVIOUS
<1> HIDE DEF full, floating, others, plain
<1>5. b \in Seq(G) /\ c \in Seq(G) BY <1>4, <1>15
<1>6. Arrange(m, w) = s
  <2>1. Place("Fullscreen", full) = << >> BY <1>2, <1>4
  <2> HIDE DEF b, c
  <2>2. Arrange(m, w) = << >> \o b \o c BY <1>3, <2>1 DEF b, c
  <2>3. << >> \o b = b BY <1>5
  <2> QED BY <2>2, <2>3
<1>7. /\ \A i \in DOMAIN b : /\ b[i].view \in V /\ b[i].view \in floating
                             /\ b[i].method = "Free" /\ b[i].shown = Shows(b[i].view)
      /\ \A v \in V : v \in floating => \E i \in DOMAIN b : b[i].view = v
  BY <1>4
<1>8. /\ \A i \in DOMAIN c : /\ c[i].view \in V /\ c[i].view \in others
                             /\ c[i].method = plain /\ c[i].shown = Shows(c[i].view)
      /\ \A v \in V : v \in others => \E i \in DOMAIN c : c[i].view = v
  BY <1>4
<1>9. /\ \A v \in floating : m.view[v].floating /\ ~layout.free
      /\ \A v \in others : (plain = "Free") <=> (layout.free \/ m.view[v].floating)
      /\ \A v \in V : v \in floating \/ v \in others
  <2>1. \A v \in V : v \in Views BY <1>0
  <2>2. \A v : v \in floating <=> v \in Views /\ ~layout.free /\ m.view[v].floating
    BY <1>2 DEF floating
  <2>3. \A v : v \in others <=> v \in Views /\ v \notin floating BY <1>2 DEF others
  <2>4. plain = IF layout.free THEN "Free" ELSE "Tile" BY DEF plain
  <2> HIDE DEF layout
  <2> QED BY <2>1, <2>2, <2>3, <2>4
<1> HIDE DEF b, c, layout
<1>10. /\ Len(b) \in Nat /\ Len(c) \in Nat /\ DOMAIN b = 1..Len(b) /\ DOMAIN c = 1..Len(c)
       /\ DOMAIN s = 1..(Len(b) + Len(c))
       /\ \A i \in DOMAIN b : s[i] = b[i]
       /\ \A i \in DOMAIN c : s[i + Len(b)] = c[i]
  BY <1>5
<1> HIDE DEF s
<1>11. \A i \in DOMAIN s : \/ i \in DOMAIN b /\ s[i] = b[i]
                           \/ \E j \in DOMAIN c : s[i] = c[j]
  <2> SUFFICES ASSUME NEW i \in DOMAIN s PROVE \/ i \in DOMAIN b /\ s[i] = b[i]
                                               \/ \E j \in DOMAIN c : s[i] = c[j]
    OBVIOUS
  <2>1. CASE i \in DOMAIN b BY <1>10, <2>1
  <2>2. CASE i \notin DOMAIN b
    <3>1. i - Len(b) \in DOMAIN c /\ (i - Len(b)) + Len(b) = i BY <1>10, <2>2
    <3>2. s[i] = c[i - Len(b)] BY <1>10, <3>1
    <3> QED BY <3>1, <3>2
  <2> QED BY <2>1, <2>2
<1>12. \A i \in DOMAIN s : /\ s[i].view \in V /\ s[i].method \in {"Free", "Tile"}
                           /\ (s[i].method = "Free") <=> (layout.free \/ m.view[s[i].view].floating)
                           /\ s[i].shown <=> Shows(s[i].view)
  <2> SUFFICES ASSUME NEW i \in DOMAIN s
               PROVE  /\ s[i].view \in V /\ s[i].method \in {"Free", "Tile"}
                      /\ (s[i].method = "Free") <=> (layout.free \/ m.view[s[i].view].floating)
                      /\ s[i].shown <=> Shows(s[i].view)
    OBVIOUS
  <2>1. CASE i \in DOMAIN b /\ s[i] = b[i] BY <1>7, <1>9, <2>1
  <2>2. CASE \E j \in DOMAIN c : s[i] = c[j] BY <1>8, <1>9, <1>15, <2>2
  <2> QED BY <1>11, <2>1, <2>2
<1>13. \A v \in V : \E i \in DOMAIN s : s[i].view = v
  <2> SUFFICES ASSUME NEW v \in V PROVE \E i \in DOMAIN s : s[i].view = v OBVIOUS
  <2>1. CASE v \in floating
    <3>1. PICK i \in DOMAIN b : b[i].view = v BY <1>7, <2>1
    <3>2. i \in DOMAIN s /\ s[i] = b[i] BY <1>10
    <3> QED BY <3>1, <3>2
  <2>2. CASE v \in others
    <3>1. PICK i \in DOMAIN c : c[i].view = v BY <1>8, <2>2
    <3>2. i + Len(b) \in DOMAIN s /\ s[i + Len(b)] = c[i] BY <1>10
    <3> QED BY <3>1, <3>2
  <2> QED BY <1>9, <2>1, <2>2
<1>14. \E n \in Nat : DOMAIN s = 1..n
  <2>1. Len(b) + Len(c) \in Nat BY <1>10
  <2> QED BY <1>10, <2>1
<1> QED BY <1>6, <1>12, <1>13, <1>14 DEF Arranged, Shows, layout, V

\* The tracks of a workspace share out its views.
Tracked(m, P, w, v) ==
  /\ v \in Views /\ v # Null
  /\ m.view[v].ws = w /\ P[v].ws = w /\ P[v].in = "view"
  /\ m.view[v].layer \in TrackLayers
  /\ m.view[v].layer = IF m.view[v].free THEN FREE ELSE TILE
  /\ m.view[v].free \in BOOLEAN
  /\ v \in TracksAt(m, P, w)[m.view[v].layer]
  /\ \A k \in TrackLayers : v \in TracksAt(m, P, w)[k] => k = m.view[v].layer
Divided(m, P, w) ==
  /\ Parts(ViewsAt(P, w), TracksAt(m, P, w))
  /\ m.ws[w] \in Sited(ViewsAt(P, w), IconsAt(P, w), TracksAt(m, P, w))
  /\ \A v \in ViewsAt(P, w) : Tracked(m, P, w, v)
LEMMA SiteShared ==
  ASSUME NEW K, K \subseteq Views, NEW l, NEW f, NEW P, NEW m \in Sits(K, l, f, P),
         NEW w \in Workspaces
  PROVE  Divided(m, P, w) /\ ViewsAt(P, w) \subseteq K
<1> DEFINE V == ViewsAt(P, w)
           T == TracksAt(m, P, w)
<1>1. V \subseteq K BY ViewsPlaced
<1>2. /\ T \in [TrackLayers -> SUBSET Views]
      /\ \A k \in TrackLayers : T[k] = {v \in V : m.view[v].layer = k}
  BY SiteTypes
<1>3. m.ws[w] \in Sited(V, IconsAt(P, w), T) BY SitsFacts DEF Site
<1> HIDE DEF T
<1>4. ASSUME NEW v \in V
      PROVE  /\ v \in K /\ v \in Views /\ v # Null
             /\ m.view[v].ws = w /\ P[v].ws = w /\ P[v].in = "view"
             /\ m.view[v].layer \in TrackLayers
             /\ m.view[v].layer = IF m.view[v].free THEN FREE ELSE TILE
             /\ m.view[v].free \in BOOLEAN
             /\ v \in T[m.view[v].layer]
             /\ \A k \in TrackLayers : v \in T[k] => k = m.view[v].layer
  <2>1. v \in K /\ v \in Views /\ v # Null BY <1>1, <1>4, NullFresh
  <2>2. P[v].ws = w /\ P[v].in = "view" BY <1>4 DEF ViewsAt
  <2>3. m.view[v] \in ViewRecords /\ InPlace(m.view[v], P[v]) BY <2>1, SitsFacts
  <2>4. /\ m.view[v].ws = w /\ m.view[v].layer = IF m.view[v].free THEN FREE ELSE TILE
        /\ m.view[v].layer \in TrackLayers /\ m.view[v].free \in BOOLEAN
    BY <2>2, <2>3 DEF InPlace, ViewRecords, TrackLayers
  <2> HIDE DEF V
  <2> QED BY <1>2, <1>4, <2>1, <2>2, <2>4
<1> HIDE DEF V
<1>5. Parts(V, T) BY <1>2, <1>4 DEF Parts
<1>6. \A v \in V : Tracked(m, P, w, v) BY <1>4 DEF Tracked, T
<1> QED BY <1>1, <1>3, <1>5, <1>6 DEF Divided, V, T

LEMMA KindFree == LayoutKinds[InitialKind].free \in BOOLEAN
<1>1. InitialKind \in {"Float", "SingleFloat", "Stack", "Paper"}
  BY KindsAssumption DEF LayoutKinds
<1>2. LayoutKinds["Float"].free = TRUE BY DEF LayoutKinds
<1>3. LayoutKinds["SingleFloat"].free = TRUE BY DEF LayoutKinds
<1>4. LayoutKinds["Stack"].free = FALSE BY DEF LayoutKinds
<1>5. LayoutKinds["Paper"].free = FALSE BY DEF LayoutKinds
<1> QED BY <1>1, <1>2, <1>3, <1>4, <1>5

\* Whether a view is to be free, where it is not yet so, and the track it goes to.
Right(m, v)    == LayoutKinds[InitialKind].free \/ m.view[v].floating
Off(m, P)      == {v \in ViewsAt(P, m.workspace) : m.view[v].free # Right(m, v)}
TrackFor(m, v) == IF Right(m, v) THEN FREE ELSE TILE
Moved(m, v)    == ChangeViewTrack(m.ws[m.workspace], v, m.view[v].layer, TrackFor(m, v), FALSE)

\* x is m while its workspace is being laid out.
Laid(x, m, P) ==
  LET w == m.workspace
      V == ViewsAt(P, w)
  IN  /\ Aside(x, m) /\ x.focus = m.focus
      /\ \A u \in Workspaces \ {w} : x.ws[u] = m.ws[u]
      /\ \A u \in Views \ V : x.view[u] = m.view[u]
      /\ \A u \in Views : /\ x.view[u].floating = m.view[u].floating
                          /\ x.view[u].managed = m.view[u].managed
      /\ x.ws[w].kind = m.ws[w].kind
      /\ Owned(m.ws[w], V) => Owned(x.ws[w], V)
      /\ Off(x, P) \subseteq Off(m, P)
      /\ Off(x, P) = Off(m, P) => x.ws[w] = m.ws[w]
      /\ \A v : Off(m, P) = {v} /\ Off(x, P) = {} => x.ws[w] = Moved(m, v)

LEMMA LaidPut ==
  ASSUME NEW K, K \subseteq Views, NEW l, NEW f, NEW P, NEW m \in Sits(K, l, f, P),
         NEW x \in Sits(K, l, f, P), Laid(x, m, P), NEW v \in ViewsAt(P, m.workspace),
         Right(m, v) \in BOOLEAN, NEW y, Put(y, x, v, Right(m, v)), y.focus = x.focus
  PROVE  Laid(y, m, P) /\ Off(y, P) = Off(x, P) \ {v}
<1> DEFINE b == Right(m, v)
<1>12. Right(m, v) \in BOOLEAN /\ b = Right(m, v) /\ Put(y, x, v, b) OBVIOUS
<1> HIDE DEF b
<1> DEFINE w == m.workspace
           V == ViewsAt(P, w)
           T == TracksAt(x, P, w)
           j == x.view[v].layer
           k == IF b THEN FREE ELSE TILE
<1>1. w \in Workspaces /\ x.workspace = w BY SitsFacts DEF Laid, Aside
<1>0. v \in V OBVIOUS
<1> HIDE DEF w, T, j, k
<1>18. Divided(x, P, w) /\ Divided(m, P, w) BY <1>1, SiteShared
<1>19. Tracked(x, P, w, v) /\ Tracked(m, P, w, v) BY <1>0, <1>18 DEF Divided
<1>2. Parts(V, T) /\ x.ws[w] \in Sited(V, IconsAt(P, w), T) BY <1>18 DEF Divided, T
<1>16. /\ v \in Views /\ x.view[v].ws = w /\ x.view[v].layer \in TrackLayers
       /\ x.view[v].layer = IF x.view[v].free THEN FREE ELSE TILE
       /\ x.view[v].free \in BOOLEAN /\ v \in TracksAt(x, P, w)[x.view[v].layer]
  BY <1>19 DEF Tracked
<1>17. k \in TrackLayers BY <1>12 DEF k, TrackLayers
<1>3. /\ v \in Views /\ x.view[v].ws = w /\ j \in TrackLayers /\ k \in TrackLayers
      /\ v \in T[j] /\ j = IF x.view[v].free THEN FREE ELSE TILE
      /\ x.view[v].free \in BOOLEAN
  BY <1>16, <1>17 DEF j, T
<1>4. /\ m.view[v].layer = IF m.view[v].free THEN FREE ELSE TILE
      /\ m.view[v].free \in BOOLEAN
  BY <1>19 DEF Tracked
<1>5. /\ Aside(y, x)
      /\ y.ws[w] = ChangeViewTrack(x.ws[w], v, j, k, FALSE)
      /\ \A u \in Workspaces \ {w} : y.ws[u] = x.ws[u]
      /\ \A u \in Views \ {v} : y.view[u] = x.view[u]
      /\ y.view[v].free = b /\ y.view[v].layer = k
      /\ y.view[v].floating = x.view[v].floating /\ y.view[v].managed = x.view[v].managed
  BY <1>3, <1>12 DEF Put, j, k
<1>6. /\ Aside(x, m) /\ x.focus = m.focus
      /\ \A u \in Workspaces \ {w} : x.ws[u] = m.ws[u]
      /\ \A u \in Views \ V : x.view[u] = m.view[u]
      /\ \A u \in Views : /\ x.view[u].floating = m.view[u].floating
                          /\ x.view[u].managed = m.view[u].managed
      /\ x.ws[w].kind = m.ws[w].kind
      /\ Owned(m.ws[w], V) => Owned(x.ws[w], V)
      /\ Off(x, P) \subseteq Off(m, P)
      /\ Off(x, P) = Off(m, P) => x.ws[w] = m.ws[w]
  BY DEF Laid, w
<1>7. /\ Aside(y, m) /\ y.focus = m.focus
      /\ \A u \in Workspaces \ {w} : y.ws[u] = m.ws[u]
      /\ \A u \in Views \ V : y.view[u] = m.view[u]
      /\ \A u \in Views : /\ y.view[u].floating = m.view[u].floating
                          /\ y.view[u].managed = m.view[u].managed
  <2>1. Aside(y, m) BY <1>5, <1>6 DEF Aside
  <2>2. \A u \in Views : /\ y.view[u].floating = x.view[u].floating
                         /\ y.view[u].managed = x.view[u].managed
    BY <1>5
  <2>3. \A u \in Views \ V : y.view[u] = m.view[u]
    <3> SUFFICES ASSUME NEW u \in Views \ V PROVE y.view[u] = m.view[u] OBVIOUS
    <3>1. u \in Views \ {v} BY <1>0
    <3> QED BY <1>5, <1>6, <3>1
  <2>4. \A u \in Workspaces \ {w} : y.ws[u] = m.ws[u] BY <1>5, <1>6
  <2>5. y.focus = m.focus BY <1>6
  <2> QED BY <1>6, <2>1, <2>2, <2>3, <2>4, <2>5
<1>8. y.workspace = w BY <1>7 DEF Aside, w
<1>9. /\ \A u \in Views : Right(x, u) = Right(m, u) /\ Right(y, u) = Right(m, u)
      /\ V \subseteq Views
  BY <1>6, <1>7 DEF Right, ViewsAt
<1>10. /\ Off(m, P) = {u \in V : m.view[u].free # Right(m, u)}
       /\ Off(x, P) = {u \in V : x.view[u].free # Right(m, u)}
       /\ Off(y, P) = {u \in V : y.view[u].free # Right(m, u)}
  <2>1. Off(m, P) = {u \in V : m.view[u].free # Right(m, u)} BY DEF Off, w
  <2>2. Off(x, P) = {u \in V : x.view[u].free # Right(x, u)} BY <1>1 DEF Off
  <2>3. Off(y, P) = {u \in V : y.view[u].free # Right(y, u)} BY <1>8 DEF Off
  <2> HIDE DEF V
  <2>4. \A u \in V : Right(x, u) = Right(m, u) /\ Right(y, u) = Right(m, u) BY <1>9
  <2> QED BY <2>1, <2>2, <2>3, <2>4
<1> HIDE DEF V
<1>11. Off(y, P) = Off(x, P) \ {v} BY <1>5, <1>9, <1>10, <1>12
<1>13. v \in V BY DEF V, w
<1>14. CASE v \notin Off(x, P)
  <2>1. x.view[v].free = b BY <1>10, <1>12, <1>13, <1>14
  <2>2. j = k BY <1>3, <2>1 DEF k
  <2>3. y.ws[w] = x.ws[w] BY <1>5, <2>2 DEF ChangeViewTrack
  <2>4. Off(y, P) = Off(x, P) BY <1>11, <1>14
  <2>5. \A u : Off(m, P) = {u} /\ Off(x, P) = {} => x.ws[w] = Moved(m, u) BY DEF Laid, w
  <2>6. /\ y.ws[w].kind = m.ws[w].kind
        /\ Owned(m.ws[w], V) => Owned(y.ws[w], V)
        /\ Off(y, P) \subseteq Off(m, P)
        /\ Off(y, P) = Off(m, P) => y.ws[w] = m.ws[w]
        /\ \A u : Off(m, P) = {u} /\ Off(y, P) = {} => y.ws[w] = Moved(m, u)
    BY <1>6, <2>3, <2>4, <2>5
  <2> QED BY <1>7, <1>11, <2>6 DEF Laid, w, V
<1>15. CASE v \in Off(x, P)
  <2>1. x.view[v].free # b BY <1>10, <1>12, <1>15
  <2>2. j # k
    <3>1. FREE # TILE BY DEF FREE, TILE
    <3> QED BY <1>3, <1>12, <2>1, <3>1 DEF k
  <2>3. /\ Owned(x.ws[w], V) => Owned(y.ws[w], V)
        /\ y.ws[w].kind = x.ws[w].kind
    <3> DEFINE o == x.ws[w]
    <3>1. o \in Sited(V, IconsAt(P, w), T) /\ Parts(V, T) /\ v \in T[j] BY <1>2, <1>3
    <3>2. y.ws[w] = ChangeViewTrack(o, v, j, k, FALSE) BY <1>5
    <3> HIDE DEF o
    <3>3. Crossed(ChangeViewTrack(o, v, j, k, FALSE), o, V, k, v)
      BY <1>3, <2>2, <3>1, ChangeTrackOwned
    <3> QED BY <3>2, <3>3 DEF o, Crossed
  <2>4. Off(y, P) # Off(m, P) /\ Off(y, P) \subseteq Off(m, P) BY <1>6, <1>11, <1>15
  <2>5. ASSUME NEW u, Off(m, P) = {u}, Off(y, P) = {} PROVE y.ws[w] = Moved(m, u)
    <3>1. u = v /\ Off(x, P) = Off(m, P) BY <1>6, <1>11, <1>15, <2>5
    <3>2. x.ws[w] = m.ws[w] BY <1>6, <3>1
    <3>3. m.view[v].free = x.view[v].free
      <4>1. m.view[v].free # Right(m, v) /\ x.view[v].free # Right(m, v)
        BY <1>10, <1>15, <3>1
      <4> QED BY <1>3, <1>4, <1>12, <4>1
    <3>4. m.view[v].layer = j BY <1>3, <1>4, <3>3
    <3>5. TrackFor(m, v) = k BY <1>12 DEF TrackFor, k
    <3> QED BY <1>5, <3>1, <3>2, <3>4, <3>5 DEF Moved, w
  <2>6. /\ y.ws[w].kind = m.ws[w].kind
        /\ Owned(m.ws[w], V) => Owned(y.ws[w], V)
        /\ Off(y, P) \subseteq Off(m, P)
        /\ Off(y, P) = Off(m, P) => y.ws[w] = m.ws[w]
        /\ \A u : Off(m, P) = {u} /\ Off(y, P) = {} => y.ws[w] = Moved(m, u)
    BY <1>6, <2>3, <2>4, <2>5
  <2> QED BY <1>7, <1>11, <2>6 DEF Laid, w, V
<1> QED BY <1>14, <1>15

LEMMA PlaceReach ==
  ASSUME NEW D, NEW s, NEW n \in Nat, NEW m \in D[0], DOMAIN s = 1..n,
         \A i \in 1..n : \A x \in D[i - 1] : PlaceView(x, s[i]) \in D[i]
  PROVE  SE!FoldLeft(PlaceView, m, s) \in D[n]
<1>1. Places!Folded(m, s) \in D[n] BY Places!FoldReaches
<1> QED
  BY <1>1 DEF Places!Folded, SE!FoldLeft, Places!FoldLeft, SE!MapThenFoldSet,
              Places!MapThenFoldSet, SE!Max, Places!Max

\* A layout that shows one view hides all but the focused ones; any other shows all.
Single == LayoutKinds[InitialKind].single
Lights(n, m, P) ==
  \A u \in Views :
    /\ n.view[u].focused = m.view[u].focused
    /\ u \notin ViewsAt(P, m.workspace) => n.view[u].mapped = m.view[u].mapped
    /\ u \in ViewsAt(P, m.workspace) => (n.view[u].mapped <=> (Single => m.view[u].focused))

\* Laying out the workspace on display places every view of it as it is to be.
LEMMA LayoutRuns ==
  ASSUME NEW K, K \subseteq Views, NEW l, NEW f, NEW P, NEW m \in Sits(K, l, f, P),
         IsVisible(m, m.workspace), m.ws[m.workspace].kind = InitialKind
  PROVE  /\ LaidOut(m) \in Sits(K, l, f, P) /\ Laid(LaidOut(m), m, P) /\ Off(LaidOut(m), P) = {}
         /\ Lights(LaidOut(m), m, P)
<1> DEFINE w == m.workspace
           V == ViewsAt(P, w)
           s == Arrange(m, w)
           layout == Layout(m.ws[w])
<1>1. w \in Workspaces BY SitsFacts
<1>2. Arranged(s, m, V, layout) BY <1>1, ArrangeFollows
<1>3. layout.free = LayoutKinds[InitialKind].free /\ layout.single = Single BY DEF Layout, Single
<1>4. LaidOut(m) = SE!FoldLeft(PlaceView, m, s) BY DEF LaidOut, ApplyLayout
<1> HIDE DEF s, layout
<1>5. PICK n \in Nat : DOMAIN s = 1..n BY <1>2 DEF Arranged
<1> DEFINE Bears(x, v) == x.view[v].mapped <=> (Single => m.view[v].focused)
           D == [i \in 0..n |-> {x \in Sits(K, l, f, P) :
                                   /\ Laid(x, m, P)
                                   /\ \A j \in 1..i : s[j].view \notin Off(x, P)
                                   /\ \A u \in Views : x.view[u].focused = m.view[u].focused
                                   /\ \A j \in 1..i : Bears(x, s[j].view)}]
<1>6. Laid(m, m, P) BY DEF Laid, Aside
<1>7. m \in D[0]
  <2>1. 0 \in 0..n BY <1>5
  <2>2. \A j \in 1..0 : s[j].view \notin Off(m, P) /\ Bears(m, s[j].view) OBVIOUS
  <2> QED BY <1>6, <2>1, <2>2
<1>8. \A i \in 1..n : \A x \in D[i - 1] : PlaceView(x, s[i]) \in D[i]
  <2> SUFFICES ASSUME NEW i \in 1..n, NEW x \in D[i - 1] PROVE PlaceView(x, s[i]) \in D[i]
    OBVIOUS
  <2>1. i - 1 \in 0..n /\ i \in 0..n /\ i \in DOMAIN s BY <1>5
  <2>2. /\ x \in Sits(K, l, f, P) /\ Laid(x, m, P)
        /\ \A j \in 1..(i - 1) : s[j].view \notin Off(x, P)
        /\ \A u \in Views : x.view[u].focused = m.view[u].focused
        /\ \A j \in 1..(i - 1) : Bears(x, s[j].view)
    BY <2>1
  <2> DEFINE v == s[i].view
             y == PlaceView(x, s[i])
  <2>3. /\ v \in V /\ s[i].method \in {"Free", "Tile"}
        /\ (s[i].method = "Free") <=> (layout.free \/ m.view[v].floating)
        /\ s[i].shown <=> (Single => m.view[v].focused)
    BY <1>2, <1>3, <2>1 DEF Arranged
  <2>4. v \in K /\ P[v].in = "view" BY <1>1, <2>3, ViewsPlaced
  <2>5. y \in Sits(K, l, f, P) BY <2>2, <2>3, <2>4, PlaceSits
  <2>13. /\ \E b \in BOOLEAN : b = (s[i].method = "Free") /\ Put(y, x, v, b)
         /\ Lamp(y, x, v, s[i].shown)
    <3> DEFINE p == s[i]
    <3>1. p.view \in K /\ p.method \in {"Free", "Tile"} BY <2>3, <2>4
    <3> HIDE DEF p
    <3>2. /\ \E b \in BOOLEAN : b = (p.method = "Free") /\ Put(PlaceView(x, p), x, p.view, b)
          /\ Lamp(PlaceView(x, p), x, p.view, p.shown)
      BY <2>2, <3>1, PlacePuts
    <3> QED BY <3>2 DEF p
  <2>6. PICK b \in BOOLEAN : b = (s[i].method = "Free") /\ Put(y, x, v, b) BY <2>13
  <2>7. b = Right(m, v)
    <3>1. m.view[v].floating \in BOOLEAN /\ v \in Views BY <2>4, SitsFacts DEF ViewRecords
    <3>2. LayoutKinds[InitialKind].free \in BOOLEAN BY KindFree
    <3> QED BY <1>3, <2>3, <2>6, <3>1, <3>2 DEF Right
  <2>8. y.focus = x.focus BY <2>2, <2>5 DEF Sits, Still
  <2> HIDE DEF y, v
  <2>9. Laid(y, m, P) /\ Off(y, P) = Off(x, P) \ {v}
    <3>1. v \in ViewsAt(P, m.workspace) BY <2>3
    <3>2. Put(y, x, v, Right(m, v)) /\ Right(m, v) \in BOOLEAN BY <2>6, <2>7
    <3> QED BY <2>2, <2>5, <2>8, <3>1, <3>2, LaidPut
  <2>10. \A j \in 1..i : s[j].view \notin Off(y, P)
    <3> SUFFICES ASSUME NEW j \in 1..i PROVE s[j].view \notin Off(y, P) OBVIOUS
    <3>1. j = i \/ j \in 1..(i - 1) OBVIOUS
    <3> QED BY <2>2, <2>9, <3>1 DEF v
  <2>11. \A u \in Views : /\ y.view[u].focused = m.view[u].focused
                          /\ u # v => y.view[u].mapped = x.view[u].mapped
                          /\ u = v => Bears(y, u)
    <3> TAKE u \in Views
    <3>1. CASE u # v
      <4>1. y.view[u] = x.view[u] BY <2>6, <3>1 DEF Put
      <4> QED BY <2>2, <3>1, <4>1
    <3>2. CASE u = v
      <4>1. x.view[v].focused = m.view[v].focused BY <2>2, <3>2
      <4>2. m.view[v].focused \in BOOLEAN BY <3>2, SitsFacts DEF ViewRecords
      <4>3. (s[i].shown \/ ~x.view[v].focused) /\ Lamp(y, x, v, s[i].shown)
        BY <2>3, <2>13, <4>1, <4>2
      <4> QED BY <2>3, <3>2, <4>1, <4>3 DEF Lamp
    <3> QED BY <3>1, <3>2
  <2>12. \A j \in 1..i : Bears(y, s[j].view)
    <3> SUFFICES ASSUME NEW j \in 1..i PROVE Bears(y, s[j].view) OBVIOUS
    <3>1. j = i \/ j \in 1..(i - 1) OBVIOUS
    <3>2. s[j].view \in Views
      <4>1. j \in DOMAIN s BY <1>5
      <4>2. \A k \in DOMAIN s : s[k].view \in V BY <1>2 DEF Arranged
      <4>3. s[j].view \in V BY <4>1, <4>2
      <4> QED BY <4>3 DEF ViewsAt
    <3>3. CASE s[j].view = v BY <2>11, <3>2, <3>3
    <3>4. CASE s[j].view # v
      <4>1. Bears(x, s[j].view) BY <2>2, <3>1, <3>4 DEF v
      <4> QED BY <2>11, <3>2, <3>4, <4>1
    <3> QED BY <3>3, <3>4
  <2> QED BY <2>1, <2>5, <2>9, <2>10, <2>11, <2>12 DEF y
<1> DEFINE z == SE!FoldLeft(PlaceView, m, s)
<1>9. z \in D[n]
  <2> HIDE DEF D
  <2> QED BY <1>5, <1>7, <1>8, PlaceReach
<1> HIDE DEF z
<1>10. /\ z \in Sits(K, l, f, P) /\ Laid(z, m, P)
       /\ \A j \in 1..n : s[j].view \notin Off(z, P)
       /\ \A u \in Views : z.view[u].focused = m.view[u].focused
       /\ \A j \in 1..n : Bears(z, s[j].view)
  BY <1>5, <1>9
<1> HIDE DEF D
<1>11. Off(z, P) = {}
  <2> SUFFICES ASSUME NEW v \in Off(z, P) PROVE FALSE OBVIOUS
  <2>1. z.workspace = w BY <1>10 DEF Laid, Aside
  <2>2. v \in V BY <2>1 DEF Off
  <2>3. PICK i \in DOMAIN s : s[i].view = v BY <1>2, <2>2 DEF Arranged
  <2> QED BY <1>5, <1>10, <2>3
<1>12. Lights(z, m, P)
  <2> SUFFICES ASSUME NEW u \in Views
               PROVE  /\ z.view[u].focused = m.view[u].focused
                      /\ u \notin V => z.view[u].mapped = m.view[u].mapped
                      /\ u \in V => Bears(z, u)
    BY DEF Lights
  <2>1. u \notin V => z.view[u].mapped = m.view[u].mapped BY <1>10 DEF Laid
  <2>2. ASSUME u \in V PROVE Bears(z, u)
    <3>1. PICK i \in DOMAIN s : s[i].view = u BY <1>2, <2>2 DEF Arranged
    <3> QED BY <1>5, <1>10, <3>1
  <2> QED BY <1>10, <2>1, <2>2
<1> QED BY <1>4, <1>10, <1>11, <1>12 DEF z

----------------------------------------------------------------------------
(* One output, which shows the current context.                             *)

Anchored(m) ==
  /\ m.output \in Outputs
  /\ \A o \in Outputs : m.out[o] = IF o = m.output THEN m.context ELSE Null
  /\ \A c \in Contexts : m.ctx[c].output = IF c = m.context THEN m.output ELSE Null
  /\ m.ctx[m.context].active = m.workspace

\* No icon is drawn, and every window that is not unmapped is managed.
Standing(m, P) ==
  /\ ~m.down /\ ~m.astray /\ Anchored(m)
  /\ \A w \in Workspaces : m.ws[w].kind = InitialKind
  /\ \A v \in Views : /\ m.view[v].mapped => P[v].in # "icon"
                      /\ P[v].state # "unmapped" => m.view[v].managed

\* Only the current workspace is visible.
LEMMA AnchoredSees ==
  ASSUME NEW K, NEW m \in Sound(K), Anchored(m), NEW w \in Workspaces
  PROVE  /\ IsVisible(m, w) <=> w = m.workspace
         /\ ContextOf(m.workspace) = m.context /\ m.context \in Contexts /\ m.workspace \in Workspaces
         /\ OutputOf(m, w) # Null <=> ContextOf(w) = m.context
         /\ ContextOf(w) = m.context => OutputOf(m, w) = m.output
         /\ m.output \in Outputs /\ m.output # Null /\ m.out[m.output] = m.context
<1>1. m.context \in Contexts /\ m.workspace \in Workspaces BY DEF Sound, ModelRecords
<1>2. ContextOf(w) \in Contexts BY ContextOfType
<1>3. ContextOf(m.workspace) = m.context BY <1>1 DEF Anchored, Sound, ContextsHome
<1>4. m.output # Null BY NullFresh DEF Anchored
<1>5. OutputOf(m, w) = IF ContextOf(w) = m.context THEN m.output ELSE Null
  BY <1>2 DEF OutputOf, Anchored
<1>6. m.out[m.output] = m.context BY DEF Anchored
<1>7. IsVisible(m, w) <=> w = m.workspace
  <2>1. CASE ContextOf(w) = m.context
    <3>1. OutputOf(m, w) = m.output BY <1>5, <2>1
    <3> QED BY <1>4, <1>6, <3>1 DEF IsVisible, Anchored
  <2>2. CASE ContextOf(w) # m.context BY <1>3, <1>5, <2>2 DEF IsVisible
  <2> QED BY <2>1, <2>2
<1> QED BY <1>1, <1>3, <1>4, <1>5, <1>6, <1>7 DEF Anchored

\* What leaves a model standing.
Stands(n, m, P) ==
  /\ Aside(n, m) /\ \A w \in Workspaces : n.ws[w].kind = m.ws[w].kind
  /\ \A v \in Views : /\ n.view[v].managed = m.view[v].managed
                      /\ n.view[v].mapped => m.view[v].mapped \/ P[v].in # "icon"
Mute(n, m) == Quiet(n, m) /\ \A v \in Views : n.view[v].mapped => m.view[v].mapped
Alight(n, m) == \A v \in Views : n.view[v].mapped = m.view[v].mapped

LEMMA StandsOn ==
  ASSUME NEW P, NEW m, Standing(m, P), NEW n, Stands(n, m, P)
  PROVE  Standing(n, P)
BY DEF Standing, Stands, Anchored, Aside

LEMMA StandsLaid ==
  ASSUME NEW P, NEW m, NEW n, Laid(n, m, P)
  PROVE  Stands(n, m, P)
<1>1. \A w \in Workspaces : n.ws[w].kind = m.ws[w].kind BY DEF Laid
<1>2. \A v \in Views : v \in ViewsAt(P, m.workspace) => P[v].in = "view" BY DEF ViewsAt
<1>3. \A v \in Views : n.view[v].mapped => m.view[v].mapped \/ P[v].in # "icon"
  BY <1>2 DEF Laid
<1> QED BY <1>1, <1>3 DEF Laid, Stands

LEMMA StandsWs ==
  ASSUME NEW C, NEW K, NEW P, NEW m \in ModelRecords(C, K), NEW w \in Workspaces, NEW x,
         x.kind = m.ws[w].kind
  PROVE  Stands([m EXCEPT !.ws[w] = x], m, P)
<1> DEFINE n == [m EXCEPT !.ws[w] = x]
<1>1. /\ Aside(n, m) /\ n.view = m.view /\ n.ws[w] = x
      /\ \A u \in Workspaces \ {w} : n.ws[u] = m.ws[u]
  BY WsSet
<1> HIDE DEF n
<1>2. Stands(n, m, P) BY <1>1 DEF Stands
<1> QED BY <1>2 DEF n

LEMMA StandsMute ==
  ASSUME NEW P, NEW m, NEW n, Mute(n, m)
  PROVE  Stands(n, m, P) /\ Off(n, P) = Off(m, P) /\ n.ws = m.ws /\ Current(n) = Current(m)
<1>1. n.ws = m.ws /\ n.workspace = m.workspace BY DEF Mute, Quiet, Aside
<1>2. \A v \in ViewsAt(P, m.workspace) : v \in Views BY DEF ViewsAt
<1>3. \A v \in Views : n.view[v].free = m.view[v].free /\ n.view[v].floating = m.view[v].floating
  BY DEF Mute, Quiet, Same, Alike
<1>4. Off(n, P) = Off(m, P) BY <1>1, <1>2, <1>3 DEF Off, Right
<1> QED BY <1>1, <1>4 DEF Mute, Quiet, Same, Stands, Current

LEMMA MuteShown ==
  ASSUME NEW m, NEW n, NEW v
  PROVE  /\ Shown(n, m, v, FALSE) => Mute(n, m)
         /\ \A o : Mute(n, m) /\ Mute(o, n) => Mute(o, m)
         /\ Mute(m, m)
<1>1. ASSUME Shown(n, m, v, FALSE) PROVE Mute(n, m) BY <1>1 DEF Shown, Mute
<1>2. ASSUME NEW o, Mute(n, m), Mute(o, n) PROVE Mute(o, m)
  BY <1>2 DEF Mute, Quiet, Aside, Same, Alike
<1>3. Mute(m, m) BY DEF Mute, Quiet, Aside, Same, Alike
<1> QED BY <1>1, <1>2, <1>3

\* The focus goes from one view to another, or to none.
LEMMA SwitchMute ==
  ASSUME NEW C, NEW K, NEW m \in ModelRecords(C, K), m.focus \in Views \cup {Null}
  PROVE  /\ Mute(Unfocus(m, m.focus), m) /\ Unfocus(m, m.focus) \in ModelRecords(C, K)
         /\ Unfocus(m, m.focus).focus = m.focus
         /\ Mute([Unfocus(m, m.focus) EXCEPT !.focus = Null], m)
         /\ Alight(Unfocus(m, m.focus), m)
         /\ Alight([Unfocus(m, m.focus) EXCEPT !.focus = Null], m)
         /\ \A v \in Views : /\ Mute(SwitchFocus(m, v), m) /\ SwitchFocus(m, v).focus = v
                             /\ Alight(SwitchFocus(m, v), m) /\ SwitchFocus(m, v).view[v].focused
<1> DEFINE n == Unfocus(m, m.focus)
<1>1. Mute(n, m) /\ n \in ModelRecords(C, K) /\ n.focus = m.focus /\ Alight(n, m)
  <2>1. CASE m.focus = Null
    <3>1. n = m BY <2>1 DEF Unfocus
    <3> QED BY <3>1, MuteShown DEF Alight
  <2>2. CASE m.focus \in Views
    <3>0. \A v \in Views :
            /\ Shown(Unfocus(m, v), m, v, FALSE) /\ Unfocus(m, v) \in ModelRecords(C, K)
            /\ Unfocus(m, v).view[v].mapped = m.view[v].mapped /\ ~Unfocus(m, v).view[v].focused
      <4> HIDE DEF n
      <4> QED BY UnfocusQuiet
    <3>1. /\ Shown(n, m, m.focus, FALSE) /\ n \in ModelRecords(C, K)
          /\ n.view[m.focus].mapped = m.view[m.focus].mapped
      BY <2>2, <3>0
    <3> QED BY <3>1, MuteShown DEF Shown, Alight
  <2> QED BY <2>1, <2>2
<1> HIDE DEF n
<1>2. ASSUME NEW o \in ModelRecords(C, K), NEW v
      PROVE  /\ Mute([o EXCEPT !.focus = v], o) /\ [o EXCEPT !.focus = v].focus = v
             /\ [o EXCEPT !.focus = v].view = o.view
  BY <1>2 DEF Mute, Quiet, Aside, Same, Alike, ModelRecords
<1>3. Mute([n EXCEPT !.focus = Null], m) /\ Alight([n EXCEPT !.focus = Null], m)
  <2> DEFINE o == [n EXCEPT !.focus = Null]
  <2>1. Mute(o, n) /\ o.view = n.view BY <1>1, <1>2
  <2> HIDE DEF o
  <2> QED BY <1>1, <2>1, MuteShown DEF o, Alight
<1>4. ASSUME NEW v \in Views
      PROVE  /\ Mute(SwitchFocus(m, v), m) /\ SwitchFocus(m, v).focus = v
             /\ Alight(SwitchFocus(m, v), m) /\ SwitchFocus(m, v).view[v].focused
  <2> DEFINE r == [n.view[v] EXCEPT !.focused = TRUE]
             p == [n EXCEPT !.view[v] = r]
             q == [p EXCEPT !.focus = v]
  <2>1. n.view[v] \in ViewRecords BY <1>1 DEF ModelRecords
  <2>2. Same(r, n.view[v]) /\ r.mapped = n.view[v].mapped /\ r \in ViewRecords /\ r.focused
    BY <2>1 DEF Same, Alike, ViewRecords
  <2>3. SwitchFocus(m, v) = q BY DEF SwitchFocus, n
  <2> HIDE DEF r
  <2>4. /\ Aside(p, n) /\ p.ws = n.ws /\ p.view[v] = r /\ p.focus = n.focus
        /\ \A u \in Views \ {v} : p.view[u] = n.view[u]
    BY <1>1, ViewSet
  <2>5. p \in ModelRecords(C, K) BY <1>1, <2>2 DEF ModelRecords
  <2> HIDE DEF p
  <2>6. \A u \in Views : Same(p.view[u], n.view[u]) BY <2>2, <2>4 DEF Same, Alike
  <2>7. Mute(p, n) BY <2>2, <2>4, <2>6 DEF Mute, Quiet
  <2>8. Mute(q, p) /\ q.focus = v /\ q.view = p.view BY <1>2, <2>5
  <2> HIDE DEF q
  <2>9. Alight(q, m) /\ q.view[v].focused BY <1>1, <2>2, <2>4, <2>8 DEF Alight
  <2> QED BY <1>1, <2>3, <2>7, <2>8, <2>9, MuteShown
<1> QED BY <1>1, <1>3, <1>4 DEF n

----------------------------------------------------------------------------
(* The focus is given and followed.                                         *)

Here(m, P) == ViewsAt(P, m.workspace)
Calm(m, P) == \A w \in Workspaces \ {m.workspace} : Locked(m.ws[w], ViewsAt(P, w))
\* No view of a hidden workspace is shown, and every view of the one on display
\* is unless its layout shows one only. That one is the focus, which knows it.
Dim(m, P)    == /\ \A u \in Views : m.view[u].mapped /\ P[u].in = "view" => P[u].ws = m.workspace
                /\ ~Single => \A u \in Here(m, P) : m.view[u].mapped
Lit(m)       == m.focus # Null => m.view[m.focus].focused
Bright(m, P) == /\ Dim(m, P) /\ Lit(m)
                /\ Single => \A u \in Here(m, P) : m.view[u].mapped => u = m.focus
                /\ m.focus \in Here(m, P) => m.view[m.focus].mapped
Base(K, l, P)   == {m \in Home(K, l, P) : Standing(m, P)}
Ready(K, l, P)  == {m \in Base(K, l, P) :
                      /\ Off(m, P) = {} /\ Calm(m, P) /\ Owned(Current(m), Here(m, P))
                      /\ Dim(m, P)
                      /\ Current(m).active = m.focus =>
                           Lead(Current(m), Here(m, P)) /\ Bright(m, P)}
Steady(K, l, P) == {m \in Base(K, l, P) :
                      /\ Off(m, P) = {} /\ Calm(m, P) /\ Lead(Current(m), Here(m, P))
                      /\ m.focus = Current(m).active /\ Bright(m, P)}

\* What else changes leaves the views shown or hidden as they are.
LEMMA BrightOn ==
  ASSUME NEW P, NEW m, NEW n, n.workspace = m.workspace
  PROVE  /\ Here(n, P) = Here(m, P)
         /\ Alight(n, m) /\ Dim(m, P) => Dim(n, P)
         /\ n.view = m.view /\ n.focus = m.focus => /\ Dim(m, P) => Dim(n, P)
                                                    /\ Lit(m) => Lit(n)
                                                    /\ Bright(m, P) => Bright(n, P)
<1>1. Here(n, P) = Here(m, P) /\ \A u \in Here(m, P) : u \in Views BY DEF Here, ViewsAt
<1>2. Alight(n, m) /\ Dim(m, P) => Dim(n, P) BY <1>1 DEF Alight, Dim
<1>3. n.view = m.view => Alight(n, m) BY DEF Alight
<1> QED BY <1>1, <1>2, <1>3 DEF Lit, Bright

Glows(n, m) == \A u \in Views : /\ n.view[u].mapped = m.view[u].mapped
                                /\ n.view[u].focused = m.view[u].focused
LEMMA BrightAlike ==
  ASSUME NEW P, NEW m, NEW n, n.workspace = m.workspace, n.focus = m.focus, Glows(n, m),
         m.focus \in Views \cup {Null}, Bright(m, P)
  PROVE  Bright(n, P)
<1>1. Here(n, P) = Here(m, P) /\ \A u \in Here(m, P) : u \in Views BY DEF Here, ViewsAt
<1>2. Alight(n, m) /\ Dim(m, P) BY DEF Glows, Alight, Bright
<1>3. Dim(n, P) BY <1>2, BrightOn
<1>4. Lit(n) BY DEF Glows, Bright, Lit
<1>5. n.focus \in Here(n, P) => n.view[n.focus].mapped BY <1>1 DEF Glows, Bright
<1>6. Single => \A u \in Here(n, P) : n.view[u].mapped => u = n.focus
  BY <1>1 DEF Glows, Bright
<1> QED BY <1>3, <1>4, <1>5, <1>6 DEF Bright

LEMMA BaseFacts ==
  ASSUME NEW K, K \subseteq Views, NEW l, NEW P, NEW m \in Base(K, l, P)
  PROVE  /\ m \in Home(K, l, P) /\ m \in Sits(K, l, m.focus, P) /\ m \in Fit(K, l)
         /\ m \in Sound(K) /\ m \in ModelRecords(CyclesOver(Views, K), K)
         /\ m \in ModelRecords(Cycles(Views), Views)
         /\ Standing(m, P) /\ Anchored(m) /\ m.focus \in K \cup {Null}
         /\ m.workspace \in Workspaces /\ m.ws[m.workspace].kind = InitialKind
         /\ IsVisible(m, m.workspace)
<1>1. m \in Home(K, l, P) /\ Standing(m, P) /\ Anchored(m) BY DEF Base, Standing
<1>2. m \in Sits(K, l, m.focus, P) BY <1>1, HomeSits
<1>3. m \in Fit(K, l) /\ m \in Sound(K) /\ m \in ModelRecords(CyclesOver(Views, K), K)
  BY <1>1 DEF Home, Fit, Sound
<1>4. m.focus \in K \cup {Null} /\ m.workspace \in Workspaces BY <1>3, PartTypes
<1>5. m \in ModelRecords(Cycles(Views), Views) BY <1>3, SoundType
<1>6. IsVisible(m, m.workspace) BY <1>1, <1>3, <1>4, AnchoredSees
<1>7. m.ws[m.workspace].kind = InitialKind BY <1>1, <1>4 DEF Standing
<1> QED BY <1>1, <1>2, <1>3, <1>4, <1>5, <1>6, <1>7

\* How a model of the same views stays one: it still has its views in place
\* and stands.
LEMMA BaseOn ==
  ASSUME NEW K, K \subseteq Views, NEW l, NEW P, NEW m \in Base(K, l, P), NEW f,
         NEW n \in Sits(K, l, f, P), Stands(n, m, P)
  PROVE  /\ n \in Base(K, l, P) /\ n.focus = f /\ n.workspace = m.workspace
         /\ Here(n, P) = Here(m, P)
<1>1. n \in Home(K, l, P) BY HomeSits
<1>2. Standing(n, P) BY StandsOn DEF Base
<1>3. n.focus = f BY DEF Sits, Still
<1>4. n.workspace = m.workspace BY DEF Stands, Aside
<1> QED BY <1>1, <1>2, <1>3, <1>4 DEF Base, Here

\* A layout that has nothing to place anew.
Rests(n, m, K, l, P) == /\ n \in Base(K, l, P) /\ n \in Sits(K, l, m.focus, P)
                        /\ n.focus = m.focus /\ n.workspace = m.workspace
                        /\ Off(n, P) = {} /\ Laid(n, m, P) /\ Lights(n, m, P)
                        /\ \A w \in Workspaces \ {m.workspace} : n.ws[w] = m.ws[w]
                        /\ Off(m, P) = {} => \A w \in Workspaces : n.ws[w] = m.ws[w]
LEMMA LayoutQuiet ==
  ASSUME NEW K, K \subseteq Views, NEW l, NEW P, NEW m \in Base(K, l, P)
  PROVE  Rests(LaidOut(m), m, K, l, P)
<1> DEFINE n == LaidOut(m)
<1>1. n \in Sits(K, l, m.focus, P) /\ Laid(n, m, P) /\ Off(n, P) = {} /\ Lights(n, m, P)
  BY BaseFacts, LayoutRuns
<1> HIDE DEF n
<1>2. Stands(n, m, P) BY <1>1, StandsLaid
<1>3. n \in Base(K, l, P) /\ n.focus = m.focus /\ n.workspace = m.workspace
  BY <1>1, <1>2, BaseOn
<1>4. \A w \in Workspaces \ {m.workspace} : n.ws[w] = m.ws[w] BY <1>1 DEF Laid
<1>5. Off(m, P) = {} => n.ws[m.workspace] = m.ws[m.workspace] BY <1>1 DEF Laid
<1>6. Rests(n, m, K, l, P) BY <1>1, <1>3, <1>4, <1>5 DEF Rests
<1> QED BY <1>6 DEF n

\* What it shows is what should be shown, if no view of a hidden workspace was.
Lightened(n, m, P) ==
  (\A u \in Views : m.view[u].mapped /\ P[u].in = "view" => P[u].ws = m.workspace)
    => Dim(n, P) /\ (Lit(m) => Bright(n, P))
LEMMA LayoutLightens ==
  ASSUME NEW K, K \subseteq Views, NEW l, NEW P, NEW m \in Base(K, l, P), NEW n,
         Rests(n, m, K, l, P)
  PROVE  Lightened(n, m, P)
<1> SUFFICES ASSUME \A u \in Views : m.view[u].mapped /\ P[u].in = "view" => P[u].ws = m.workspace
             PROVE  Dim(n, P) /\ (Lit(m) => Bright(n, P))
  BY DEF Lightened
<1>1. /\ n.focus = m.focus /\ n.workspace = m.workspace
      /\ \A u \in Views :
           /\ n.view[u].focused = m.view[u].focused
           /\ u \notin Here(m, P) => n.view[u].mapped = m.view[u].mapped
           /\ u \in Here(m, P) => (n.view[u].mapped <=> (Single => m.view[u].focused))
  BY DEF Rests, Lights, Here
<1>2. /\ Here(n, P) = Here(m, P)
      /\ \A u : u \in Here(m, P) <=> u \in Views /\ P[u].in = "view" /\ P[u].ws = m.workspace
  BY <1>1 DEF Here, ViewsAt
<1>3. Dim(n, P) BY <1>1, <1>2 DEF Dim
<1>4. FocusedIs(m) /\ m.focus \in Views \cup {Null} BY BaseFacts DEF Sound
<1>5. Lit(m) => Lit(n) BY <1>1, <1>4 DEF Lit
<1>6. Single => \A u \in Here(n, P) : n.view[u].mapped => u = n.focus
  BY <1>1, <1>2, <1>4 DEF FocusedIs
<1>7. Null \notin Views BY NullFresh
<1>8. Lit(m) /\ n.focus \in Here(n, P) => n.view[n.focus].mapped
  BY <1>1, <1>2, <1>7 DEF Lit
<1> QED BY <1>3, <1>5, <1>6, <1>8 DEF Bright

LEMMA GiveFocusSteady ==
  ASSUME NEW K, K \subseteq Views, NEW l, NEW P, NEW m \in Base(K, l, P), Off(m, P) = {},
         Calm(m, P), Dim(m, P), NEW v \in Here(m, P)
  PROVE  /\ GiveFocus(m, v) \in Steady(K, l, P) /\ GiveFocus(m, v).focus = v
         /\ GiveFocus(m, v).workspace = m.workspace
<1> DEFINE w == m.workspace
           V == ViewsAt(P, w)
           T == TracksAt(m, P, w)
           j == m.view[v].layer
           x == ActivateView(m.ws[w], v, j)
           a == [m EXCEPT !.ws[w] = x]
           b == SwitchFocus(a, v)
           c == FitLayout(b)
           d == ActivateTrackOf(c, v)
<1>1. /\ m \in Sits(K, l, m.focus, P) /\ m \in ModelRecords(CyclesOver(Views, K), K)
      /\ w \in Workspaces
  BY BaseFacts
<1> HIDE DEF w
<1>24. Divided(m, P, w) /\ V \subseteq K BY <1>1, SiteShared
<1>25. v \in V BY DEF Here, w
<1>26. Tracked(m, P, w, v) BY <1>24, <1>25 DEF Divided
<1>2. /\ Parts(V, T) /\ m.ws[w] \in Sited(V, IconsAt(P, w), T)
      /\ v \in V /\ v \in K /\ v \in Views /\ j \in TrackLayers /\ v \in T[j]
      /\ m.view[v].ws = w /\ j = IF m.view[v].free THEN FREE ELSE TILE
  BY <1>24, <1>25, <1>26 DEF Divided, Tracked
<1>3. /\ Takes(ActivateTrack(x, j), m.ws[w], v, V)
      /\ x.kind = m.ws[w].kind
  BY <1>2, ActivateViewLeads
<1>4. Activate(m, v) = a BY DEF Activate, OnWorkspace, Current, w
<1>5. /\ a \in Sits(K, l, m.focus, P) /\ Stands(a, m, P)
      /\ a.view = m.view /\ a.ws[w] = x /\ a.workspace = w /\ a.focus = m.focus
      /\ \A u \in Workspaces \ {w} : a.ws[u] = m.ws[u]
  <2>1. a \in Sits(K, l, m.focus, P) BY <1>1, <1>2, <1>4, ActivateSits
  <2>2. Stands(a, m, P) BY <1>1, <1>3, StandsWs
  <2>3. /\ Aside(a, m) /\ a.view = m.view /\ a.ws[w] = x /\ a.focus = m.focus
        /\ \A u \in Workspaces \ {w} : a.ws[u] = m.ws[u]
    BY <1>1, WsSet
  <2> QED BY <2>1, <2>2, <2>3 DEF Aside, w
<1> HIDE DEF a
<1>6. a \in Base(K, l, P) BY <1>5, BaseOn
<1>7. Off(a, P) = {} BY <1>5 DEF Off, Right, w
<1>8. b \in Sits(K, l, v, P) BY <1>2, <1>5, SwitchFocusSits
<1>9. Mute(b, a) /\ Alight(b, a) /\ b.view[v].focused
  <2>1. a \in ModelRecords(CyclesOver(Views, K), K) /\ a.focus \in Views \cup {Null}
    BY <1>6, BaseFacts
  <2> QED BY <1>2, <2>1, SwitchMute
<1> HIDE DEF b
<1>10. b \in Base(K, l, P) /\ b.focus = v /\ b.workspace = w /\ Off(b, P) = {} /\ b.ws = a.ws
  <2>1. Stands(b, a, P) /\ Off(b, P) = Off(a, P) /\ b.ws = a.ws BY <1>9, StandsMute
  <2>2. b \in Base(K, l, P) /\ b.focus = v /\ b.workspace = a.workspace
    BY <1>6, <1>8, <2>1, BaseOn
  <2> QED BY <1>5, <1>7, <2>1, <2>2
<1>27. Dim(b, P) /\ Lit(b)
  <2>1. a.workspace = m.workspace /\ b.workspace = a.workspace BY <1>5, <1>10 DEF w
  <2>2. Dim(a, P) BY <1>5, <2>1, BrightOn
  <2> QED BY <1>9, <1>10, <2>1, <2>2, BrightOn DEF Lit
<1>28. Bright(c, P)
  <2>1. CASE c = LaidOut(b)
    <3>1. Rests(c, b, K, l, P) BY <1>10, <2>1, LayoutQuiet
    <3> HIDE DEF c
    <3>2. Lightened(c, b, P) BY <1>10, <3>1, LayoutLightens
    <3> QED BY <1>27, <3>2 DEF Lightened, Dim
  <2>2. CASE c = b /\ ~Single
    <3>1. v \in Here(b, P) BY <1>10, <1>25 DEF Here
    <3> HIDE DEF c
    <3>2. Bright(b, P) BY <1>10, <1>27, <2>2, <3>1 DEF Bright, Dim
    <3> QED BY <2>2, <3>2
  <2>3. c = LaidOut(b) \/ (c = b /\ ~Single)
    <3>1. Layout(Current(b)) = LayoutKinds[InitialKind]
      <4>1. b.ws[b.workspace].kind = InitialKind BY <1>10, BaseFacts
      <4> QED BY <4>1 DEF Layout, Current
    <3>2. c = IF LayoutKinds[InitialKind].persistent \/ Single THEN LaidOut(b) ELSE b
      BY <3>1 DEF FitLayout, Single
    <3> HIDE DEF c
    <3> QED BY <3>2
  <2> QED BY <2>1, <2>2, <2>3
<1>11. /\ c \in Base(K, l, P) /\ c.focus = v /\ c.workspace = w /\ Off(c, P) = {}
       /\ \A u \in Workspaces : c.ws[u] = b.ws[u]
  <2>1. c = LaidOut(b) \/ c = b BY DEF FitLayout
  <2>2. /\ LaidOut(b) \in Base(K, l, P) /\ LaidOut(b).focus = v
        /\ LaidOut(b).workspace = w /\ Off(LaidOut(b), P) = {}
        /\ \A u \in Workspaces : LaidOut(b).ws[u] = b.ws[u]
    <3>1. Rests(LaidOut(b), b, K, l, P) BY <1>10, LayoutQuiet
    <3> QED BY <1>10, <3>1 DEF Rests
  <2> HIDE DEF c
  <2> QED BY <1>10, <2>1, <2>2
<1> HIDE DEF c
<1>12. c.view[v].ws = w /\ c.view[v].layer = j
  <2>1. /\ c.view[v].ws = w /\ c.view[v].layer = IF c.view[v].free THEN FREE ELSE TILE
        /\ c.view[v].free \in BOOLEAN
    <3>1. c \in Sits(K, l, c.focus, P) BY <1>11, BaseFacts
    <3>2. Divided(c, P, w) BY <1>1, <3>1, SiteShared
    <3>3. Tracked(c, P, w, v) BY <1>25, <3>2 DEF Divided
    <3> QED BY <3>3 DEF Tracked
  <2>2. b.view[v].free = m.view[v].free /\ b.view[v].floating = m.view[v].floating
    BY <1>2, <1>5, <1>9 DEF Mute, Quiet, Same, Alike
  <2>3. c.view[v].floating = b.view[v].floating
    <3>1. c = LaidOut(b) \/ c = b BY DEF c, FitLayout
    <3>2. Laid(LaidOut(b), b, P) BY <1>10, LayoutQuiet DEF Rests
    <3>3. LaidOut(b).view[v].floating = b.view[v].floating BY <1>2, <3>2 DEF Laid
    <3> QED BY <3>1, <3>3
  <2>4. v \in V BY <1>2
  <2>5. c.view[v].free = Right(c, v) BY <1>11, <2>4 DEF Off
  <2>6. m.view[v].free = Right(m, v) BY <2>4 DEF Off, w
  <2>7. Right(c, v) = Right(m, v) BY <2>2, <2>3 DEF Right
  <2> QED BY <1>2, <2>1, <2>5, <2>6, <2>7
<1>13. d = [c EXCEPT !.ws[w] = ActivateTrack(x, j)]
  <2>1. c.ws[w] = x BY <1>1, <1>5, <1>10, <1>11
  <2> HIDE DEF x, j
  <2> QED BY <1>12, <2>1 DEF ActivateTrackOf
<1> DEFINE y == ActivateTrack(x, j)
<1>14. /\ Lead(y, V) /\ y.active = v /\ y.kind = c.ws[w].kind
  BY <1>1, <1>3, <1>5, <1>10, <1>11 DEF Takes
<1> HIDE DEF y, x, d
<1>15. c \in ModelRecords(CyclesOver(Views, K), K) /\ c \in Sits(K, l, v, P) BY <1>11, BaseFacts
<1>16. d = [c EXCEPT !.ws[w] = y] BY <1>13 DEF y
<1>17. /\ Stands(d, c, P) /\ Aside(d, c) /\ d.view = c.view /\ d.ws[w] = y
       /\ \A u \in Workspaces \ {w} : d.ws[u] = c.ws[u]
  BY <1>1, <1>14, <1>15, <1>16, StandsWs, WsSet
<1>18. d \in Sits(K, l, v, P) BY <1>2, <1>15, ActivateTrackOfSits DEF d
<1>19. d \in Base(K, l, P) /\ d.focus = v /\ d.workspace = w
  BY <1>11, <1>17, <1>18, BaseOn
<1>20. Off(d, P) = {} BY <1>11, <1>17, <1>19 DEF Off, Right
<1>21. Calm(d, P)
  <2>1. \A u \in Workspaces \ {w} : d.ws[u] = m.ws[u] BY <1>5, <1>10, <1>11, <1>17
  <2> QED BY <1>19, <2>1 DEF Calm, w
<1>22. Current(d) = y /\ Here(d, P) = V BY <1>17, <1>19 DEF Current, Here
<1>29. Bright(d, P) BY <1>11, <1>17, <1>19, <1>28, BrightOn
<1>23. d \in Steady(K, l, P) BY <1>14, <1>19, <1>20, <1>21, <1>22, <1>29 DEF Steady
<1> QED BY <1>4, <1>19, <1>23 DEF GiveFocus, d, c, b, w

\* What changes nothing but flags keeps a model ready for its focus.
LEMMA BaseMute ==
  ASSUME NEW K, K \subseteq Views, NEW l, NEW P, NEW m \in Base(K, l, P), NEW f,
         NEW n \in Sits(K, l, f, P), Mute(n, m)
  PROVE  /\ n \in Base(K, l, P) /\ n.focus = f /\ n.workspace = m.workspace
         /\ Here(n, P) = Here(m, P) /\ Current(n) = Current(m) /\ n.ws = m.ws
         /\ Off(n, P) = Off(m, P) /\ (Calm(m, P) => Calm(n, P))
<1>1. Stands(n, m, P) /\ Off(n, P) = Off(m, P) /\ n.ws = m.ws /\ Current(n) = Current(m)
  BY StandsMute
<1>2. /\ n \in Base(K, l, P) /\ n.focus = f /\ n.workspace = m.workspace
      /\ Here(n, P) = Here(m, P)
  BY <1>1, BaseOn
<1> QED BY <1>1, <1>2 DEF Calm

LEMMA HereFacts ==
  ASSUME NEW K, K \subseteq Views, NEW l, NEW P, NEW m \in Base(K, l, P)
  PROVE  /\ Has(Current(m).views, Here(m, P)) /\ Here(m, P) \subseteq K /\ Null \notin Here(m, P)
         /\ (Empty(m, m.workspace) <=> Here(m, P) = {})
         /\ \A v \in Here(m, P) : m.view[v].ws = m.workspace /\ P[v].ws = m.workspace
<1> DEFINE w == m.workspace
           V == ViewsAt(P, w)
<1>1. m \in Sits(K, l, m.focus, P) /\ w \in Workspaces BY BaseFacts
<1> HIDE DEF w
<1>5. Divided(m, P, w) /\ V \subseteq K BY <1>1, SiteShared
<1>2. /\ m.ws[w] \in Sited(V, IconsAt(P, w), TracksAt(m, P, w))
      /\ \A v \in V : v \in K /\ v # Null /\ m.view[v].ws = w /\ P[v].ws = w
  BY <1>5 DEF Divided, Tracked
<1>3. Has(m.ws[w].views, V) BY <1>2, SiteParts
<1>4. (Size(m.ws[w].views) = 0) <=> (V = {}) BY <1>3, HasSize
<1> HIDE DEF V
<1>6. Current(m) = m.ws[w] /\ Here(m, P) = V BY DEF Current, Here, V, w
<1>7. Empty(m, m.workspace) <=> V = {} BY <1>4 DEF Empty, w
<1> QED BY <1>2, <1>3, <1>6, <1>7 DEF w

LEMMA SyncFocusSteady ==
  ASSUME NEW K, K \subseteq Views, NEW l, NEW P, NEW m \in Ready(K, l, P)
  PROVE  SyncFocus(m) \in Steady(K, l, P) /\ SyncFocus(m).workspace = m.workspace
<1> DEFINE a == Current(m).active
           n == Unfocus(m, m.focus)
           V == Here(m, P)
<1>1. /\ m \in Base(K, l, P) /\ Off(m, P) = {} /\ Calm(m, P)
      /\ Owned(Current(m), V) /\ Dim(m, P)
      /\ a = m.focus => Lead(Current(m), V) /\ Bright(m, P)
  BY DEF Ready
<1>4. (V = {} => a = Null) /\ (V # {} => a \in V) BY <1>1 DEF Owned
<1>2. CASE a = m.focus
  <2>1. SyncFocus(m) = m BY <1>2 DEF SyncFocus
  <2> QED BY <1>1, <1>2, <2>1 DEF Steady
<1>3. CASE a # m.focus
  <2>1. /\ m \in Sits(K, l, m.focus, P) /\ m.focus \in K \cup {Null}
        /\ m \in ModelRecords(CyclesOver(Views, K), K)
    BY <1>1, BaseFacts
  <2>2. /\ V \subseteq K /\ Null \notin V
        /\ (Empty(m, m.workspace) <=> V = {})
        /\ \A v \in V : m.view[v].ws = m.workspace /\ P[v].ws = m.workspace
    BY <1>1, HereFacts
  <2>3. n \in Sits(K, l, m.focus, P) BY <2>1, UnfocusSits
  <2>4. m.focus \in Views \cup {Null} BY <2>1
  <2>5. /\ Mute(n, m) /\ Mute([n EXCEPT !.focus = Null], m) /\ n.focus = m.focus
        /\ Alight(n, m) /\ Alight([n EXCEPT !.focus = Null], m)
    BY <2>1, <2>4, SwitchMute
  <2>6. CASE V = {}
    <3>1. a = Null BY <1>4, <2>6
    <3> DEFINE o == [n EXCEPT !.focus = Null]
    <3>2. SyncFocus(m) = o BY <1>3, <2>2, <2>6, <3>1 DEF SyncFocus
    <3>3. o \in Sits(K, l, Null, P)
      <4>1. Unfocused(n) /\ n \in Still(K, l, m.focus)
        <5>1. m \in Still(K, l, m.focus) BY <2>1, SitsFacts
        <5> QED BY <5>1, UnfocusFacts
      <4>2. o \in Still(K, l, Null) BY <4>1, MoveFocusStill
      <4>3. o.ws = n.ws /\ o.view = n.view
        <5>1. n \in ModelRecords(CyclesOver(Views, K), K) BY <2>3, SitsFacts
        <5> HIDE DEF n
        <5> QED BY <5>1 DEF ModelRecords
      <4> HIDE DEF o, n
      <4> QED BY <2>3, <4>2, <4>3, MoveFocusSits
    <3>4. Mute(o, m) /\ Alight(o, m) BY <2>5
    <3> HIDE DEF o, n
    <3>5. /\ o \in Base(K, l, P) /\ o.focus = Null /\ o.workspace = m.workspace
          /\ Here(o, P) = Here(m, P) /\ Current(o) = Current(m) /\ o.ws = m.ws
          /\ Off(o, P) = Off(m, P) /\ (Calm(m, P) => Calm(o, P))
      BY <1>1, <3>3, <3>4, BaseMute
    <3>6. Lead(Current(o), V)
      <4>1. Owned(Current(o), V) BY <1>1, <3>5
      <4> QED BY <2>6, <4>1 DEF Lead, Locked
    <3>7. Bright(o, P)
      <4>1. Dim(o, P) BY <1>1, <3>4, <3>5, BrightOn
      <4> QED BY <2>6, <3>5, <4>1 DEF Bright, Lit
    <3> QED BY <1>1, <2>6, <3>1, <3>2, <3>5, <3>6, <3>7 DEF Steady
  <2>7. CASE V # {}
    <3>1. a \in V /\ a # Null BY <1>4, <2>2, <2>7
    <3> DEFINE g == GiveFocus(n, a)
    <3>2. /\ n \in Base(K, l, P) /\ n.workspace = m.workspace /\ Here(n, P) = V
          /\ Off(n, P) = {} /\ Calm(n, P) /\ Dim(n, P)
      <4> HIDE DEF n
      <4>1. /\ n \in Base(K, l, P) /\ n.focus = m.focus /\ n.workspace = m.workspace
            /\ Here(n, P) = Here(m, P) /\ Current(n) = Current(m) /\ n.ws = m.ws
            /\ Off(n, P) = Off(m, P) /\ (Calm(m, P) => Calm(n, P))
        BY <1>1, <2>3, <2>5, BaseMute
      <4>2. Dim(n, P) BY <1>1, <2>5, <4>1, BrightOn
      <4> QED BY <1>1, <4>1, <4>2
    <3> HIDE DEF n
    <3>3. g \in Steady(K, l, P) /\ g.focus = a /\ g.workspace = m.workspace
      BY <3>1, <3>2, GiveFocusSteady
    <3> HIDE DEF g
    <3>4. n.view[a].ws = n.workspace BY <3>1, <3>2, HereFacts
    <3>5. CanFocus(n, a)
      <4>1. n \in Sound(K) /\ Anchored(n) /\ n.workspace \in Workspaces BY <3>2, BaseFacts
      <4>2. OutputOf(n, n.workspace) # Null BY <4>1, AnchoredSees
      <4>3. n.workspace # Null BY <4>1, NullFresh
      <4> QED BY <1>3, <2>5, <3>1, <3>4, <4>2, <4>3 DEF CanFocus
    <3>6. FollowActive(n, a) = [g EXCEPT !.focus = a, !.astray = @ \/ n.view[a].ws # n.workspace]
      BY <3>5 DEF FollowActive, g
    <3>7. ~g.astray /\ g \in ModelRecords(CyclesOver(Views, K), K)
      <4>1. g \in Base(K, l, P) BY <3>3 DEF Steady
      <4>2. Standing(g, P) /\ g \in ModelRecords(CyclesOver(Views, K), K) BY <4>1, BaseFacts
      <4> QED BY <4>2 DEF Standing
    <3>8. [g EXCEPT !.focus = a, !.astray = @ \/ n.view[a].ws # n.workspace] = g
      <4>1. g.astray \in BOOLEAN /\ DOMAIN g = DOMAIN g BY <3>7 DEF ModelRecords
      <4>2. (g.astray \/ n.view[a].ws # n.workspace) = g.astray BY <3>4, <3>7, <4>1
      <4>3. [g EXCEPT !.focus = a, !.astray = g.astray] = g BY <3>3, <3>7 DEF ModelRecords
      <4> QED BY <4>2, <4>3
    <3>9. SyncFocus(m) = FollowActive(n, a) BY <1>3, <3>1 DEF SyncFocus, n
    <3> QED BY <3>3, <3>6, <3>8, <3>9
  <2> QED BY <2>6, <2>7
<1> QED BY <1>2, <1>3

LEMMA SteadyReady ==
  ASSUME NEW K, NEW l, NEW P, NEW m \in Steady(K, l, P)
  PROVE  /\ m \in Ready(K, l, P) /\ m \in Base(K, l, P) /\ Off(m, P) = {} /\ Calm(m, P)
         /\ Lead(Current(m), Here(m, P)) /\ m.focus = Current(m).active
         /\ SyncFocus(m) = m
         /\ Bright(m, P) /\ Dim(m, P) /\ Lit(m)
BY DEF Steady, Ready, Lead, Locked, SyncFocus, Bright

\* A steady model laid out anew stays so.
LEMMA LaidOutSteady ==
  ASSUME NEW K, K \subseteq Views, NEW l, NEW P, NEW m \in Steady(K, l, P)
  PROVE  LaidOut(m) \in Steady(K, l, P) /\ FitLayout(m) \in Steady(K, l, P)
<1> DEFINE n == LaidOut(m)
<1>1. m \in Base(K, l, P) /\ Off(m, P) = {} BY SteadyReady
<1>4. Rests(n, m, K, l, P) /\ m.workspace \in Workspaces BY <1>1, LayoutQuiet, BaseFacts
<1> HIDE DEF n
<1>2. /\ n \in Base(K, l, P) /\ n.focus = m.focus /\ n.workspace = m.workspace
      /\ Off(n, P) = {} /\ m.workspace \in Workspaces
      /\ \A w \in Workspaces : n.ws[w] = m.ws[w]
  BY <1>1, <1>4 DEF Rests
<1>5. /\ Calm(m, P) /\ Lead(Current(m), Here(m, P)) /\ m.focus = Current(m).active
  BY SteadyReady
<1>6. Current(n) = Current(m) /\ Here(n, P) = Here(m, P) BY <1>2 DEF Current, Here
<1>7. Calm(n, P) BY <1>2, <1>5 DEF Calm
<1>8. Bright(n, P)
  <2>1. Dim(m, P) /\ Lit(m) BY SteadyReady
  <2>2. Lightened(n, m, P) BY <1>1, <1>4, LayoutLightens
  <2> QED BY <2>1, <2>2 DEF Lightened, Dim
<1>3. n \in Steady(K, l, P) BY <1>2, <1>5, <1>6, <1>7, <1>8 DEF Steady
<1> QED BY <1>3 DEF n, FitLayout

----------------------------------------------------------------------------
(* Another workspace is entered.                                            *)

\* A model whose output shows the context c, whichever workspace is current.
Poised(m, c, P) ==
  /\ ~m.down /\ ~m.astray /\ m.context = c
  /\ m.output \in Outputs
  /\ \A o \in Outputs : m.out[o] = IF o = m.output THEN c ELSE Null
  /\ \A d \in Contexts : m.ctx[d].output = IF d = c THEN m.output ELSE Null
  /\ \A w \in Workspaces : /\ m.ws[w].kind = InitialKind
                           /\ Locked(m.ws[w], ViewsAt(P, w))
  /\ \A v \in Views : /\ m.view[v].mapped => P[v].in # "icon"
                      /\ P[v].state # "unmapped" => m.view[v].managed

\* No view of a workspace is shown; what hides those of one leaves none of them.
Unlit(m, P) == \A u \in Views : P[u].in = "view" => ~m.view[u].mapped

LEMMA UnmapReach ==
  ASSUME NEW D, NEW s, NEW n \in Nat, NEW m \in D[0], DOMAIN s = 1..n,
         \A i \in 1..n : \A x \in D[i - 1] : Unmap(x, s[i]) \in D[i]
  PROVE  SE!FoldLeft(Unmap, m, s) \in D[n]
<1>1. Unmaps!Folded(m, s) \in D[n] BY Unmaps!FoldReaches
<1> QED
  BY <1>1 DEF Unmaps!Folded, SE!FoldLeft, Unmaps!FoldLeft, SE!MapThenFoldSet,
              Unmaps!MapThenFoldSet, SE!Max, Unmaps!Max

LEMMA HideMute ==
  ASSUME NEW K, K \subseteq Views, NEW l, NEW f, NEW P, NEW m \in Sits(K, l, f, P),
         NEW w \in Workspaces
  PROVE  /\ SE!FoldLeft(Unmap, m, m.ws[w].views.elements) \in Sits(K, l, f, P)
         /\ Mute(SE!FoldLeft(Unmap, m, m.ws[w].views.elements), m)
         /\ \A u \in ViewsAt(P, w) :
              ~SE!FoldLeft(Unmap, m, m.ws[w].views.elements).view[u].mapped
<1> DEFINE s == m.ws[w].views.elements
           V == ViewsAt(P, w)
<1>9. s \in Seq(V) /\ Range(s) = V BY ViewsPlaced
<1>10. V \subseteq Views BY DEF ViewsAt
<1> HIDE DEF s, V
<1>1. s \in Seq(Views) /\ Range(s) = V BY <1>9, <1>10
<1>2. Len(s) \in Nat /\ DOMAIN s = 1..Len(s) BY <1>1
<1> DEFINE n == Len(s)
           D == [i \in 0..n |-> {x \in Sits(K, l, f, P) :
                                   Mute(x, m) /\ \A j \in 1..i : ~x.view[s[j]].mapped}]
<1>3. m \in D[0]
  <2>1. 0 \in 0..n BY <1>2
  <2>2. \A j \in 1..0 : ~m.view[s[j]].mapped OBVIOUS
  <2> QED BY <2>1, <2>2, MuteShown
<1>4. \A i \in 1..n : \A x \in D[i - 1] : Unmap(x, s[i]) \in D[i]
  <2> SUFFICES ASSUME NEW i \in 1..n, NEW x \in D[i - 1] PROVE Unmap(x, s[i]) \in D[i]
    OBVIOUS
  <2>1. s[i] \in Views /\ i - 1 \in 0..n /\ i \in 0..n BY <1>1, <1>2
  <2> DEFINE v == s[i]
             y == Unmap(x, v)
  <2>2. /\ x \in Sits(K, l, f, P) /\ Mute(x, m)
        /\ \A j \in 1..(i - 1) : ~x.view[s[j]].mapped
    BY <2>1
  <2> HIDE DEF v
  <2>3. y \in Sits(K, l, f, P) BY <2>1, <2>2, ShowSits DEF v
  <2>4. Shown(y, x, v, FALSE) /\ Lamp(y, x, v, FALSE)
    <3>1. x \in ModelRecords(CyclesOver(Views, K), K) BY <2>2, SitsFacts
    <3> QED BY <2>1, <3>1, ShowQuiet DEF v
  <2> HIDE DEF y
  <2>5. Mute(y, m) BY <2>2, <2>4, MuteShown
  <2>6. \A j \in 1..i : ~y.view[s[j]].mapped
    <3> SUFFICES ASSUME NEW j \in 1..i PROVE ~y.view[s[j]].mapped OBVIOUS
    <3>1. s[j] \in Views /\ (j = i \/ j \in 1..(i - 1)) BY <1>1, <1>2
    <3>2. CASE s[j] = v BY <2>4, <3>2 DEF Lamp
    <3>3. CASE s[j] # v
      <4>1. ~x.view[s[j]].mapped BY <2>2, <3>1, <3>3 DEF v
      <4>2. y.view[s[j]] = x.view[s[j]] BY <2>4, <3>1, <3>3 DEF Shown
      <4> QED BY <4>1, <4>2
    <3> QED BY <3>2, <3>3
  <2> QED BY <2>1, <2>3, <2>5, <2>6 DEF y, v
<1> DEFINE z == SE!FoldLeft(Unmap, m, s)
<1>5. z \in D[n]
  <2> HIDE DEF D
  <2> QED BY <1>2, <1>3, <1>4, UnmapReach
<1> HIDE DEF z
<1>6. z \in Sits(K, l, f, P) /\ Mute(z, m) /\ \A j \in 1..n : ~z.view[s[j]].mapped
  BY <1>2, <1>5
<1>7. \A u \in V : \E j \in 1..n : s[j] = u BY <1>1, <1>2 DEF Range
<1>8. \A u \in V : ~z.view[u].mapped BY <1>6, <1>7
<1> QED BY <1>6, <1>8 DEF s, V, z

LEMMA LockedOwned ==
  ASSUME NEW x, NEW V, Locked(x, V)
  PROVE  Owned(x, V)
BY DEF Locked

Switched(m, w, from, p) ==
  [m EXCEPT !.prevWorkspace = from, !.workspace = w, !.wsIndex = w,
            !.ctx[ContextOf(w)].prev = p, !.ctx[ContextOf(w)].active = w]
LEMMA EnteredSteady ==
  ASSUME NEW K, K \subseteq Views, NEW l, NEW P, NEW m \in Home(K, l, P), NEW w \in Workspaces,
         Poised(m, ContextOf(w), P), NEW from \in Workspaces, NEW p \in Workspaces \cup {Null},
         m.focus \notin ViewsAt(P, w), Unlit(m, P)
  PROVE  SyncFocus(ApplyLayout(Switched(m, w, from, p), w))
           \in {x \in Steady(K, l, P) : x.workspace = w}
<1> DEFINE c == ContextOf(w)
           s == [m EXCEPT !.prevWorkspace = from, !.workspace = w, !.wsIndex = w,
                          !.ctx[ContextOf(w)].prev = p, !.ctx[ContextOf(w)].active = w]
           n == LaidOut(s)
<1>1. c \in Contexts BY ContextOfType
<1>2. m \in Fit(K, l) /\ m \in ModelRecords(CyclesOver(Views, K), K) BY DEF Home, Fit, Sound
<1>3. s \in Fit(K, l) BY <1>2, SwitchedFit
<1>4. /\ s.ws = m.ws /\ s.view = m.view /\ s.workspace = w /\ s.focus = m.focus
      /\ s.output = m.output /\ s.context = m.context /\ s.out = m.out
      /\ s.down = m.down /\ s.astray = m.astray
      /\ s.ctx[c].active = w /\ \A d \in Contexts : s.ctx[d].output = m.ctx[d].output
  <2>1. \A d \in Contexts : m.ctx[d] \in ContextRecords BY <1>2 DEF ModelRecords
  <2> QED BY <1>1, <1>2, <2>1 DEF ModelRecords, ContextRecords
<1> HIDE DEF s
<1>5. s \in Home(K, l, P) BY <1>3, <1>4, SameHome
<1>6. Anchored(s) BY <1>4 DEF Anchored, Poised
<1>7. Standing(s, P) BY <1>4, <1>6 DEF Standing, Poised
<1>8. s \in Base(K, l, P) BY <1>5, <1>7 DEF Base
<1>16. Rests(n, s, K, l, P) BY <1>8, LayoutQuiet
<1>9. /\ n \in Base(K, l, P) /\ n.focus = s.focus /\ n.workspace = w /\ Off(n, P) = {}
      /\ Laid(n, s, P)
      /\ \A u \in Workspaces \ {w} : n.ws[u] = s.ws[u]
  BY <1>4, <1>16 DEF Rests
<1>10. ApplyLayout(s, w) = n BY <1>4 DEF LaidOut
<1> HIDE DEF n
<1>17. Dim(n, P)
  <2>1. Lightened(n, s, P) BY <1>8, <1>16, LayoutLightens
  <2> QED BY <1>4, <2>1 DEF Lightened, Unlit
<1>11. Calm(n, P) BY <1>4, <1>9 DEF Calm, Poised
<1>12. Owned(Current(n), Here(n, P))
  <2>1. Locked(s.ws[w], ViewsAt(P, w)) BY <1>4 DEF Poised
  <2>2. Owned(s.ws[w], ViewsAt(P, w)) BY <2>1, LockedOwned
  <2>3. Owned(n.ws[w], ViewsAt(P, w)) BY <1>4, <1>9, <2>2 DEF Laid
  <2> QED BY <1>9, <2>3 DEF Current, Here
<1>13. Current(n).active = n.focus => Lead(Current(n), Here(n, P)) /\ Bright(n, P)
  <2> SUFFICES ASSUME Current(n).active = n.focus
               PROVE  Lead(Current(n), Here(n, P)) /\ Bright(n, P)
    OBVIOUS
  <2>1. n.focus \notin Here(n, P) BY <1>4, <1>9 DEF Here
  <2>2. Here(n, P) = {} /\ n.focus = Null BY <1>12, <2>1 DEF Owned
  <2>3. Lead(Current(n), Here(n, P)) BY <1>12, <2>2 DEF Lead, Locked
  <2>4. Bright(n, P) BY <1>17, <2>2 DEF Bright, Lit
  <2> QED BY <2>3, <2>4
<1>14. n \in Ready(K, l, P) BY <1>9, <1>11, <1>12, <1>13, <1>17 DEF Ready
<1>15. SyncFocus(n) \in Steady(K, l, P) /\ SyncFocus(n).workspace = w
  BY <1>9, <1>14, SyncFocusSteady
<1> QED BY <1>10, <1>15 DEF s, Switched

\* What a steady model is to a workspace that is entered.
LEMMA SteadyPoised ==
  ASSUME NEW K, K \subseteq Views, NEW l, NEW P, NEW m \in Steady(K, l, P)
  PROVE  /\ Poised(m, m.context, P)
         /\ \A w \in Workspaces \ {m.workspace} : m.focus \notin ViewsAt(P, w)
         /\ m.focus # Null => m.focus \in Here(m, P)
         /\ m.focus = Null => Here(m, P) = {}
<1>1. /\ m \in Base(K, l, P) /\ Calm(m, P) /\ Lead(Current(m), Here(m, P))
      /\ m.focus = Current(m).active
  BY SteadyReady
<1>2. Standing(m, P) /\ m.workspace \in Workspaces BY <1>1, BaseFacts
<1>3. \A w \in Workspaces : Locked(m.ws[w], ViewsAt(P, w))
  BY <1>1, <1>2 DEF Calm, Lead, Current, Here
<1>4. Owned(Current(m), Here(m, P)) BY <1>1 DEF Lead, Locked
<1>5. Null \notin Here(m, P) /\ \A v \in Here(m, P) : P[v].ws = m.workspace BY <1>1, HereFacts
<1>6. m.focus # Null => m.focus \in Here(m, P) BY <1>1, <1>4 DEF Owned
<1>7. m.focus = Null => Here(m, P) = {} BY <1>1, <1>4, <1>5 DEF Owned
<1>8. \A w \in Workspaces \ {m.workspace} : m.focus \notin ViewsAt(P, w)
  <2> SUFFICES ASSUME NEW w \in Workspaces, w # m.workspace, m.focus \in ViewsAt(P, w)
               PROVE  FALSE
    OBVIOUS
  <2>1. m.focus \in Views /\ P[m.focus].ws = w BY DEF ViewsAt
  <2>2. m.focus \in Here(m, P) BY <1>6, <2>1, NullFresh
  <2> QED BY <1>5, <2>1, <2>2
<1> QED BY <1>2, <1>3, <1>6, <1>7, <1>8 DEF Poised, Standing, Anchored

LEMMA MutePoised ==
  ASSUME NEW m, NEW n, NEW c, NEW P, Poised(m, c, P), Mute(n, m)
  PROVE  Poised(n, c, P)
<1>1. /\ Aside(n, m) /\ n.ws = m.ws
      /\ \A v \in Views : /\ n.view[v].managed = m.view[v].managed
                          /\ n.view[v].mapped => m.view[v].mapped
  BY DEF Mute, Quiet, Same
<1> QED BY <1>1 DEF Poised, Aside

LEMMA HideUnlit ==
  ASSUME NEW K, K \subseteq Views, NEW l, NEW P, NEW m \in Steady(K, l, P)
  PROVE  /\ SE!FoldLeft(Unmap, m, Current(m).views.elements) \in Sits(K, l, m.focus, P)
         /\ Mute(SE!FoldLeft(Unmap, m, Current(m).views.elements), m)
         /\ Unlit(SE!FoldLeft(Unmap, m, Current(m).views.elements), P)
<1> DEFINE n == SE!FoldLeft(Unmap, m, Current(m).views.elements)
<1>1. m \in Base(K, l, P) /\ Dim(m, P) BY SteadyReady
<1>2. m \in Sits(K, l, m.focus, P) /\ m.workspace \in Workspaces BY <1>1, BaseFacts
<1>3. /\ n \in Sits(K, l, m.focus, P) /\ Mute(n, m)
      /\ \A u \in ViewsAt(P, m.workspace) : ~n.view[u].mapped
  BY <1>2, HideMute DEF Current
<1> HIDE DEF n
<1>4. Unlit(n, P)
  <2> SUFFICES ASSUME NEW u \in Views, P[u].in = "view", n.view[u].mapped PROVE FALSE
    BY DEF Unlit
  <2>1. m.view[u].mapped BY <1>3 DEF Mute
  <2>2. P[u].ws = m.workspace BY <1>1, <2>1 DEF Dim
  <2>3. u \in ViewsAt(P, m.workspace) BY <2>2 DEF ViewsAt
  <2> QED BY <1>3, <2>3
<1> QED BY <1>3, <1>4 DEF n

LEMMA ActivateWorkspaceSteady ==
  ASSUME NEW K, K \subseteq Views, NEW l, NEW P, NEW m \in Steady(K, l, P), NEW w \in Workspaces,
         ContextOf(w) = m.context
  PROVE  ActivateWorkspace(m, w) \in {x \in Steady(K, l, P) : x.workspace = w}
<1> DEFINE from == m.workspace
           hidden == SE!FoldLeft(Unmap, m, m.ws[from].views.elements)
           c == ContextOf(w)
           p == IF m.ctx[c].active # w THEN m.ctx[c].active ELSE hidden.ctx[c].prev
           switched == [hidden EXCEPT !.prevWorkspace = from, !.workspace = w, !.wsIndex = w,
                                      !.ctx[c].prev = p, !.ctx[c].active = w]
<1>1. m \in Base(K, l, P) BY SteadyReady
<1>2. /\ m \in Sits(K, l, m.focus, P) /\ m \in Sound(K) /\ Anchored(m) /\ from \in Workspaces
      /\ m \in ModelRecords(CyclesOver(Views, K), K)
  BY <1>1, BaseFacts
<1>3. ContextOf(from) = m.context BY <1>2, AnchoredSees
<1>4. ActivateWorkspace(m, w) = IF w = from THEN m ELSE SyncFocus(ApplyLayout(switched, w))
  BY <1>3 DEF ActivateWorkspace
<1>5. hidden \in Sits(K, l, m.focus, P) /\ Mute(hidden, m) /\ Unlit(hidden, P)
  BY HideUnlit DEF Current
<1> HIDE DEF hidden
<1>6. hidden \in Home(K, l, P) /\ hidden.focus = m.focus
  BY <1>5, HomeSits, SitsFacts DEF Still
<1>7. Poised(hidden, c, P) BY <1>5, SteadyPoised, MutePoised
<1>8. p \in Workspaces \cup {Null}
  <2>1. c \in Contexts BY ContextOfType
  <2>2. m.ctx[c] \in ContextRecords BY <1>2, <2>1 DEF ModelRecords
  <2>3. hidden.ctx = m.ctx BY <1>5 DEF Mute, Quiet, Aside
  <2> QED BY <2>2, <2>3 DEF ContextRecords
<1>9. CASE w # from
  <2>1. hidden.focus \notin ViewsAt(P, w) BY <1>6, <1>9, SteadyPoised
  <2> HIDE DEF p, from
  <2>2. SyncFocus(ApplyLayout(Switched(hidden, w, from, p), w))
          \in {x \in Steady(K, l, P) : x.workspace = w}
    BY <1>2, <1>5, <1>6, <1>7, <1>8, <2>1, EnteredSteady
  <2>3. switched = Switched(hidden, w, from, p) BY DEF Switched
  <2> HIDE DEF switched
  <2> QED BY <1>4, <1>9, <2>2, <2>3
<1> QED BY <1>4, <1>9

LEMMA FocusViewSteady ==
  ASSUME NEW K, K \subseteq Views, NEW l, NEW P, NEW m \in Steady(K, l, P), NEW v \in Views,
         P[v].in = "view"
  PROVE  FocusView(m, v) \in Steady(K, l, P)
<1> DEFINE w == m.view[v].ws
           n == ActivateWorkspace(m, w)
<1>1. m \in Base(K, l, P) BY SteadyReady
<1>2. /\ m \in Sits(K, l, m.focus, P) /\ m \in Sound(K) /\ Anchored(m)
  BY <1>1, BaseFacts
<1>3. CASE ~CanFocus(m, v) BY <1>3 DEF FocusView
<1>4. CASE CanFocus(m, v)
  <2>1. w # Null /\ OutputOf(m, w) # Null BY <1>4 DEF CanFocus
  <2>2. w \in Workspaces /\ P[v].ws = w
    <3>1. m.view[v] \in ViewRecords /\ InPlace(m.view[v], P[v]) BY <1>2, SitsFacts
    <3> QED BY <2>1, <3>1 DEF ViewRecords, InPlace
  <2> HIDE DEF w
  <2>3. v \in ViewsAt(P, w) BY <2>2 DEF ViewsAt
  <2>4. ContextOf(w) = m.context BY <1>2, <2>1, <2>2, AnchoredSees
  <2>5. n \in Steady(K, l, P) /\ n.workspace = w BY <2>2, <2>4, ActivateWorkspaceSteady
  <2> HIDE DEF n
  <2>6. n \in Base(K, l, P) /\ Off(n, P) = {} /\ Calm(n, P) /\ v \in Here(n, P) /\ Dim(n, P)
    BY <2>3, <2>5, SteadyReady DEF Here
  <2>7. GiveFocus(n, v) \in Steady(K, l, P) BY <2>6, GiveFocusSteady
  <2> QED BY <1>4, <2>7 DEF FocusView, n, w
<1> QED BY <1>3, <1>4

LEMMA SteadyIn ==
  ASSUME NEW K, NEW l, NEW P, NEW m \in Steady(K, l, P)
  PROVE  m \in Steady(K, m, P)
<1>1. m \in Fit(K, l) /\ Placed(m, P) BY DEF Steady, Base, Home
<1>2. m \in Fit(K, m) BY <1>1, FitSound
<1>3. m \in Home(K, m, P) BY <1>1, <1>2 DEF Home
<1> QED BY <1>3 DEF Steady, Base

LEMMA ActivateContextSteady ==
  ASSUME NEW K, K \subseteq Views, NEW P, NEW m, m \in Steady(K, m, P), NEW c \in Contexts
  PROVE  ActivateContext(m, c) \in Steady(K, ActivateContext(m, c), P)
<1> DEFINE hidden == SE!FoldLeft(Unmap, m, Current(m).views.elements)
           set == SetContext(hidden, m.output, c)
           shown == [set EXCEPT !.prevContext = m.context, !.context = c, !.ctxIndex = c]
           w == m.ctx[c].active
           from == shown.workspace
           p == IF shown.ctx[ContextOf(w)].active # w THEN shown.ctx[ContextOf(w)].active
                ELSE shown.ctx[ContextOf(w)].prev
<1>1. m \in Base(K, m, P) BY SteadyReady
<1>2. /\ m \in Sits(K, m, m.focus, P) /\ m \in Sound(K) /\ Anchored(m) /\ m.workspace \in Workspaces
      /\ m \in ModelRecords(CyclesOver(Views, K), K)
  BY <1>1, BaseFacts
<1>3. /\ ContextOf(m.workspace) = m.context /\ m.context \in Contexts
      /\ m.output \in Outputs /\ m.output # Null /\ m.out[m.output] = m.context
  BY <1>2, AnchoredSees
<1>4. CASE c = m.context BY <1>4 DEF ActivateContext
<1>5. CASE c # m.context
  <2>1. m.ctx[c].output = Null BY <1>2, <1>5 DEF Anchored
  <2>2. ActivateContext(m, c) = ActivateWorkspace(shown, w)
    BY <1>3, <1>5, <2>1 DEF ActivateContext
  <2>3. w \in Workspaces /\ ContextOf(w) = c
    <3>1. m.ctx[c] \in ContextRecords BY <1>2 DEF ModelRecords
    <3> QED BY <1>2, <3>1 DEF Sound, ContextsHome, ContextRecords
  <2>4. hidden \in Sits(K, m, m.focus, P) /\ Mute(hidden, m) /\ Unlit(hidden, P) BY HideUnlit
  <2> HIDE DEF hidden
  <2>5. /\ hidden.workspace = m.workspace /\ hidden.ctx = m.ctx /\ hidden.out = m.out
        /\ hidden.output = m.output /\ hidden.context = m.context
    BY <2>4 DEF Mute, Quiet, Aside
  <2>20. hidden \in Sits(K, m, m.focus, P) BY <2>4
  <2>6. hidden.focus = m.focus /\ hidden \in Sound(K) /\ Placed(hidden, P)
    BY <2>20, SitsFacts DEF Still, Fit
  <2>7. set \in Sound(K) BY <1>3, <2>6, SetContextSound
  <2>8. /\ \A o \in Outputs : set.out[o] = IF o = m.output THEN c ELSE hidden.out[o]
        /\ \A d \in Contexts : set.ctx[d].output =
              IF d = c THEN m.output ELSE IF d = hidden.out[m.output] THEN Null ELSE hidden.ctx[d].output
    BY <1>3, <2>6, SetContextFacts
  <2>9. /\ set.ws = hidden.ws /\ set.view = hidden.view /\ set.workspace = hidden.workspace
        /\ set.focus = hidden.focus /\ set.output = hidden.output /\ set.down = hidden.down
        /\ set.astray = hidden.astray
        /\ \A d \in Contexts : set.ctx[d].active = hidden.ctx[d].active
    <3>1. hidden \in ModelRecords(CyclesOver(Views, K), K) BY <2>6 DEF Sound
    <3>2. \A d \in Contexts : hidden.ctx[d] \in ContextRecords BY <3>1 DEF ModelRecords
    <3> QED BY <3>1, <3>2 DEF SetContext, ModelRecords, ContextRecords
  <2> HIDE DEF set
  <2>10. shown \in Fit(K, set) BY <1>3, <2>7, ContextChosenFit
  <2>11. /\ shown.ws = set.ws /\ shown.view = set.view /\ shown.workspace = set.workspace
         /\ shown.focus = set.focus /\ shown.output = set.output /\ shown.down = set.down
         /\ shown.astray = set.astray /\ shown.out = set.out /\ shown.ctx = set.ctx
         /\ shown.context = c
    <3>1. set \in ModelRecords(CyclesOver(Views, K), K) BY <2>7 DEF Sound
    <3> QED BY <3>1 DEF ModelRecords
  <2> HIDE DEF shown
  <2>12. shown \in Home(K, shown, P)
    <3>1. shown \in Fit(K, shown) BY <2>10, FitSound
    <3>2. hidden \in Home(K, m, P) BY <2>4, HomeSits
    <3> QED BY <2>9, <2>11, <3>1, <3>2, SameHome
  <2>13. Poised(shown, c, P)
    <3>1. Poised(hidden, m.context, P) BY <2>4, SteadyPoised, MutePoised
    <3>2. \A o \in Outputs : set.out[o] = IF o = m.output THEN c ELSE Null
      BY <2>8, <3>1, <2>5 DEF Poised
    <3>3. \A d \in Contexts : set.ctx[d].output = IF d = c THEN m.output ELSE Null
      BY <1>3, <2>8, <3>1, <2>5 DEF Poised
    <3> QED BY <1>3, <2>5, <2>9, <2>11, <3>1, <3>2, <3>3 DEF Poised
  <2>14. from = m.workspace /\ w # from /\ ContextOf(w) # ContextOf(from)
    BY <1>3, <1>5, <2>3, <2>5, <2>9, <2>11
  <2>15. shown.focus \notin ViewsAt(P, w) BY <2>3, <2>6, <2>9, <2>11, <2>14, SteadyPoised
  <2>16. p \in Workspaces \cup {Null}
    <3>1. shown.ctx[c] \in ContextRecords BY <2>10 DEF Fit, Sound, ModelRecords
    <3> QED BY <2>3, <3>1 DEF ContextRecords
  <2>19. Unlit(shown, P) BY <2>4, <2>9, <2>11 DEF Unlit
  <2>17. ActivateWorkspace(shown, w) = SyncFocus(ApplyLayout(Switched(shown, w, from, p), w))
    BY <2>14 DEF ActivateWorkspace, Switched
  <2> HIDE DEF w, p, from
  <2>18. SyncFocus(ApplyLayout(Switched(shown, w, from, p), w)) \in Steady(K, shown, P)
    BY <1>2, <2>3, <2>12, <2>13, <2>14, <2>15, <2>16, <2>19, EnteredSteady
  <2> QED BY <2>2, <2>17, <2>18, SteadyIn
<1> QED BY <1>4, <1>5

----------------------------------------------------------------------------
(* Commands on the current workspace.                                       *)

\* The current workspace may be replaced by one that leads, or whose active
\* view is yet to be followed.
Succeeds(x, m, K, P) ==
  /\ x \in Shaped(Views, K) /\ x \in Site(m, P, m.workspace)
  /\ x.kind = Current(m).kind /\ Owned(x, Here(m, P))
  /\ x.active = m.focus => Lead(x, Here(m, P))
LEMMA OnWorkspaceReady ==
  ASSUME NEW K, K \subseteq Views, NEW l, NEW P, NEW m \in Steady(K, l, P), NEW x,
         Succeeds(x, m, K, P)
  PROVE  /\ OnWorkspace(m, x) \in Ready(K, l, P)
         /\ x.active = m.focus => OnWorkspace(m, x) \in Steady(K, l, P)
<1> DEFINE w == m.workspace
           n == OnWorkspace(m, x)
<1>1. m \in Base(K, l, P) /\ Off(m, P) = {} /\ Calm(m, P) BY SteadyReady
<1>2. /\ m \in Sits(K, l, m.focus, P) /\ m \in ModelRecords(CyclesOver(Views, K), K)
      /\ w \in Workspaces
  BY <1>1, BaseFacts
<1>3. /\ x \in Shaped(Views, K) /\ x \in Site(m, P, m.workspace) /\ x.kind = m.ws[w].kind
      /\ Owned(x, Here(m, P)) /\ (x.active = m.focus => Lead(x, Here(m, P)))
      /\ Bright(m, P) /\ Dim(m, P)
  BY SteadyReady DEF Succeeds, Current
<1>4. n \in Sits(K, l, m.focus, P) BY <1>2, <1>3, OnWorkspaceSits
<1>5. n = [m EXCEPT !.ws[w] = x] BY DEF OnWorkspace
<1> HIDE DEF n, w
<1>6. /\ Aside(n, m) /\ n.view = m.view /\ n.ws[w] = x /\ n.focus = m.focus
      /\ \A u \in Workspaces \ {w} : n.ws[u] = m.ws[u]
  BY <1>2, <1>5, WsSet
<1>7. Stands(n, m, P) BY <1>2, <1>3, <1>5, StandsWs
<1>8. n \in Base(K, l, P) /\ n.workspace = m.workspace /\ Here(n, P) = Here(m, P)
  BY <1>1, <1>4, <1>7, BaseOn
<1>9. Off(n, P) = {} BY <1>1, <1>6, <1>8 DEF Off, Right
<1>10. Calm(n, P) BY <1>1, <1>6, <1>8 DEF Calm, w
<1>11. Current(n) = x BY <1>6, <1>8 DEF Current, w
<1>14. Bright(n, P) /\ Dim(n, P) BY <1>3, <1>6, <1>8, BrightOn
<1>12. n \in Ready(K, l, P) BY <1>3, <1>6, <1>8, <1>9, <1>10, <1>11, <1>14 DEF Ready
<1>13. x.active = m.focus => n \in Steady(K, l, P)
  BY <1>3, <1>6, <1>8, <1>9, <1>10, <1>11, <1>14 DEF Steady
<1> QED BY <1>12, <1>13 DEF n

LEMMA OnWorkspaceSteady ==
  ASSUME NEW K, K \subseteq Views, NEW l, NEW P, NEW m \in Steady(K, l, P), NEW x,
         Succeeds(x, m, K, P)
  PROVE  /\ SyncFocus(OnWorkspace(m, x)) \in Steady(K, l, P)
         /\ LaidOut(SyncFocus(OnWorkspace(m, x))) \in Steady(K, l, P)
<1> DEFINE n == OnWorkspace(m, x)
<1>1. n \in Ready(K, l, P) BY OnWorkspaceReady
<1> HIDE DEF n
<1>2. SyncFocus(n) \in Steady(K, l, P) BY <1>1, SyncFocusSteady
<1>3. LaidOut(SyncFocus(n)) \in Steady(K, l, P) BY <1>2, LaidOutSteady
<1> QED BY <1>2, <1>3 DEF n

\* What the current workspace of a steady model is.
Settles(m, K, P) ==
  /\ Parts(Here(m, P), TracksAt(m, P, m.workspace))
  /\ Current(m) \in Sited(Here(m, P), IconsAt(P, m.workspace), TracksAt(m, P, m.workspace))
  /\ Current(m) \in Shaped(Views, K) /\ Lead(Current(m), Here(m, P))
  /\ Has(Current(m).views, Here(m, P))
  /\ Current(m).active = m.focus
LEMMA SteadySettles ==
  ASSUME NEW K, K \subseteq Views, NEW l, NEW P, NEW m \in Steady(K, l, P)
  PROVE  Settles(m, K, P)
<1>1. /\ m \in Base(K, l, P) /\ Lead(Current(m), Here(m, P)) /\ m.focus = Current(m).active
  BY SteadyReady
<1>2. m \in Sits(K, l, m.focus, P) /\ m.workspace \in Workspaces BY <1>1, BaseFacts
<1>3. Divided(m, P, m.workspace) BY <1>2, SiteShared
<1>4. Current(m) \in Shaped(Views, K) BY <1>2, CurrentSits
<1>5. Has(Current(m).views, Here(m, P)) BY <1>1, HereFacts
<1> QED BY <1>1, <1>3, <1>4, <1>5 DEF Settles, Divided, Current, Here

LEMMA LeadsSucceed ==
  ASSUME NEW K, NEW P, NEW m, Settles(m, K, P), NEW x \in Shaped(Views, K),
         x \in Site(m, P, m.workspace)
  PROVE  /\ Leads(x, Current(m), Here(m, P)) => Succeeds(x, m, K, P)
         /\ Resumes(x, Current(m), Here(m, P)) => Succeeds(x, m, K, P)
         /\ \A v : Takes(x, Current(m), v, Here(m, P)) => Succeeds(x, m, K, P)
<1>1. Lead(Current(m), Here(m, P)) /\ Current(m).active = m.focus BY DEF Settles
<1>2. Lead(x, Here(m, P)) => Owned(x, Here(m, P)) BY DEF Lead, Locked
<1> QED BY <1>1, <1>2 DEF Succeeds, Leads, Resumes, Takes

LEMMA FocusCommandsSteady ==
  ASSUME NEW K, K \subseteq Views, NEW l, NEW P, NEW m \in Steady(K, l, P),
         NEW d \in Directions, NEW n \in Nat
  PROVE  /\ Here(m, P) # {} => /\ CycleFocusCommand(m, d) \in Steady(K, l, P)
                               /\ CycleFocusTrackCommand(m, d) \in Steady(K, l, P)
                               /\ DragFocusTrackCommand(m, d) \in Steady(K, l, P)
         /\ CycleTrackCommand(m, d) \in Steady(K, l, P)
         /\ ReverseViews(m) \in Steady(K, l, P)
         /\ RotateViews(m, d) \in Steady(K, l, P)
         /\ ShuffleMainCommand(m, d, n) \in Steady(K, l, P)
         /\ ShuffleStackCommand(m, d, n) \in Steady(K, l, P)
<1> DEFINE w == Current(m)
           V == Here(m, P)
           I == IconsAt(P, m.workspace)
           T == TracksAt(m, P, m.workspace)
<1>1. Settles(m, K, P) BY SteadySettles
<1>2. /\ Parts(V, T) /\ w \in Sited(V, I, T) /\ w \in Shaped(Views, K) /\ Lead(w, V)
      /\ T \in [TrackLayers -> SUBSET Views]
  BY <1>1, SiteTypes DEF Settles
<1>3. Site(m, P, m.workspace) = Sited(V, I, T) BY DEF Site, Here
<1> HIDE DEF w, V, I, T
<1>4. ASSUME V # {}
      PROVE  /\ CycleFocusCommand(m, d) \in Steady(K, l, P)
             /\ CycleFocusTrackCommand(m, d) \in Steady(K, l, P)
             /\ DragFocusTrackCommand(m, d) \in Steady(K, l, P)
  <2>1. /\ Leads(CycleFocus(w, d), w, V) /\ Leads(CycleFocusTrack(w, d), w, V)
        /\ Leads(DragFocusTrack(w, d), w, V)
    BY <1>2, <1>4, CycleFocusLeads, CycleFocusTrackLeads, DragFocusTrackLeads
  <2>2. CycleFocus(w, d) \in Sited(V, I, T) /\ CycleFocus(w, d) \in Shaped(Views, K)
    BY <1>2, CycleFocusSited, CycleFocusShape
  <2>3. CycleFocusTrack(w, d) \in Sited(V, I, T) /\ CycleFocusTrack(w, d) \in Shaped(Views, K)
    BY <1>2, CycleFocusTrackSited, CycleFocusTrackShape
  <2>4. DragFocusTrack(w, d) \in Sited(V, I, T) /\ DragFocusTrack(w, d) \in Shaped(Views, K)
    BY <1>2, DragFocusTrackSited, DragFocusTrackShape
  <2>5. Succeeds(CycleFocus(w, d), m, K, P) BY <1>1, <1>3, <2>1, <2>2, LeadsSucceed DEF w, V
  <2>6. Succeeds(CycleFocusTrack(w, d), m, K, P)
    BY <1>1, <1>3, <2>1, <2>3, LeadsSucceed DEF w, V
  <2>7. Succeeds(DragFocusTrack(w, d), m, K, P)
    BY <1>1, <1>3, <2>1, <2>4, LeadsSucceed DEF w, V
  <2>8. CycleFocusCommand(m, d) \in Steady(K, l, P)
    BY <2>5, OnWorkspaceSteady DEF CycleFocusCommand, w
  <2>9. CycleFocusTrackCommand(m, d) \in Steady(K, l, P)
    BY <2>6, OnWorkspaceSteady DEF CycleFocusTrackCommand, w
  <2>10. DragFocusTrackCommand(m, d) \in Steady(K, l, P)
    BY <2>7, OnWorkspaceSteady DEF DragFocusTrackCommand, w
  <2> QED BY <2>8, <2>9, <2>10
<1>5. CycleTrackCommand(m, d) \in Steady(K, l, P)
  <2>1. Within(V, V, T) BY <1>2, PartsWithin
  <2>2. Leads(CycleTrack(w, d), w, V) BY <1>2, <2>1, CycleTrackLeads DEF Leads
  <2>3. CycleTrack(w, d) \in Sited(V, I, T) /\ CycleTrack(w, d) \in Shaped(Views, K)
    BY <1>2, CycleTrackSited, CycleTrackShape
  <2>4. Succeeds(CycleTrack(w, d), m, K, P) BY <1>1, <1>3, <2>2, <2>3, LeadsSucceed DEF w, V
  <2> QED BY <2>4, OnWorkspaceSteady DEF CycleTrackCommand, w
<1>6. /\ Succeeds(Reverse(w), m, K, P) /\ Succeeds(Rotate(w, d), m, K, P)
      /\ Succeeds(ShuffleMain(w, d, n), m, K, P) /\ Succeeds(ShuffleStack(w, d, n), m, K, P)
  <2>1. /\ Resumes(Reverse(w), w, V) /\ Resumes(Rotate(w, d), w, V)
        /\ Resumes(ShuffleMain(w, d, n), w, V) /\ Resumes(ShuffleStack(w, d, n), w, V)
    BY <1>2, OrderLeads
  <2>2. /\ Reverse(w) \in Sited(V, I, T) /\ Rotate(w, d) \in Sited(V, I, T)
        /\ ShuffleMain(w, d, n) \in Sited(V, I, T) /\ ShuffleStack(w, d, n) \in Sited(V, I, T)
    BY <1>2, OrderSited
  <2>3. /\ Reverse(w) \in Shaped(Views, K) /\ Rotate(w, d) \in Shaped(Views, K)
        /\ ShuffleMain(w, d, n) \in Shaped(Views, K) /\ ShuffleStack(w, d, n) \in Shaped(Views, K)
    BY <1>2, OrderShapes
  <2>4. Succeeds(Reverse(w), m, K, P) BY <1>1, <1>3, <2>1, <2>2, <2>3, LeadsSucceed DEF w, V
  <2>5. Succeeds(Rotate(w, d), m, K, P) BY <1>1, <1>3, <2>1, <2>2, <2>3, LeadsSucceed DEF w, V
  <2>6. Succeeds(ShuffleMain(w, d, n), m, K, P)
    BY <1>1, <1>3, <2>1, <2>2, <2>3, LeadsSucceed DEF w, V
  <2>7. Succeeds(ShuffleStack(w, d, n), m, K, P)
    BY <1>1, <1>3, <2>1, <2>2, <2>3, LeadsSucceed DEF w, V
  <2> QED BY <2>4, <2>5, <2>6, <2>7
<1>7. ReverseViews(m) \in Steady(K, l, P) BY <1>6, OnWorkspaceSteady DEF ReverseViews, w
<1>8. RotateViews(m, d) \in Steady(K, l, P) BY <1>6, OnWorkspaceSteady DEF RotateViews, w
<1>9. ShuffleMainCommand(m, d, n) \in Steady(K, l, P)
  BY <1>6, OnWorkspaceSteady DEF ShuffleMainCommand, w
<1>10. ShuffleStackCommand(m, d, n) \in Steady(K, l, P)
  BY <1>6, OnWorkspaceSteady DEF ShuffleStackCommand, w
<1> QED BY <1>4, <1>5, <1>7, <1>8, <1>9, <1>10 DEF V

\* What changes only the flags of views.
LEMMA MuteSteady ==
  ASSUME NEW K, K \subseteq Views, NEW l, NEW P, NEW m \in Steady(K, l, P),
         NEW n \in Sits(K, l, m.focus, P), Mute(n, m), Bright(n, P)
  PROVE  n \in Steady(K, l, P)
<1>1. /\ m \in Base(K, l, P) /\ Off(m, P) = {} /\ Calm(m, P)
      /\ Lead(Current(m), Here(m, P)) /\ m.focus = Current(m).active
  BY SteadyReady
<1>2. /\ n \in Base(K, l, P) /\ n.focus = m.focus /\ n.workspace = m.workspace
      /\ Here(n, P) = Here(m, P) /\ Current(n) = Current(m) /\ n.ws = m.ws
      /\ Off(n, P) = Off(m, P) /\ (Calm(m, P) => Calm(n, P))
  BY <1>1, BaseMute
<1> QED BY <1>1, <1>2 DEF Steady

LEMMA RefocusSteady ==
  ASSUME NEW K, K \subseteq Views, NEW l, NEW P, NEW m \in Steady(K, l, P)
  PROVE  Refocus(m) \in Steady(K, l, P)
<1> DEFINE f == m.focus
           w == Current(m)
           V == Here(m, P)
           I == IconsAt(P, m.workspace)
           T == TracksAt(m, P, m.workspace)
           x == ActivateView(w, f, m.view[f].layer)
           a == OnWorkspace(m, x)
           r == [a.view[f] EXCEPT !.focused = TRUE]
           b == [a EXCEPT !.view[f] = r]
<1>1. CASE f = Null BY <1>1 DEF Refocus
<1>2. CASE f # Null
  <2>1. m \in Base(K, l, P) /\ m.focus \in V
    BY <1>2, SteadyReady, SteadyPoised
  <2>2. m \in Sits(K, l, f, P) /\ m.workspace \in Workspaces BY <2>1, BaseFacts
  <2>3. Settles(m, K, P) BY SteadySettles
  <2>4. /\ Parts(V, T) /\ w \in Sited(V, I, T) /\ w \in Shaped(Views, K) /\ Lead(w, V)
        /\ T \in [TrackLayers -> SUBSET Views] /\ w.active = f
    BY <2>3, SiteTypes DEF Settles
  <2>5. Divided(m, P, m.workspace) /\ ViewsAt(P, m.workspace) \subseteq K BY <2>2, SiteShared
  <2>6. Tracked(m, P, m.workspace, f) BY <2>1, <2>5 DEF Divided, Here
  <2>7. /\ f \in Views /\ f \in K /\ m.view[f].ws = m.workspace /\ m.view[f].layer \in TrackLayers
        /\ f \in T[m.view[f].layer]
        /\ \A k \in TrackLayers : f \in T[k] => k = m.view[f].layer
    BY <2>1, <2>5, <2>6 DEF Tracked, Here
  <2>8. w.track = w.trackLayer /\ w.track \in TrackLayers /\ f \in T[w.track]
    <3> HIDE DEF w, V, I, T
    <3>1. V # {} BY <2>1
    <3> QED BY <2>4, <3>1, LeadFacts
  <2>9. w.track = m.view[f].layer /\ w.trackLayer = m.view[f].layer BY <2>7, <2>8
  <2>10. ActivateWorkspace(m, m.view[f].ws) = m BY <2>7 DEF ActivateWorkspace
  <2>11. Refocus(m) = m \/ Refocus(m) = FitLayout(b)
    BY <1>2, <2>10 DEF Refocus, Refocused, Activate
  <2>12. Takes(x, w, f, V) /\ x \in Sited(V, I, T)
    <3> HIDE DEF w, V, I, T
    <3> QED BY <2>4, <2>7, <2>9, ActivateViewLeads
  <2>13. x \in Shaped(Views, K) BY <2>4, <2>7, ActivateViewShape
  <2>14. Site(m, P, m.workspace) = Sited(V, I, T) BY DEF Site, Here
  <2> HIDE DEF x
  <2>15. Succeeds(x, m, K, P)
    <3> HIDE DEF I, T
    <3> QED BY <2>3, <2>12, <2>13, <2>14, LeadsSucceed
  <2>16. x.active = m.focus BY <2>12 DEF Takes
  <2>17. a \in Steady(K, l, P) BY <2>15, <2>16, OnWorkspaceReady
  <2>18. a.focus = f
    <3>1. m \in ModelRecords(CyclesOver(Views, K), K) BY <2>2, SitsFacts
    <3> QED BY <3>1 DEF OnWorkspace, ModelRecords
  <2> HIDE DEF a, w, V, I, T
  <2>19. a \in Sits(K, l, f, P) /\ a \in ModelRecords(CyclesOver(Views, K), K)
    BY <2>17, <2>18, SteadyReady, BaseFacts
  <2>20. a \in Still(K, l, f) BY <2>19, SitsFacts
  <2> HIDE DEF f
  <2>21. a.view[f] \in ViewRecords /\ (a.view[f].state # "gone" => f \in K)
    BY <2>7, <2>20, ViewFacts
  <2>22. r \in ViewRecords /\ r.ws = a.view[f].ws /\ r.state = a.view[f].state
         /\ Alike(r, a.view[f]) /\ Same(r, a.view[f]) /\ r.mapped = a.view[f].mapped
         /\ r.focused
    BY <2>21 DEF ViewRecords, Alike, Same
  <2> HIDE DEF r
  <2>23. b \in Still(K, l, f) BY <2>7, <2>20, <2>21, <2>22, SetView
  <2>24. b \in Sits(K, l, f, P) BY <2>7, <2>19, <2>22, <2>23, SetViewSits
  <2>28. /\ Aside(b, a) /\ b.ws = a.ws /\ b.view[f] = r /\ b.focus = a.focus
         /\ \A u \in Views \ {f} : b.view[u] = a.view[u]
    BY <2>7, <2>19, ViewSet
  <2>25. Mute(b, a) BY <2>7, <2>22, <2>28 DEF Mute, Quiet, Same, Alike
  <2>29. Bright(b, P)
    <3> HIDE DEF b
    <3>1. Bright(a, P) /\ Dim(a, P) BY <2>17, SteadyReady
    <3>2. b.workspace = a.workspace /\ Alight(b, a) BY <2>7, <2>22, <2>28 DEF Aside, Alight
    <3>3. Dim(b, P) /\ Here(b, P) = Here(a, P) BY <3>1, <3>2, BrightOn
    <3>4. Lit(b) BY <2>18, <2>22, <2>28 DEF Lit
    <3>5. Here(a, P) \subseteq Views BY DEF Here, ViewsAt
    <3> QED BY <2>28, <3>1, <3>2, <3>3, <3>4, <3>5 DEF Bright, Alight
  <2> HIDE DEF b
  <2>26. b \in Steady(K, l, P) BY <2>17, <2>18, <2>24, <2>25, <2>29, MuteSteady
  <2>27. FitLayout(b) \in Steady(K, l, P) BY <2>26, LaidOutSteady
  <2> QED BY <2>11, <2>27
<1> QED BY <1>1, <1>2

LEMMA UpdateOutputsSteady ==
  ASSUME NEW K, K \subseteq Views, NEW l, NEW P, NEW m \in Steady(K, l, P)
  PROVE  UpdateOutputs(m) \in Steady(K, l, P)
<1> DEFINE s == m.outputs.elements
<1>1. m \in Base(K, l, P) BY SteadyReady
<1>2. m \in Still(K, l, m.focus) BY <1>1, BaseFacts, SitsFacts
<1>3. s \in Seq(Outputs) BY <1>2, ShownWorkspace DEF Cycles
<1>4. Len(s) \in Nat /\ DOMAIN s = 1..Len(s) BY <1>3
<1>5. \A x \in Steady(K, l, P), i \in 1..Len(s) : LayOutOutput(x, s[i]) \in Steady(K, l, P)
  <2> TAKE x \in Steady(K, l, P), i \in 1..Len(s)
  <2>1. x \in Base(K, l, P) BY SteadyReady
  <2>2. x \in Fit(K, l) /\ x \in Sound(K) /\ Anchored(x) BY <2>1, BaseFacts
  <2>3. x.outputs = m.outputs BY <1>2, <2>2 DEF Still, Fit, Wired
  <2>4. s[i] \in Range(x.outputs.elements) /\ s[i] \in Outputs BY <1>3, <1>4, <2>3 DEF Range
  <2>5. x.out[s[i]] # Null BY <2>2, <2>4 DEF Sound, OutputsLive
  <2>6. x.out[s[i]] = x.context BY <2>2, <2>4, <2>5 DEF Anchored
  <2>7. LayOutOutput(x, s[i]) = LaidOut(x) BY <2>2, <2>6 DEF LayOutOutput, LaidOut, Anchored
  <2> QED BY <2>7, LaidOutSteady
<1>6. SE!FoldLeft(LayOutOutput, m, s) \in Steady(K, l, P)
  <2> HIDE DEF s
  <2> QED BY <1>4, <1>5, LayOutFold
<1> QED BY <1>6 DEF UpdateOutputs

\* A view placed as it already is stays as it is.
LEMMA PlaceIdle ==
  ASSUME NEW C, NEW K, NEW m \in ModelRecords(C, K), NEW p, p.view \in Views,
         m.view[p.view].ws \in Workspaces, p.method \in {"Free", "Tile"},
         m.view[p.view].free = (p.method = "Free"),
         m.view[p.view].layer = IF m.view[p.view].free THEN FREE ELSE TILE,
         m.view[p.view].mapped <=> p.shown
  PROVE  PlaceView(m, p) = m
<1> DEFINE v == p.view
           o == m.view[v]
           w == o.ws
           b == PlacedFree(m, p)
<1>1. o \in ViewRecords /\ v \in Views /\ w \in Workspaces BY DEF ModelRecords
<1>2. [m EXCEPT !.view[v] = o] = m /\ [m EXCEPT !.ws[w] = m.ws[w]] = m
  BY <1>1 DEF ModelRecords
<1>3. b = o.free BY DEF PlacedFree
<1>4. [m EXCEPT !.view[v].free = b] = m
  <2>1. [o EXCEPT !.free = b] = o BY <1>1, <1>3 DEF ViewRecords
  <2>2. [m EXCEPT !.view[v].free = b] = [m EXCEPT !.view[v] = [o EXCEPT !.free = b]] OBVIOUS
  <2> QED BY <1>2, <2>1, <2>2
<1>5. PlacedLayer[p.method] = o.layer
  <2>1. o.free \in BOOLEAN /\ o.free = (p.method = "Free") BY <1>1 DEF ViewRecords
  <2>2. CASE p.method = "Free"
    <3>1. o.free = TRUE BY <2>1, <2>2
    <3>2. o.layer = FREE BY <3>1
    <3>3. PlacedLayer[p.method] = FREE BY <2>2 DEF PlacedLayer
    <3> QED BY <3>2, <3>3
  <2>3. CASE p.method = "Tile"
    <3>1. o.free = FALSE BY <2>1, <2>3
    <3>2. o.layer = TILE BY <3>1
    <3>3. PlacedLayer[p.method] = TILE BY <2>3 DEF PlacedLayer
    <3> QED BY <3>2, <3>3
  <2> QED BY <2>2, <2>3
<1>6. MoveViewToTrack(m, v, o.layer, FALSE) = m
  <2>1. [o EXCEPT !.layer = o.layer] = o BY <1>1 DEF ViewRecords
  <2>2. ChangeViewTrack(m.ws[w], v, o.layer, o.layer, FALSE) = m.ws[w] BY DEF ChangeViewTrack
  <2>3. MoveViewToTrack(m, v, o.layer, FALSE)
          = [[m EXCEPT !.ws[w] = m.ws[w]] EXCEPT !.view[v] = [o EXCEPT !.layer = o.layer]]
    BY <2>2 DEF MoveViewToTrack
  <2> QED BY <1>2, <2>1, <2>3
<1>7. Show(m, v, p.shown) = m
  <2>1. CASE p.shown
    <3>1. o.mapped = TRUE BY <1>1, <2>1 DEF ViewRecords
    <3>2. [o EXCEPT !.mapped = TRUE] = o BY <1>1, <3>1 DEF ViewRecords
    <3>3. Map(m, v) = [m EXCEPT !.view[v] = [o EXCEPT !.mapped = TRUE]] BY DEF Map
    <3> QED BY <1>2, <2>1, <3>2, <3>3 DEF Show
  <2>2. CASE ~p.shown BY <2>2 DEF Show, Unmap
  <2> QED BY <2>1, <2>2
<1>8. PlaceView(m, p) = Show(MoveViewToTrack([m EXCEPT !.view[v].free = b], v,
                                             PlacedLayer[p.method], FALSE), v, p.shown)
  BY DEF PlaceView
<1> HIDE DEF b, o
<1> QED BY <1>4, <1>5, <1>6, <1>7, <1>8

\* So a steady model laid out anew is the same model.
LEMMA LaidOutIdle ==
  ASSUME NEW K, K \subseteq Views, NEW l, NEW P, NEW m \in Steady(K, l, P)
  PROVE  LaidOut(m) = m
<1> DEFINE w == m.workspace
           V == ViewsAt(P, w)
           s == Arrange(m, w)
           layout == Layout(m.ws[w])
<1>1. m \in Base(K, l, P) /\ Off(m, P) = {} /\ Bright(m, P) /\ Dim(m, P) /\ Lit(m)
  BY SteadyReady
<1>2. /\ m \in Sits(K, l, m.focus, P) /\ m \in ModelRecords(CyclesOver(Views, K), K)
      /\ m \in Sound(K) /\ w \in Workspaces /\ m.ws[w].kind = InitialKind
      /\ IsVisible(m, w) /\ m.focus \in K \cup {Null}
  BY <1>1, BaseFacts
<1>3. Arranged(s, m, V, layout) BY <1>2, ArrangeFollows
<1>4. layout.free = LayoutKinds[InitialKind].free /\ layout.single = Single
  BY <1>2 DEF Layout, Single
<1>5. LaidOut(m) = SE!FoldLeft(PlaceView, m, s) BY <1>2 DEF LaidOut, ApplyLayout
<1>6. Divided(m, P, w) BY <1>2, SiteShared
<1> HIDE DEF s, layout
<1>7. PICK n \in Nat : DOMAIN s = 1..n BY <1>3 DEF Arranged
<1>8. ASSUME NEW i \in 1..n PROVE PlaceView(m, s[i]) = m
  <2> DEFINE p == s[i]
             v == p.view
  <2>1. /\ v \in V /\ p.method \in {"Free", "Tile"}
        /\ (p.method = "Free") <=> (layout.free \/ m.view[v].floating)
        /\ p.shown <=> (Single => m.view[v].focused)
    BY <1>3, <1>4, <1>7 DEF Arranged
  <2> HIDE DEF p
  <2>2. Tracked(m, P, w, v) BY <1>6, <2>1 DEF Divided
  <2>3. /\ v \in Views /\ m.view[v].ws = w /\ m.view[v].free \in BOOLEAN
        /\ m.view[v].layer = IF m.view[v].free THEN FREE ELSE TILE
    BY <2>2 DEF Tracked
  <2>4. m.view[v].free = (p.method = "Free")
    <3>1. m.view[v].free = Right(m, v) BY <1>1, <2>1 DEF Off
    <3>2. Right(m, v) <=> p.method = "Free" BY <1>4, <2>1 DEF Right
    <3> QED BY <2>3, <3>1, <3>2
  <2>5. m.view[v].mapped <=> p.shown
    <3>1. v \in Here(m, P) BY <2>1 DEF Here
    <3>2. CASE ~Single BY <1>1, <2>1, <3>1, <3>2 DEF Dim
    <3>3. CASE Single
      <4>1. m.view[v].mapped => v = m.focus BY <1>1, <3>1, <3>3 DEF Bright
      <4>2. v = m.focus => m.view[v].mapped BY <1>1, <3>1 DEF Bright
      <4>3. m.view[v].focused => v = m.focus BY <1>2, <2>3 DEF Sound, FocusedIs
      <4>4. v = m.focus => m.view[v].focused BY <1>1, <2>3, NullFresh DEF Lit
      <4> QED BY <2>1, <3>3, <4>1, <4>2, <4>3, <4>4
    <3> QED BY <3>2, <3>3
  <2> HIDE DEF v
  <2>6. p.view = v BY DEF v
  <2>7. PlaceView(m, p) = m BY <1>2, <2>1, <2>3, <2>4, <2>5, <2>6, PlaceIdle
  <2> QED BY <2>7 DEF p
<1> DEFINE D == [i \in 0..n |-> {m}]
<1>9. m \in D[0] /\ \A i \in 1..n : \A x \in D[i - 1] : PlaceView(x, s[i]) \in D[i]
  <2>1. 0 \in 0..n /\ \A i \in 1..n : i - 1 \in 0..n /\ i \in 0..n BY <1>7
  <2>2. m \in D[0] BY <2>1
  <2>3. \A i \in 0..n : D[i] = {m} OBVIOUS
  <2> HIDE DEF D
  <2> QED BY <1>8, <2>1, <2>2, <2>3
<1>10. SE!FoldLeft(PlaceView, m, s) \in D[n]
  <2> HIDE DEF D
  <2> QED BY <1>7, <1>9, PlaceReach
<1>11. n \in 0..n BY <1>7
<1> QED BY <1>5, <1>10, <1>11

\* And so is one whose outputs are all laid out anew.
LEMMA OutputsIdle ==
  ASSUME NEW K, K \subseteq Views, NEW l, NEW P, NEW m \in Steady(K, l, P)
  PROVE  UpdateOutputs(m) = m
<1> DEFINE s == m.outputs.elements
<1>1. m \in Base(K, l, P) BY SteadyReady
<1>2. m \in Still(K, l, m.focus) BY <1>1, BaseFacts, SitsFacts
<1>3. s \in Seq(Outputs) BY <1>2, ShownWorkspace DEF Cycles
<1>4. Len(s) \in Nat /\ DOMAIN s = 1..Len(s) BY <1>3
<1>5. \A x \in {m}, i \in 1..Len(s) : LayOutOutput(x, s[i]) \in {m}
  <2> SUFFICES ASSUME NEW i \in 1..Len(s) PROVE LayOutOutput(m, s[i]) = m OBVIOUS
  <2>2. m \in Fit(K, l) /\ m \in Sound(K) /\ Anchored(m) BY <1>1, BaseFacts
  <2>4. s[i] \in Range(m.outputs.elements) /\ s[i] \in Outputs BY <1>3, <1>4 DEF Range
  <2>5. m.out[s[i]] # Null BY <2>2, <2>4 DEF Sound, OutputsLive
  <2>6. m.out[s[i]] = m.context BY <2>2, <2>4, <2>5 DEF Anchored
  <2>7. LayOutOutput(m, s[i]) = LaidOut(m) BY <2>2, <2>6 DEF LayOutOutput, LaidOut, Anchored
  <2> QED BY <2>7, LaidOutIdle
<1>6. SE!FoldLeft(LayOutOutput, m, s) \in {m}
  <2> HIDE DEF s
  <2> QED BY <1>4, <1>5, LayOutFold
<1> QED BY <1>6 DEF UpdateOutputs

----------------------------------------------------------------------------
(* A view changes its place.                                                *)

\* Nothing is left to arrange and the current workspace leads, but the focus may
\* still be elsewhere.
Loose(K, l, P) == {m \in Base(K, l, P) :
                     /\ Off(m, P) = {} /\ Calm(m, P) /\ Lead(Current(m), Here(m, P))
                     /\ Bright(m, P)}
LEMMA SteadyLoose ==
  ASSUME NEW K, NEW l, NEW P, NEW m
  PROVE  /\ m \in Steady(K, l, P) <=> m \in Loose(K, l, P) /\ m.focus = Current(m).active
         /\ m \in Loose(K, l, P) => m \in Ready(K, l, P)
<1>1. \A x, V : Lead(x, V) => Owned(x, V) BY DEF Lead, Locked
<1>2. Bright(m, P) => Dim(m, P) BY DEF Bright
<1> QED BY <1>1, <1>2 DEF Steady, Loose, Ready

LEMMA LooseLaid ==
  ASSUME NEW K, K \subseteq Views, NEW l, NEW P, NEW m \in Loose(K, l, P), NEW w \in Workspaces
  PROVE  /\ ApplyLayout(m, w) \in Loose(K, l, P)
         /\ ApplyLayout(m, w).focus = m.focus /\ ApplyLayout(m, w).workspace = m.workspace
         /\ \A u \in Workspaces : ApplyLayout(m, w).ws[u] = m.ws[u]
         /\ w # m.workspace => ApplyLayout(m, w) = m
<1> DEFINE n == LaidOut(m)
<1>1. /\ m \in Base(K, l, P) /\ Off(m, P) = {} /\ Calm(m, P) /\ Lead(Current(m), Here(m, P))
      /\ Bright(m, P)
  BY DEF Loose
<1>2. m \in Sound(K) /\ Anchored(m) /\ m.workspace \in Workspaces BY <1>1, BaseFacts
<1>3. ASSUME w # m.workspace PROVE ApplyLayout(m, w) = m
  BY <1>2, <1>3, AnchoredSees DEF ApplyLayout
<1>4. CASE w = m.workspace
  <2>1. Rests(n, m, K, l, P) BY <1>1, LayoutQuiet
  <2>2. ApplyLayout(m, w) = n BY <1>4 DEF LaidOut
  <2> HIDE DEF n
  <2>3. /\ n \in Base(K, l, P) /\ n.focus = m.focus /\ n.workspace = m.workspace
        /\ Off(n, P) = {} /\ \A u \in Workspaces : n.ws[u] = m.ws[u]
    BY <1>1, <2>1 DEF Rests
  <2>4. Calm(n, P) BY <1>1, <2>3 DEF Calm
  <2>5. Current(n) = Current(m) /\ Here(n, P) = Here(m, P) BY <1>2, <2>3 DEF Current, Here
  <2>7. Bright(n, P)
    <3>1. Lightened(n, m, P) BY <1>1, <2>1, LayoutLightens
    <3> QED BY <1>1, <3>1 DEF Lightened, Bright, Dim
  <2>6. n \in Loose(K, l, P) BY <1>1, <2>3, <2>4, <2>5, <2>7 DEF Loose
  <2> QED BY <1>4, <2>2, <2>3, <2>6
<1> QED BY <1>3, <1>4

\* What a handler does to one view while it moves it.
Turns(n, m, v, Q, P) ==
  /\ Aside(n, m) /\ \A w \in Workspaces : n.ws[w].kind = m.ws[w].kind
  /\ DifferIn(v, n, Q, m, P)
  /\ n.view[v].mapped => Q[v].in # "icon"
  /\ Q[v].state # "unmapped" => n.view[v].managed
LEMMA TurnsBase ==
  ASSUME NEW J, J \subseteq Views, NEW j, NEW K, K \subseteq Views, NEW l, NEW P,
         NEW m \in Base(J, j, P), NEW Q, NEW n \in Home(K, l, Q), NEW v \in Views,
         Turns(n, m, v, Q, P)
  PROVE  n \in Base(K, l, Q) /\ n.workspace = m.workspace
<1>1. Standing(m, P) BY BaseFacts
<1>2. Anchored(n) BY <1>1 DEF Standing, Anchored, Turns, Aside
<1>3. ~n.down /\ ~n.astray /\ n.workspace = m.workspace BY <1>1 DEF Standing, Turns, Aside
<1>4. \A w \in Workspaces : n.ws[w].kind = InitialKind BY <1>1 DEF Standing, Turns
<1>5. \A u \in Views : /\ n.view[u].mapped => Q[u].in # "icon"
                       /\ Q[u].state # "unmapped" => n.view[u].managed
  BY <1>1 DEF Standing, Turns, DifferIn
<1>6. Standing(n, Q) BY <1>2, <1>3, <1>4, <1>5 DEF Standing
<1> QED BY <1>3, <1>6 DEF Base

\* How a view changes what is in a workspace.
LEMMA ViewsChange ==
  ASSUME NEW v \in Views, NEW n, NEW Q, NEW m, NEW P, DifferIn(v, n, Q, m, P), NEW w
  PROVE  /\ P[v].ws # w \/ P[v].in # "view" => v \notin ViewsAt(P, w)
         /\ Q[v].ws # w \/ Q[v].in # "view" => ViewsAt(Q, w) = ViewsAt(P, w) \ {v}
         /\ Q[v].ws = w /\ Q[v].in = "view" => ViewsAt(Q, w) = ViewsAt(P, w) \cup {v}
<1>1. \A u \in Views \ {v} : u \in ViewsAt(Q, w) <=> u \in ViewsAt(P, w)
  BY DEF DifferIn, ViewsAt
<1>2. ViewsAt(Q, w) \subseteq Views /\ ViewsAt(P, w) \subseteq Views BY DEF ViewsAt
<1>3. v \in ViewsAt(Q, w) <=> Q[v].ws = w /\ Q[v].in = "view" BY DEF ViewsAt
<1>4. v \in ViewsAt(P, w) <=> P[v].ws = w /\ P[v].in = "view" BY DEF ViewsAt
<1> QED BY <1>1, <1>2, <1>3, <1>4

LEMMA OffChange ==
  ASSUME NEW v \in Views, NEW n, NEW Q, NEW m, NEW P, DifferIn(v, n, Q, m, P),
         n.workspace = m.workspace, Off(m, P) = {}
  PROVE  /\ Off(n, Q) \subseteq {v}
         /\ Q[v].ws # n.workspace \/ Q[v].in # "view" => Off(n, Q) = {}
<1>1. ASSUME NEW u \in Off(n, Q), u # v PROVE FALSE
  <2>1. u \in ViewsAt(Q, n.workspace) /\ n.view[u].free # Right(n, u) BY <1>1 DEF Off
  <2>2. u \in Views /\ Q[u] = P[u] /\ n.view[u] = m.view[u]
    BY <1>1, <2>1 DEF ViewsAt, DifferIn
  <2>3. u \in ViewsAt(P, m.workspace) BY <2>1, <2>2 DEF ViewsAt
  <2>4. m.view[u].free # Right(m, u) BY <2>1, <2>2 DEF Right
  <2> QED BY <2>3, <2>4 DEF Off
<1>2. Q[v].ws # n.workspace \/ Q[v].in # "view" => v \notin Off(n, Q) BY DEF Off, ViewsAt
<1> QED BY <1>1, <1>2

\* What is shown does not depend on a view that is nowhere, unless it still is
\* the focus.
LEMMA BrightWithout ==
  ASSUME NEW v \in Views, NEW n, NEW R, NEW m, NEW P, DifferIn(v, n, R, m, P),
         n.workspace = m.workspace, n.focus = m.focus, R[v].in = "none",
         v = m.focus => n.view[v].focused = m.view[v].focused,
         m.focus \in Views \cup {Null}, Bright(m, P)
  PROVE  Bright(n, R)
<1>1. /\ \A u \in Views \ {v} : n.view[u] = m.view[u] /\ R[u] = P[u]
      /\ \A u \in Here(n, R) : u \in Here(m, P) /\ u \in Views /\ u # v
  BY DEF DifferIn, Here, ViewsAt
<1>2. Dim(n, R)
  <2>1. Dim(m, P) BY DEF Bright
  <2> QED BY <1>1, <2>1 DEF Dim
<1>3. Lit(n) BY <1>1 DEF Lit, Bright
<1> QED BY <1>1, <1>2, <1>3 DEF Bright

\* A view on its way out of the workspace w.
Departs(n, m, v, w, R, P) ==
  /\ Aside(n, m) /\ n.ws = m.ws /\ n.focus = m.focus
  /\ DifferIn(v, n, R, m, P) /\ InPlace(n.view[v], R[v]) /\ R[v].in = "none"
  /\ n.view[v].layer = m.view[v].layer /\ n.view[v].managed
  /\ v = m.focus => n.view[v].focused = m.view[v].focused
  /\ P[v].ws = w
LEMMA LeaveLoose ==
  ASSUME NEW K, K \subseteq Views, NEW l, NEW P, NEW m \in Steady(K, l, P), NEW v \in K,
         NEW w \in Workspaces, NEW n \in Fit(K, l), NEW R, Departs(n, m, v, w, R, P)
  PROVE  /\ LeaveWorkspace(n, v, w) \in Loose(K, l, R)
         /\ LeaveWorkspace(n, v, w).workspace = m.workspace
         /\ w # m.workspace => LeaveWorkspace(n, v, w) \in Steady(K, l, R)
<1> DEFINE V == ViewsAt(P, w)
           T == TracksAt(m, P, w)
           j == m.view[v].layer
           x == RemoveView(n.ws[w], v, n.view[v].layer)
           y == [n EXCEPT !.ws[w] = x]
<1>1. /\ m \in Base(K, l, P) /\ Off(m, P) = {} /\ Calm(m, P)
      /\ Lead(Current(m), Here(m, P)) /\ m.focus = Current(m).active
  BY SteadyReady
<1>2. m \in Sits(K, l, m.focus, P) /\ m.workspace \in Workspaces BY <1>1, BaseFacts
<1>3. Placed(m, P) /\ v \in Views BY <1>2, SitsFacts
<1>4. Divided(m, P, w) BY <1>2, SiteShared
<1>5. Parts(V, T) /\ m.ws[w] \in Sited(V, IconsAt(P, w), T) BY <1>4 DEF Divided
<1>6. /\ n.ws = m.ws /\ n.focus = m.focus /\ Aside(n, m) /\ DifferIn(v, n, R, m, P)
      /\ InPlace(n.view[v], R[v]) /\ R[v].in = "none" /\ n.view[v].layer = j
      /\ n.view[v].managed /\ P[v].ws = w
  BY DEF Departs
<1>7. j \in TrackLayers BY <1>6, KnownFit
<1>8. \A k \in TrackLayers : v \in T[k] => k = j BY SiteTypes
<1>9. Locked(m.ws[w], V)
  <2>1. Poised(m, m.context, P) BY SteadyPoised
  <2> QED BY <2>1 DEF Poised
<1>10. x = RemoveView(m.ws[w], v, j) BY <1>6
<1>11. Without(n, v, w) \in Home(K, l, R) BY <1>3, <1>6, WithoutHome
<1>12. Without(n, v, w) = y BY DEF Without
<1> HIDE DEF V, T, j, x
<1>13. /\ Locked(x, V \ {v}) /\ x.kind = m.ws[w].kind
       /\ Lead(m.ws[w], V) => Lead(x, V \ {v})
  <2> DEFINE s == m.ws[w]
             I == IconsAt(P, w)
  <2>1. s \in Sited(V, I, T) /\ Locked(s, V) /\ x = RemoveView(s, v, j) BY <1>5, <1>9, <1>10
  <2> HIDE DEF s, I
  <2>2. /\ Locked(RemoveView(s, v, j), V \ {v})
        /\ Lead(s, V) => Lead(RemoveView(s, v, j), V \ {v})
        /\ RemoveView(s, v, j).kind = s.kind
    BY <1>5, <1>7, <1>8, <2>1, RemoveViewLeads
  <2> QED BY <2>1, <2>2 DEF s
<1>14. /\ Aside(y, n) /\ y.view = n.view /\ y.ws[w] = x /\ y.focus = n.focus
       /\ \A u \in Workspaces \ {w} : y.ws[u] = n.ws[u]
  <2>1. n \in ModelRecords(CyclesOver(Views, K), K) BY DEF Fit, Sound
  <2> QED BY <2>1, WsSet
<1> HIDE DEF y
<1>15. Aside(y, m) /\ DifferIn(v, y, R, m, P) BY <1>6, <1>14 DEF Aside, DifferIn
<1>16. Turns(y, m, v, R, P)
  <2>1. \A u \in Workspaces : y.ws[u].kind = m.ws[u].kind BY <1>6, <1>13, <1>14
  <2> QED BY <1>6, <1>14, <1>15, <2>1 DEF Turns
<1>17. y \in Base(K, l, R) /\ y.workspace = m.workspace BY <1>1, <1>3, <1>11, <1>12, <1>16, TurnsBase
<1>18. Off(y, R) = {} BY <1>1, <1>3, <1>6, <1>15, <1>17, OffChange
<1>19. ViewsAt(R, w) = V \ {v} BY <1>3, <1>6, <1>15, ViewsChange DEF V
<1>20. ASSUME NEW u \in Workspaces, u # w PROVE ViewsAt(R, u) = ViewsAt(P, u) /\ y.ws[u] = m.ws[u]
  <2>1. ViewsAt(R, u) = ViewsAt(P, u) \ {v} /\ v \notin ViewsAt(P, u)
    BY <1>3, <1>6, <1>15, <1>20, ViewsChange
  <2> QED BY <1>6, <1>14, <1>20, <2>1
<1>21. Calm(y, R) BY <1>1, <1>13, <1>14, <1>17, <1>19, <1>20 DEF Calm
<1>22. Lead(Current(y), Here(y, R))
  <2>1. CASE w = m.workspace
    <3>1. Lead(m.ws[w], V) BY <1>1, <2>1 DEF Current, Here, V
    <3> QED BY <1>13, <1>14, <1>17, <1>19, <2>1, <3>1 DEF Current, Here
  <2>2. CASE w # m.workspace
    <3>1. Current(y) = Current(m) /\ Here(y, R) = Here(m, P)
      BY <1>2, <1>17, <1>20, <2>2 DEF Current, Here
    <3> QED BY <1>1, <3>1
  <2> QED BY <2>1, <2>2
<1>26. Bright(y, R)
  <2>1. m.focus \in Views \cup {Null} /\ Bright(m, P) BY <1>1, BaseFacts, SteadyReady
  <2>2. v = m.focus => y.view[v].focused = m.view[v].focused BY <1>14 DEF Departs
  <2> QED BY <1>3, <1>6, <1>14, <1>15, <1>17, <2>1, <2>2, BrightWithout
<1>23. y \in Loose(K, l, R) BY <1>17, <1>18, <1>21, <1>22, <1>26 DEF Loose
<1>24. LeaveWorkspace(n, v, w) = ApplyLayout(y, w)
  BY <1>12, NullFresh DEF LeaveWorkspace, Without
<1>25. w # m.workspace => y \in Steady(K, l, R)
  BY <1>1, <1>2, <1>6, <1>14, <1>17, <1>20, <1>23, SteadyLoose DEF Current
<1> QED BY <1>17, <1>23, <1>24, <1>25, LooseLaid

\* A view has come to the current workspace, which led until then.
Arrives(n, v, x, I, T, Q) ==
  /\ v \in Here(n, Q) /\ Off(n, Q) \subseteq {v} /\ Calm(n, Q)
  /\ x \in Sited(Here(n, Q) \ {v}, I, T) /\ Parts(Here(n, Q) \ {v}, T)
  /\ Lead(x, Here(n, Q) \ {v}) /\ x.active = n.focus
  /\ Current(n) = AddView(x, v, n.view[v].layer)
  /\ \A u \in Views : n.view[u].mapped /\ Q[u].in = "view" => Q[u].ws = n.workspace
  /\ Lit(n)

\* Where a layout shows one view, the newcomer is active when it is done.
Welcomes(y, K, l, Q) == /\ y \in Ready(K, l, Q) /\ Bright(y, Q)
                        /\ Current(y).active = y.focus => ~Single
LEMMA SingleFree == Single => LayoutKinds[InitialKind].free
<1>1. InitialKind \in {"Float", "SingleFloat", "Stack", "Paper"}
  BY KindsAssumption DEF LayoutKinds
<1>2. LayoutKinds["Float"].single = FALSE BY DEF LayoutKinds
<1>3. LayoutKinds["SingleFloat"].free = TRUE BY DEF LayoutKinds
<1>4. LayoutKinds["Stack"].single = FALSE BY DEF LayoutKinds
<1>5. LayoutKinds["Paper"].single = FALSE BY DEF LayoutKinds
<1> QED BY <1>1, <1>2, <1>3, <1>4, <1>5 DEF Single

LEMMA ArriveReady ==
  ASSUME NEW K, K \subseteq Views, NEW l, NEW Q, NEW n \in Base(K, l, Q), NEW v, NEW x, NEW I,
         NEW T, Arrives(n, v, x, I, T, Q)
  PROVE  Welcomes(LaidOut(n), K, l, Q) /\ LaidOut(n).workspace = n.workspace
<1> DEFINE y == LaidOut(n)
           V == Here(n, Q)
           W == Here(n, Q) \ {v}
           w == n.workspace
           j == n.view[v].layer
           k == TrackFor(n, v)
<1>1. /\ v \in V /\ Off(n, Q) \subseteq {v} /\ Calm(n, Q) /\ x \in Sited(W, I, T) /\ Parts(W, T)
      /\ Lead(x, W) /\ x.active = n.focus /\ n.ws[w] = AddView(x, v, j)
  BY DEF Arrives, Current
<1>2. /\ n \in Sits(K, l, n.focus, Q) /\ n.focus \in K \cup {Null} /\ w \in Workspaces
      /\ IsVisible(n, w) /\ n.ws[w].kind = InitialKind
  BY BaseFacts
<1>3. Rests(y, n, K, l, Q) BY LayoutQuiet
<1>4. Divided(n, Q, w) BY <1>2, SiteShared
<1>5. Tracked(n, Q, w, v) BY <1>1, <1>4 DEF Divided, Here
<1>6. v \in Views /\ v # Null /\ j \in TrackLayers /\ j = IF n.view[v].free THEN FREE ELSE TILE
  BY <1>5 DEF Tracked
<1>7. W \cup {v} = V /\ v \in Views \ W BY <1>1, <1>6
<1> HIDE DEF y, V, W, w, j
<1>8. /\ y \in Base(K, l, Q) /\ y.focus = n.focus /\ y.workspace = w /\ Off(y, Q) = {}
      /\ Laid(y, n, Q) /\ \A u \in Workspaces \ {w} : y.ws[u] = n.ws[u]
  BY <1>3 DEF Rests, w
<1>9. Here(y, Q) = V /\ Current(y) = y.ws[w] BY <1>8 DEF Here, Current, V, w
<1>10. Calm(y, Q) BY <1>1, <1>8 DEF Calm, w
<1>11. Locked(AddView(x, v, j), W \cup {v}) /\ AddView(x, v, j).active = v
  <2>1. /\ Locked(AddView(x, v, j), W \cup {v})
        /\ AddView(x, v, j).active = v /\ AddView(x, v, j).trackLayer = j
        /\ AddView(x, v, j).track = x.track /\ AddView(x, v, j).kind = x.kind
        /\ AddView(x, v, j).tracks = [x.tracks EXCEPT ![j] = InsertAtBack(x.tracks[j], v)]
        /\ AddView(x, v, j).views = InsertAtBack(x.views, v)
    BY <1>1, <1>6, <1>7, AddViewLeads
  <2> QED BY <2>1
<1>12. Owned(y.ws[w], V)
  <2>1. Owned(n.ws[w], V) BY <1>1, <1>7, <1>11, LockedOwned
  <2> QED BY <1>8, <2>1 DEF Laid, V, Here, w
<1>13. Owned(x, W) BY <1>1 DEF Lead, Locked
<1>16. n.focus # v
  <2>1. x.active \in W \/ x.active = Null BY <1>13 DEF Owned
  <2> QED BY <1>1, <1>6, <1>7, <2>1
<1>14. ASSUME y.ws[w].active = n.focus PROVE Lead(y.ws[w], V) /\ ~Single
  <2>1. CASE Off(n, Q) = {}
    <3>1. y.ws[w] = n.ws[w] BY <1>8, <2>1 DEF Laid, w
    <3>2. n.focus = v BY <1>1, <1>11, <1>14, <3>1
    <3> QED BY <1>16, <3>2
  <2>2. CASE Off(n, Q) = {v}
    <3>1. y.ws[w] = ChangeViewTrack(AddView(x, v, j), v, j, k, FALSE)
      <4>1. y.ws[w] = Moved(n, v) BY <1>8, <2>2 DEF Laid, w
      <4> QED BY <1>1, <4>1 DEF Moved, w, j
    <3>2. k \in TrackLayers BY DEF TrackFor, TrackLayers
    <3>3. n.view[v].free \in BOOLEAN /\ Right(n, v) \in BOOLEAN /\ n.view[v].free # Right(n, v)
      <4>1. v \in Off(n, Q) BY <2>2
      <4>2. n.view[v] \in ViewRecords BY <1>2, <1>6, SitsFacts
      <4>3. Right(n, v) \in BOOLEAN BY <4>2, KindFree DEF Right, ViewRecords
      <4> QED BY <4>1, <4>2, <4>3 DEF Off, ViewRecords
    <3>4. j # k BY <1>6, <3>3 DEF TrackFor, FREE, TILE
    <3>5. W # {}
      <4>1. ASSUME W = {} PROVE FALSE
        <5>1. n.focus = Null BY <1>1, <1>13, <4>1 DEF Owned
        <5>2. V # {} BY <1>1
        <5>3. y.ws[w].active \in V BY <1>12, <5>2 DEF Owned
        <5> QED BY <1>6, <1>7, <1>14, <4>1, <5>1, <5>3
      <4> QED BY <4>1
    <3> HIDE DEF k
    <3>6. ChangeViewTrack(AddView(x, v, j), v, j, k, FALSE).active = x.active
      BY <1>1, <1>14, <3>1
    <3>7. Lead(ChangeViewTrack(AddView(x, v, j), v, j, k, FALSE), W \cup {v})
      BY <1>1, <1>6, <1>7, <3>2, <3>4, <3>5, <3>6, MovedLeads
    <3>8. Lead(y.ws[w], V) BY <1>7, <3>1, <3>7
    <3>9. ASSUME Single PROVE FALSE
      <4>1. k = FREE /\ \A u \in V : y.view[u].free
        <5>1. \A u : Right(n, u) /\ Right(y, u) BY <3>9, SingleFree DEF Right
        <5>2. \A u \in V : y.view[u].free = Right(y, u) /\ y.view[u].free \in BOOLEAN
          <6>1. \A u \in V : u \in Views BY DEF V, Here, ViewsAt
          <6>2. y \in Sits(K, l, y.focus, Q) BY <1>8, BaseFacts
          <6>3. \A u \in V : y.view[u] \in ViewRecords BY <6>1, <6>2, SitsFacts
          <6> QED BY <1>8, <1>9, <6>3 DEF Off, Here, ViewRecords
        <5> QED BY <5>1, <5>2 DEF k, TrackFor
      <4>2. y \in Sits(K, l, y.focus, Q) /\ w \in Workspaces BY <1>2, <1>8, BaseFacts
      <4>3. Divided(y, Q, w) BY <4>2, SiteShared
      <4>4. ViewsAt(Q, w) = V BY DEF V, Here, w
      <4> DEFINE U == TracksAt(y, Q, w)
                 z == y.ws[w]
      <4>5. /\ Parts(V, U) /\ z \in Sited(V, IconsAt(Q, w), U)
            /\ \A u \in V : Tracked(y, Q, w, u)
        BY <4>3, <4>4 DEF Divided
      <4> HIDE DEF U
      <4>6. Locked(z, V) /\ V # {} BY <1>1, <3>8 DEF Lead
      <4>7. z.trackLayer \in TrackLayers /\ z.active \in U[z.trackLayer] /\ z.active \in V
        <5>1. z.trackLayer \in TrackLayers /\ z.active \in U[z.trackLayer]
          <6> HIDE DEF z
          <6> QED BY <4>5, <4>6, LockedFacts
        <5> QED BY <4>6, <5>1 DEF Locked, Owned
      <4>8. z.trackLayer = FREE
        <5>1. y.view[z.active].layer = FREE BY <4>1, <4>5, <4>7 DEF Tracked
        <5> QED BY <4>5, <4>7, <5>1 DEF Tracked, U
      <4>9. z.active = ActiveElement(z.tracks[FREE]) BY <4>6, <4>8 DEF Locked
      <4>10. ActiveElement(z.tracks[k]) = v
        <5> DEFINE a  == AddView(x, v, j)
                   T1 == TracksAt(n, Q, w)
        <5>1. n.ws[w] \in Sited(V, IconsAt(Q, w), T1) /\ Parts(V, T1) /\ v \in T1[j]
          BY <1>4, <1>5, <4>4 DEF Divided, Tracked, j
        <5>2. a \in Sited(V, IconsAt(Q, w), T1) BY <1>1, <5>1
        <5> HIDE DEF a, T1
        <5>3. Crossed(ChangeViewTrack(a, v, j, k, FALSE), a, V, k, v)
          BY <1>6, <3>2, <3>4, <5>1, <5>2, ChangeTrackOwned
        <5> QED BY <3>1, <5>3 DEF Crossed, a
      <4> QED BY <1>14, <1>16, <4>1, <4>9, <4>10
    <3> QED BY <3>8, <3>9
  <2> QED BY <1>1, <2>1, <2>2
<1>17. Bright(y, Q) /\ Dim(y, Q)
  <2>1. Lightened(y, n, Q) BY <1>3, LayoutLightens
  <2> QED BY <2>1 DEF Lightened, Arrives
<1>15. y \in Ready(K, l, Q) BY <1>8, <1>9, <1>10, <1>12, <1>14, <1>17 DEF Ready
<1>18. Current(y).active = y.focus => ~Single BY <1>8, <1>9, <1>14
<1> QED BY <1>8, <1>15, <1>17, <1>18 DEF y, w, Welcomes

\* A view on its way arrives: a hidden workspace only notes it as active.
Waits(y, m, v, w, Q, P) ==
  /\ y.view = m.view /\ y.focus = m.focus /\ Off(y, Q) = {} /\ Calm(y, Q)
  /\ Current(y) = Current(m) /\ Here(y, Q) = Here(m, P) /\ y.ws[w].active = v
LEMMA JoinReady ==
  ASSUME NEW K, K \subseteq Views, NEW l, NEW P, NEW m \in Loose(K, l, P), NEW v \in K,
         NEW w \in Workspaces, P[v].in = "none", P[v].ws = w, NEW Q, Q[v] = Arrived(P[v], w),
         \A u \in Views \ {v} : Q[u] = P[u], w = m.workspace => m \in Steady(K, l, P)
  PROVE  /\ JoinWorkspace(m, v, w) \in Base(K, l, Q)
         /\ JoinWorkspace(m, v, w).workspace = m.workspace
         /\ w = m.workspace => Welcomes(JoinWorkspace(m, v, w), K, l, Q)
         /\ w # m.workspace => Waits(JoinWorkspace(m, v, w), m, v, w, Q, P)
<1> DEFINE V == ViewsAt(P, w)
           I == IconsAt(P, w)
           T == TracksAt(m, P, w)
           j == m.view[v].layer
           s == m.ws[w]
           x == AddView(s, v, j)
           y == [m EXCEPT !.ws[w] = x]
<1>1. /\ m \in Base(K, l, P) /\ Off(m, P) = {} /\ Calm(m, P) /\ Lead(Current(m), Here(m, P))
      /\ Bright(m, P)
  BY DEF Loose
<1>2. /\ m \in Sits(K, l, m.focus, P) /\ m.workspace \in Workspaces /\ m \in Home(K, l, P)
      /\ m \in Fit(K, l) /\ Standing(m, P) /\ m \in ModelRecords(CyclesOver(Views, K), K)
  BY <1>1, BaseFacts
<1>3. v \in Views /\ v \notin V /\ j \in TrackLayers BY <1>2, KnownFit DEF ViewsAt
<1>4. Divided(m, P, w) BY <1>2, SiteShared
<1>5. Parts(V, T) /\ s \in Sited(V, I, T) BY <1>4 DEF Divided
<1>6. With(m, v, w) = y BY DEF With
<1>7. With(m, v, w) \in Home(K, l, Q) BY <1>2, WithHome
<1> HIDE DEF V, I, T, j, s
<1>8. /\ Locked(x, V \cup {v}) /\ x.active = v /\ x.kind = s.kind
  <2>1. /\ Locked(AddView(s, v, j), V \cup {v})
        /\ AddView(s, v, j).active = v /\ AddView(s, v, j).trackLayer = j
        /\ AddView(s, v, j).track = s.track /\ AddView(s, v, j).kind = s.kind
        /\ AddView(s, v, j).tracks = [s.tracks EXCEPT ![j] = InsertAtBack(s.tracks[j], v)]
        /\ AddView(s, v, j).views = InsertAtBack(s.views, v)
    BY <1>3, <1>5, AddViewLeads
  <2> QED BY <2>1
<1> HIDE DEF x
<1>9. /\ Aside(y, m) /\ y.view = m.view /\ y.ws[w] = x /\ y.focus = m.focus
      /\ \A u \in Workspaces \ {w} : y.ws[u] = m.ws[u]
  BY <1>2, WsSet
<1> HIDE DEF y
<1>10. /\ DifferIn(v, y, Q, m, P) /\ Q[v].ws = w /\ Q[v].in = "view" /\ Q[v].state = P[v].state
  BY <1>9 DEF DifferIn, Arrived
<1>11. Turns(y, m, v, Q, P)
  <2>1. \A u \in Workspaces : y.ws[u].kind = m.ws[u].kind BY <1>8, <1>9 DEF s
  <2>2. Q[v].state # "unmapped" => y.view[v].managed BY <1>2, <1>3, <1>9, <1>10 DEF Standing
  <2> QED BY <1>9, <1>10, <2>1, <2>2 DEF Turns
<1>12. y \in Base(K, l, Q) /\ y.workspace = m.workspace
  BY <1>1, <1>3, <1>6, <1>7, <1>11, TurnsBase
<1>13. Off(y, Q) \subseteq {v} /\ (w # m.workspace => Off(y, Q) = {})
  BY <1>1, <1>3, <1>10, <1>12, OffChange
<1>14. ViewsAt(Q, w) = V \cup {v} BY <1>3, <1>10, ViewsChange DEF V
<1>15. ASSUME NEW u \in Workspaces, u # w PROVE ViewsAt(Q, u) = ViewsAt(P, u) /\ y.ws[u] = m.ws[u]
  <2>1. ViewsAt(Q, u) = ViewsAt(P, u) \ {v} /\ v \notin ViewsAt(P, u)
    BY <1>3, <1>10, <1>15, ViewsChange
  <2> QED BY <1>9, <1>15, <2>1
<1>16. Calm(y, Q) BY <1>1, <1>8, <1>9, <1>12, <1>14, <1>15 DEF Calm
<1>17. JoinWorkspace(m, v, w) = ApplyLayout(y, w) BY <1>6 DEF JoinWorkspace, With
<1>18. CASE w = m.workspace
  <2>1. m.focus = Current(m).active BY <1>18, SteadyReady
  <2>2. Here(y, Q) = V \cup {v} /\ Here(y, Q) \ {v} = V /\ Here(m, P) = V
    BY <1>3, <1>12, <1>14, <1>18 DEF Here, V
  <2>3. Current(m) = s /\ Current(y) = x BY <1>9, <1>12, <1>18 DEF Current, s
  <2>4. x = AddView(s, v, y.view[v].layer) BY <1>9 DEF x, j
  <2>7. \A u \in Views : y.view[u].mapped /\ Q[u].in = "view" => Q[u].ws = y.workspace
    <3>1. \A u \in Views : m.view[u].mapped /\ P[u].in = "view" => P[u].ws = m.workspace
      BY <1>1 DEF Bright, Dim
    <3> QED BY <1>9, <1>10, <1>12, <1>18, <3>1
  <2>8. Lit(y) BY <1>1, <1>9 DEF Bright, Lit
  <2>5. Arrives(y, v, s, I, T, Q)
    BY <1>1, <1>5, <1>9, <1>13, <1>16, <2>1, <2>2, <2>3, <2>4, <2>7, <2>8 DEF Arrives
  <2>6. Welcomes(LaidOut(y), K, l, Q) /\ LaidOut(y).workspace = y.workspace
    BY <1>12, <2>5, ArriveReady
  <2>9. LaidOut(y) \in Base(K, l, Q) BY <2>6 DEF Welcomes, Ready
  <2> QED BY <1>12, <1>17, <1>18, <2>6, <2>9 DEF LaidOut
<1>19. CASE w # m.workspace
  <2>1. Current(y) = Current(m) /\ Here(y, Q) = Here(m, P)
    BY <1>2, <1>12, <1>15, <1>19 DEF Current, Here
  <2>3. ApplyLayout(y, w) = y
    <3>1. y \in Sound(K) /\ Anchored(y) BY <1>12, BaseFacts
    <3>2. ~IsVisible(y, w) BY <1>12, <1>19, <3>1, AnchoredSees
    <3> QED BY <3>2 DEF ApplyLayout
  <2>4. Waits(y, m, v, w, Q, P) BY <1>8, <1>9, <1>13, <1>16, <1>19, <2>1 DEF Waits
  <2> QED BY <1>12, <1>17, <1>19, <2>3, <2>4
<1> QED BY <1>18, <1>19

\* It is shown or hidden where it is.
Staged(n, m, v, b, K, l, P) ==
  /\ n \in Base(K, l, P) /\ Shown(n, m, v, b) /\ Lamp(n, m, v, b)
  /\ n.workspace = m.workspace /\ Current(n) = Current(m) /\ Here(n, P) = Here(m, P)
  /\ Off(m, P) = {} => Off(n, P) = {}
  /\ Calm(m, P) => Calm(n, P)
LEMMA ShowBase ==
  ASSUME NEW K, K \subseteq Views, NEW l, NEW P, NEW m \in Base(K, l, P), NEW v \in Views,
         P[v].in = "view", NEW b
  PROVE  Staged(Show(m, v, b), m, v, b, K, l, P)
<1> DEFINE n == Show(m, v, b)
<1>1. m \in Sits(K, l, m.focus, P) /\ m \in ModelRecords(CyclesOver(Views, K), K)
  BY BaseFacts
<1>2. n \in Sits(K, l, m.focus, P) BY <1>1, ShowSits
<1>3. Shown(n, m, v, b) /\ Lamp(n, m, v, b) BY <1>1, ShowQuiet
<1> HIDE DEF n
<1>4. /\ Aside(n, m) /\ n.ws = m.ws /\ n.focus = m.focus
      /\ \A u \in Views : Same(n.view[u], m.view[u])
      /\ \A u \in Views \ {v} : n.view[u] = m.view[u]
      /\ n.view[v].mapped => b \/ m.view[v].mapped
  BY <1>3 DEF Shown, Quiet
<1>5. Stands(n, m, P) BY <1>4 DEF Stands, Same
<1>6. n \in Base(K, l, P) /\ n.workspace = m.workspace /\ Here(n, P) = Here(m, P)
  BY <1>2, <1>5, BaseOn
<1>7. \A u \in Views : /\ n.view[u].free = m.view[u].free
                       /\ n.view[u].floating = m.view[u].floating
  BY <1>4 DEF Same, Alike
<1>8. Off(m, P) = {} => Off(n, P) = {} BY <1>6, <1>7 DEF Off, Right, ViewsAt
<1>9. Calm(m, P) => Calm(n, P) BY <1>4, <1>6 DEF Calm
<1>10. Current(n) = Current(m) BY <1>4, <1>6 DEF Current
<1> QED BY <1>3, <1>6, <1>8, <1>9, <1>10 DEF n, Staged

LEMMA ShowWelcomed ==
  ASSUME NEW K, K \subseteq Views, NEW l, NEW P, NEW m, Welcomes(m, K, l, P),
         NEW v \in Here(m, P)
  PROVE  Map(m, v) \in Ready(K, l, P) /\ Map(m, v).workspace = m.workspace
<1> DEFINE n == Map(m, v)
<1>1. /\ m \in Base(K, l, P) /\ Off(m, P) = {} /\ Calm(m, P) /\ Owned(Current(m), Here(m, P))
      /\ Dim(m, P) /\ Bright(m, P)
      /\ Current(m).active = m.focus => Lead(Current(m), Here(m, P)) /\ ~Single
  BY DEF Welcomes, Ready
<1>2. v \in Views /\ P[v].in = "view" /\ P[v].ws = m.workspace BY DEF Here, ViewsAt
<1>12. n = Show(m, v, TRUE) BY DEF Show
<1> HIDE DEF n
<1>11. Staged(n, m, v, TRUE, K, l, P) BY <1>1, <1>2, <1>12, ShowBase
<1>3. /\ n \in Base(K, l, P) /\ Shown(n, m, v, TRUE) /\ Lamp(n, m, v, TRUE)
      /\ n.workspace = m.workspace /\ Current(n) = Current(m) /\ Here(n, P) = Here(m, P)
      /\ Off(n, P) = {} /\ Calm(n, P)
  BY <1>1, <1>11 DEF Staged
<1>4. /\ n.focus = m.focus /\ n.view[v].mapped /\ n.view[v].focused = m.view[v].focused
      /\ \A u \in Views \ {v} : n.view[u] = m.view[u]
  BY <1>3 DEF Shown, Lamp
<1>5. Dim(n, P)
  <2>1. \A u \in Here(m, P) : u \in Views BY DEF Here, ViewsAt
  <2> QED BY <1>1, <1>2, <1>3, <1>4, <2>1 DEF Dim
<1>6. m.focus \in Views \cup {Null} BY <1>1, BaseFacts
<1>7. Lit(n) BY <1>1, <1>4, <1>6 DEF Bright, Lit
<1>8. n.focus \in Here(n, P) => n.view[n.focus].mapped
  <2>1. m.focus \in Here(m, P) => m.view[m.focus].mapped BY <1>1 DEF Bright
  <2>2. \A u \in Views : m.view[u].mapped => n.view[u].mapped BY <1>4
  <2>3. \A u \in Here(m, P) : u \in Views BY DEF Here, ViewsAt
  <2> QED BY <1>3, <1>4, <2>1, <2>2, <2>3
<1>9. ~Single => Bright(n, P) BY <1>5, <1>7, <1>8 DEF Bright
<1>10. n \in Ready(K, l, P) BY <1>1, <1>3, <1>4, <1>5, <1>9 DEF Ready
<1> QED BY <1>3, <1>10 DEF n

Hides(n, m, v, w, K, l, Q, P) ==
  /\ n \in Ready(K, l, Q) /\ n.workspace = m.workspace /\ n.ws[w].active = v
  /\ m \in Steady(K, l, P) => n \in Steady(K, l, Q)
LEMMA HideWaiting ==
  ASSUME NEW K, K \subseteq Views, NEW l, NEW P, NEW m \in Loose(K, l, P), NEW v \in K,
         NEW w \in Workspaces, P[v].in = "none", NEW Q, Q[v] = Arrived(P[v], w),
         \A u \in Views \ {v} : Q[u] = P[u], NEW y \in Base(K, l, Q), y.workspace = m.workspace,
         w # m.workspace, Waits(y, m, v, w, Q, P)
  PROVE  Hides(Show(y, v, FALSE), m, v, w, K, l, Q, P)
<1> DEFINE n == Show(y, v, FALSE)
<1>1. /\ m \in Base(K, l, P) /\ Lead(Current(m), Here(m, P)) /\ Bright(m, P) /\ Dim(m, P)
      /\ Owned(Current(m), Here(m, P))
  BY DEF Loose, Bright, Lead, Locked
<1>2. v \in Views /\ Q[v].in = "view" /\ Q[v].ws = w BY DEF Arrived
<1>3. /\ y.view = m.view /\ y.focus = m.focus /\ Off(y, Q) = {} /\ Calm(y, Q)
      /\ Current(y) = Current(m) /\ Here(y, Q) = Here(m, P) /\ y.ws[w].active = v
  BY DEF Waits
<1>12. Staged(n, y, v, FALSE, K, l, Q) BY <1>2, ShowBase
<1>4. /\ n \in Base(K, l, Q) /\ Shown(n, y, v, FALSE) /\ Lamp(n, y, v, FALSE)
      /\ n.workspace = y.workspace /\ Current(n) = Current(y) /\ Here(n, Q) = Here(y, Q)
      /\ Off(n, Q) = {} /\ Calm(n, Q)
  BY <1>3, <1>12 DEF Staged
<1> HIDE DEF n
<1>5. /\ n.focus = m.focus /\ ~n.view[v].mapped /\ n.ws = y.ws
      /\ \A u \in Views \ {v} : n.view[u] = m.view[u]
      /\ n.workspace = m.workspace /\ Current(n) = Current(m) /\ Here(n, Q) = Here(m, P)
  BY <1>3, <1>4 DEF Shown, Quiet, Lamp
<1>6. v \notin Here(m, P) /\ \A u \in Here(m, P) : u \in Views BY DEF Here, ViewsAt
<1>7. Dim(n, Q) BY <1>1, <1>5, <1>6 DEF Dim
<1>8. m.focus \in Views \cup {Null} /\ v # Null BY <1>1, <1>2, BaseFacts, NullFresh
<1>9. ASSUME Current(n).active = n.focus PROVE Bright(n, Q)
  <2>1. n.focus # v
    <3>1. Current(m).active \in Here(m, P) \cup {Null} BY <1>1 DEF Owned
    <3> QED BY <1>5, <1>6, <1>8, <1>9, <3>1
  <2>2. Lit(n) BY <1>1, <1>5, <1>8, <2>1 DEF Bright, Lit
  <2>3. Single => \A u \in Here(n, Q) : n.view[u].mapped => u = n.focus
    BY <1>1, <1>5, <1>6 DEF Bright
  <2>4. n.focus \in Here(n, Q) => n.view[n.focus].mapped
    BY <1>1, <1>5, <1>6 DEF Bright
  <2> QED BY <1>7, <2>2, <2>3, <2>4 DEF Bright
<1>10. n \in Ready(K, l, Q) BY <1>1, <1>4, <1>5, <1>7, <1>9 DEF Ready
<1>11. ASSUME m \in Steady(K, l, P) PROVE n \in Steady(K, l, Q)
  <2>1. m.focus = Current(m).active BY <1>11, SteadyReady
  <2> QED BY <1>1, <1>4, <1>5, <1>9, <2>1 DEF Steady
<1> QED BY <1>3, <1>5, <1>10, <1>11 DEF n, Hides

LEMMA ArriveSteady ==
  ASSUME NEW K, K \subseteq Views, NEW l, NEW P, NEW m \in Loose(K, l, P), NEW v \in K,
         NEW w \in Workspaces, P[v].in = "none", P[v].ws = w, NEW Q, Q[v] = Arrived(P[v], w),
         \A u \in Views \ {v} : Q[u] = P[u], w = m.workspace => m \in Steady(K, l, P)
  PROVE  /\ SyncFocus(ShowIfVisible(JoinWorkspace(m, v, w), v)) \in Steady(K, l, Q)
         /\ SyncFocus(ShowIfVisible(JoinWorkspace(m, v, w), v)).workspace = m.workspace
         /\ w # m.workspace /\ m \in Steady(K, l, P) =>
              SyncFocus(ShowIfVisible(JoinWorkspace(m, v, w), v)).ws[w].active = v
<1> DEFINE j == JoinWorkspace(m, v, w)
           s == Show(j, v, IsVisible(j, w))
<1>1. /\ j \in Base(K, l, Q) /\ j.workspace = m.workspace
      /\ w = m.workspace => Welcomes(j, K, l, Q)
      /\ w # m.workspace => Waits(j, m, v, w, Q, P)
  BY JoinReady
<1>2. v \in Views /\ Q[v].in = "view" /\ Q[v].ws = w BY DEF Arrived
<1>3. ShowIfVisible(j, v) = s
  <2>1. j \in Sits(K, l, j.focus, Q) BY <1>1, BaseFacts
  <2>2. InPlace(j.view[v], Q[v]) BY <1>2, <2>1, SitsFacts
  <2>3. j.view[v].ws = w BY <1>2, <2>2 DEF InPlace
  <2> QED BY <2>3 DEF ShowIfVisible
<1>4. IsVisible(j, w) <=> w = j.workspace
  <2>1. j \in Sound(K) /\ Anchored(j) BY <1>1, BaseFacts
  <2> QED BY <2>1, AnchoredSees
<1> HIDE DEF j
<1>5. CASE w = m.workspace
  <2>1. v \in Here(j, Q) BY <1>1, <1>2, <1>5 DEF Here, ViewsAt
  <2>2. s = Map(j, v) BY <1>1, <1>4, <1>5 DEF Show
  <2> HIDE DEF s
  <2>5. Welcomes(j, K, l, Q) BY <1>1, <1>5
  <2>3. s \in Ready(K, l, Q) /\ s.workspace = j.workspace
    BY <2>1, <2>2, <2>5, ShowWelcomed
  <2>4. SyncFocus(s) \in Steady(K, l, Q) /\ SyncFocus(s).workspace = m.workspace
    BY <1>1, <2>3, SyncFocusSteady
  <2> QED BY <1>3, <1>5, <2>4 DEF j
<1>6. CASE w # m.workspace
  <2>1. s = Show(j, v, FALSE) BY <1>1, <1>4, <1>6 DEF Show
  <2> HIDE DEF s
  <2>5. Waits(j, m, v, w, Q, P) BY <1>1, <1>6
  <2>6. Hides(Show(j, v, FALSE), m, v, w, K, l, Q, P)
    BY <1>1, <1>6, <2>5, HideWaiting
  <2>2. /\ s \in Ready(K, l, Q) /\ s.workspace = m.workspace
        /\ m \in Steady(K, l, P) => s \in Steady(K, l, Q)
        /\ s.ws[w].active = v
    BY <2>1, <2>6 DEF Hides
  <2>3. SyncFocus(s) \in Steady(K, l, Q) /\ SyncFocus(s).workspace = m.workspace
    BY <2>2, SyncFocusSteady
  <2>4. m \in Steady(K, l, P) => SyncFocus(s) = s BY <2>2, SteadyReady
  <2> QED BY <1>3, <2>2, <2>3, <2>4 DEF j
<1> QED BY <1>5, <1>6

\* A view sent to another workspace.
LEMMA MoveSteady ==
  ASSUME NEW K, K \subseteq Views, NEW l, NEW P \in [Views -> Spots], NEW m \in Steady(K, l, P),
         NEW v \in K, P[v].in = "view", P[v].state # "unmapped", NEW to \in Workspaces
  PROVE  MoveViewToWorkspace(m, v, to)
           \in Steady(K, l, IF to = P[v].ws THEN P ELSE [P EXCEPT ![v] = Arrived(P[v], to)])
<1> DEFINE o == m.view[v]
           w == P[v].ws
           r == [o EXCEPT !.ws = to]
           n == [m EXCEPT !.view[v] = r]
           R == [P EXCEPT ![v] = Underway(P[v], to)]
           Q == [P EXCEPT ![v] = Arrived(P[v], to)]
           left == LeaveWorkspace(n, v, w)
<1>1. m \in Base(K, l, P) BY SteadyReady
<1>2. /\ m \in Sits(K, l, m.focus, P) /\ m \in Fit(K, l) /\ Standing(m, P)
      /\ m \in ModelRecords(CyclesOver(Views, K), K)
  BY <1>1, BaseFacts
<1>3. /\ o.ws \in Workspaces /\ w = o.ws /\ o.layer \in TrackLayers /\ o \in ViewRecords
      /\ InPlace(o, P[v])
  <2>1. /\ m.view[v].ws \in Workspaces /\ P[v].ws = m.view[v].ws
        /\ m.view[v].layer \in TrackLayers /\ m.view[v] \in ViewRecords
        /\ InPlace(m.view[v], P[v])
        /\ m.ws[m.view[v].ws] \in Shaped(Views, K)
        /\ m.ws[m.view[v].ws] \in Site(m, P, m.view[v].ws)
    BY <1>2, KnownSits
  <2> QED BY <2>1
<1>4. v \in Views /\ P[v] \in Spots /\ o.managed BY <1>2 DEF Standing
<1>5. o.focused => v = m.focus BY <1>2, <1>4, FitStill, ViewFacts
<1>6. /\ r \in ViewRecords /\ r.ws = to /\ (r.focused => v = m.focus) /\ r.layer = o.layer
      /\ r.state = o.state /\ r.free = o.free /\ r.fullscreen = o.fullscreen /\ r.managed
      /\ r.focused = o.focused
  BY <1>3, <1>4, <1>5 DEF ViewRecords
<1>7. MoveViewToWorkspace(m, v, to) =
        IF to = w THEN m ELSE SyncFocus(ShowIfVisible(JoinWorkspace(left, v, to), v))
  BY <1>3 DEF MoveViewToWorkspace
<1> HIDE DEF r
<1>8. n \in Fit(K, l)
  <2>1. K \cup {v} = K OBVIOUS
  <2> QED BY <1>2, <1>4, <1>6, <2>1, NullFresh, NewcomerFit
<1>9. /\ Aside(n, m) /\ n.ws = m.ws /\ n.view[v] = r /\ n.focus = m.focus
      /\ \A u \in Views \ {v} : n.view[u] = m.view[u]
  BY <1>2, <1>4, ViewSet
<1>10. /\ R[v].in = "none" /\ R[v].ws = to /\ R[v].state = P[v].state
       /\ \A u \in Views \ {v} : R[u] = P[u]
  BY <1>4 DEF Underway
<1>11. Q[v] = Arrived(R[v], to) /\ \A u \in Views \ {v} : Q[u] = R[u]
  BY <1>4, <1>10 DEF Arrived
<1> HIDE DEF n, R, Q
<1>12. DifferIn(v, n, R, m, P) BY <1>9, <1>10 DEF DifferIn
<1>13. InPlace(n.view[v], R[v]) BY <1>3, <1>6, <1>9, <1>10, NullFresh DEF InPlace
<1>14. Departs(n, m, v, w, R, P) BY <1>6, <1>9, <1>10, <1>12, <1>13 DEF Departs
<1>15. w \in Workspaces BY <1>3
<1> HIDE DEF o, w
<1>16. /\ left \in Loose(K, l, R) /\ left.workspace = m.workspace
       /\ w # m.workspace => left \in Steady(K, l, R)
  BY <1>8, <1>14, <1>15, LeaveLoose
<1> HIDE DEF left
<1>17. CASE to = w BY <1>7, <1>17 DEF w
<1>18. CASE to # w
  <2>1. to = left.workspace => left \in Steady(K, l, R) BY <1>16, <1>18
  <2>2. SyncFocus(ShowIfVisible(JoinWorkspace(left, v, to), v)) \in Steady(K, l, Q)
    BY <1>10, <1>11, <1>16, <2>1, ArriveSteady
  <2> QED BY <1>7, <1>18, <2>2 DEF Q, w
<1> QED BY <1>17, <1>18

\* The view just added leads its track.
LEMMA RegisteredSteady ==
  ASSUME NEW K, K \subseteq Views, NEW l, NEW P, NEW m \in Steady(K, l, P), NEW v \in K,
         P[v].in = "view", P[v].ws # m.workspace => m.ws[P[v].ws].active = v
  PROVE  Registered(m, v) \in Steady(K, l, P)
<1> DEFINE w == m.view[v].ws
           k == m.view[v].layer
           s == m.ws[w]
           x == ChangeViewTrack(s, v, k, k, TRUE)
           n == [m EXCEPT !.ws[w] = x]
           V == ViewsAt(P, w)
           I == IconsAt(P, w)
           T == TracksAt(m, P, w)
<1>1. /\ m \in Base(K, l, P) /\ Off(m, P) = {} /\ Calm(m, P)
      /\ Lead(Current(m), Here(m, P)) /\ m.focus = Current(m).active
  BY SteadyReady
<1>2. /\ m \in Sits(K, l, m.focus, P) /\ m \in ModelRecords(CyclesOver(Views, K), K)
      /\ m.workspace \in Workspaces
  BY <1>1, BaseFacts
<1>3. /\ w \in Workspaces /\ P[v].ws = w /\ k \in TrackLayers /\ m.view[v] \in ViewRecords
      /\ s \in Shaped(Views, K) /\ s \in Site(m, P, w)
  <2>1. /\ m.view[v].ws \in Workspaces /\ P[v].ws = m.view[v].ws
        /\ m.view[v].layer \in TrackLayers /\ m.view[v] \in ViewRecords
        /\ InPlace(m.view[v], P[v])
        /\ m.ws[m.view[v].ws] \in Shaped(Views, K)
        /\ m.ws[m.view[v].ws] \in Site(m, P, m.view[v].ws)
    BY <1>2, KnownSits
  <2> QED BY <2>1
<1>4. Divided(m, P, w) BY <1>2, <1>3, SiteShared
<1>5. v \in V BY <1>3 DEF ViewsAt
<1>6. Parts(V, T) /\ s \in Sited(V, I, T) /\ v \in T[k] BY <1>4, <1>5 DEF Divided, Tracked
<1>7. MoveViewToTrack(m, v, k, TRUE) = n
  <2>1. [m EXCEPT !.ws[w] = x, !.view[v].layer = k] = [n EXCEPT !.view[v] = [m.view[v] EXCEPT !.layer = k]]
    OBVIOUS
  <2>2. [m.view[v] EXCEPT !.layer = k] = m.view[v] BY <1>3 DEF ViewRecords
  <2>3. n.view = m.view /\ v \in Views BY <1>2 DEF ModelRecords
  <2>4. n \in ModelRecords(CyclesOver(Views, K), K)
    <3>1. x \in Shaped(Views, K) BY <1>3, ChangeViewTrackShape
    <3> HIDE DEF x
    <3> QED BY <1>2, <1>3, <3>1 DEF ModelRecords, Shaped
  <2> HIDE DEF n
  <2>5. [n EXCEPT !.view[v] = m.view[v]] = n BY <2>3, <2>4 DEF ModelRecords
  <2> QED BY <2>1, <2>2, <2>5 DEF MoveViewToTrack, n
<1>8. x \in Shaped(Views, K) BY <1>3, ChangeViewTrackShape
<1>9. x \in Site(m, P, w) BY <1>3, SiteTypes, ChangeTrackSited DEF Site
<1> HIDE DEF s, V, I, T, k
<1>10. /\ Resumes(x, s, V)
       /\ Locked(s, V) /\ s.active = v => Locked(x, V)
  <2>1. Parts(V, T) /\ s \in Sited(V, I, T) /\ k \in TrackLayers /\ v \in T[k] BY <1>3, <1>6
  <2> HIDE DEF x
  <2>2. Shifted(ChangeViewTrack(s, v, k, k, TRUE), s, v, V) BY <2>1, ShiftLeads
  <2> QED BY <2>2 DEF x, Shifted
<1>11. Registered(m, v) = SyncFocus(n) BY <1>7 DEF Registered, k
<1> HIDE DEF x, w
<1>12. CASE w = m.workspace
  <2>1. n = OnWorkspace(m, x) BY <1>12 DEF OnWorkspace
  <2>2. Settles(m, K, P) BY SteadySettles
  <2>3. x \in Site(m, P, m.workspace) BY <1>9, <1>12
  <2>4. Resumes(x, Current(m), Here(m, P)) BY <1>10, <1>12 DEF Current, Here, s, V
  <2>5. Succeeds(x, m, K, P) BY <1>8, <2>2, <2>3, <2>4, LeadsSucceed
  <2>6. SyncFocus(OnWorkspace(m, x)) \in Steady(K, l, P) BY <2>5, OnWorkspaceSteady
  <2> QED BY <1>11, <2>1, <2>6
<1>13. CASE w # m.workspace
  <2>1. /\ Aside(n, m) /\ n.view = m.view /\ n.ws[w] = x /\ n.focus = m.focus
        /\ \A u \in Workspaces \ {w} : n.ws[u] = m.ws[u]
    BY <1>2, <1>3, WsSet
  <2>2. n \in Sits(K, l, m.focus, P) BY <1>2, <1>3, <1>8, <1>9, SetWsSits
  <2>3. x.kind = m.ws[w].kind BY <1>10 DEF Resumes, s
  <2>4. Stands(n, m, P) BY <1>2, <1>3, <2>3, StandsWs
  <2> HIDE DEF n
  <2>5. n \in Base(K, l, P) /\ n.workspace = m.workspace /\ Here(n, P) = Here(m, P)
    BY <1>1, <2>2, <2>4, BaseOn
  <2>6. Off(n, P) = {} BY <1>1, <2>1, <2>5 DEF Off, Right
  <2>7. s.active = v BY <1>3, <1>13 DEF s
  <2>8. Locked(s, V) BY <1>1, <1>3, <1>13 DEF Calm, s, V
  <2>9. Locked(n.ws[w], ViewsAt(P, w)) BY <1>10, <2>1, <2>7, <2>8 DEF V
  <2>10. Calm(n, P) BY <1>1, <2>1, <2>5, <2>9 DEF Calm
  <2>11. Current(n) = Current(m) BY <1>2, <1>13, <2>1, <2>5 DEF Current
  <2>14. Bright(n, P)
    <3>1. Bright(m, P) BY SteadyReady
    <3> QED BY <2>1, <2>5, <3>1, BrightOn
  <2>12. n \in Steady(K, l, P) BY <1>1, <2>1, <2>5, <2>6, <2>10, <2>11, <2>14 DEF Steady
  <2>13. SyncFocus(n) = n BY <2>12, SteadyReady
  <2> QED BY <1>11, <2>12, <2>13
<1> QED BY <1>12, <1>13

\* A view that is in no container changes: nothing else does.
LEMMA NewcomerSteady ==
  ASSUME NEW K, K \subseteq Views, NEW l, NEW P, NEW m \in Steady(K, l, P), NEW v \in Views,
         NEW J, J \subseteq Views, NEW R, NEW n \in Home(J, l, R), Aside(n, m), n.ws = m.ws,
         n.focus = m.focus, DifferIn(v, n, R, m, P), R[v].in = "none",
         R[v].state # "unmapped" => n.view[v].managed,
         \A w \in Workspaces : P[v].ws # w \/ P[v].in # "view"
  PROVE  n \in Steady(J, l, R) /\ n.workspace = m.workspace
<1>1. /\ m \in Base(K, l, P) /\ Off(m, P) = {} /\ Calm(m, P)
      /\ Lead(Current(m), Here(m, P)) /\ m.focus = Current(m).active
  BY SteadyReady
<1>2. m.workspace \in Workspaces BY <1>1, BaseFacts
<1>3. Turns(n, m, v, R, P) BY DEF Turns
<1>4. n \in Base(J, l, R) /\ n.workspace = m.workspace BY <1>1, <1>3, TurnsBase
<1>5. Off(n, R) = {} BY <1>1, <1>4, OffChange
<1>6. ASSUME NEW w \in Workspaces PROVE ViewsAt(R, w) = ViewsAt(P, w)
  <2>1. /\ P[v].ws # w \/ P[v].in # "view" => v \notin ViewsAt(P, w)
        /\ R[v].ws # w \/ R[v].in # "view" => ViewsAt(R, w) = ViewsAt(P, w) \ {v}
        /\ R[v].ws = w /\ R[v].in = "view" => ViewsAt(R, w) = ViewsAt(P, w) \cup {v}
    BY ViewsChange
  <2> QED BY <2>1
<1>7. Calm(n, R) BY <1>1, <1>4, <1>6 DEF Calm
<1>8. Current(n) = Current(m) /\ Here(n, R) = Here(m, P) BY <1>2, <1>4, <1>6 DEF Current, Here
<1>9. v # m.focus
  <2>1. Owned(Current(m), Here(m, P)) BY <1>1 DEF Lead, Locked
  <2>2. m.focus \in Here(m, P) \cup {Null} BY <1>1, <2>1 DEF Owned
  <2> QED BY <1>2, <2>2, NullFresh DEF Here, ViewsAt
<1>10. Bright(n, R)
  <2>1. m.focus \in Views \cup {Null} /\ Bright(m, P) BY <1>1, BaseFacts, SteadyReady
  <2> QED BY <1>4, <1>9, <2>1, BrightWithout
<1> QED BY <1>1, <1>4, <1>5, <1>7, <1>8, <1>10 DEF Steady

\* A window that maps for the first time.
LEMMA RegisterSteady ==
  ASSUME NEW K, K \subseteq Views, NEW l, NEW P \in [Views -> Spots], Settled(P),
         NEW m \in Steady(K, l, P), NEW v \in Views, m.view[v].state = "gone",
         NEW asked \in Workspaces, OutputOf(m, asked) # Null,
         NEW rules \in RuleRecords, rules.float = Null, ~rules.fullscreen
  PROVE  \E to \in Workspaces :
           RegisterView(m, v, asked, rules)
             \in Steady(K \cup {v}, l, [P EXCEPT ![v] = [in |-> "view", ws |-> to, state |-> "mapped"]])
<1> DEFINE o == m.view[v]
           output == OutputOf(m, asked)
           context == IF rules.context # Null THEN rules.context ELSE m.out[output]
           to == IF rules.workspace # Null THEN WorkspaceAt(context, rules.workspace)
                 ELSE m.ctx[context].active
           k == IF rules.float = TRUE THEN FREE ELSE TILE
           b == IF rules.float # Null THEN rules.float ELSE rules.prefersFloating
           r == [o EXCEPT !.state = "mapped", !.mapped = TRUE, !.layer = k, !.floating = b]
           mapped == [m EXCEPT !.view[v].state = "mapped", !.view[v].mapped = TRUE,
                               !.view[v].layer = k, !.view[v].floating = b]
           J == K \cup {v}
           there == MoveViewToWorkspace(mapped, v, to)
           s == [r EXCEPT !.ws = to]
           n == [m EXCEPT !.view[v] = s]
           R == [P EXCEPT ![v] = [in |-> "none", ws |-> to, state |-> "mapped"]]
           Q == [P EXCEPT ![v] = [in |-> "view", ws |-> to, state |-> "mapped"]]
<1>1. m \in Base(K, l, P) BY SteadyReady
<1>2. /\ m \in Fit(K, l) /\ m \in Home(K, l, P) /\ Standing(m, P)
      /\ m \in ModelRecords(CyclesOver(Views, K), K)
  BY <1>1, BaseFacts
<1>3. Placed(m, P) BY <1>2 DEF Home
<1>4. k = TILE /\ b \in BOOLEAN BY NullAssumption DEF RuleRecords
<1>5. RegisterView(m, v, asked, rules) = Registered(there, v) BY DEF RegisterView
<1>6. mapped = [m EXCEPT !.view[v] = r]
  <2>1. v \in DOMAIN m.view /\ "view" \in DOMAIN m BY <1>2 DEF ModelRecords
  <2> HIDE DEF k, b
  <2> QED BY <2>1
<1> HIDE DEF k, b, mapped
<1>7. context \in Contexts
  <2>1. CASE rules.context # Null BY <2>1 DEF RuleRecords
  <2>2. CASE rules.context = Null BY <1>2, <2>2, OutputOfLive
  <2> QED BY <2>1, <2>2
<1> HIDE DEF context
<1>8. to \in Workspaces
  <2>1. rules.workspace # Null => rules.workspace \in 0..(NWorkspaces - 1) BY DEF RuleRecords
  <2>2. m.ctx[context].active \in Workspaces BY <1>2, <1>7, FitStill, ShownWorkspace
  <2> QED BY <1>7, <2>1, <2>2, WorkspaceAtType
<1> HIDE DEF to
<1>9. o \in ViewRecords /\ (o.focused => v = m.focus) /\ InPlace(o, P[v])
  BY <1>2, <1>3, FitStill, ViewFacts DEF Placed
<1>10. P[v].state = "gone" /\ P[v].ws = Null /\ o.ws = Null BY <1>9 DEF InPlace, Settled
<1>11. ~o.free /\ ~o.fullscreen /\ o.managed BY <1>2, <1>9, <1>10 DEF InPlace, Standing
<1>12. TILE \in TrackLayers BY DEF TrackLayers
<1>13. /\ r \in ViewRecords /\ r.ws = Null /\ (r.focused => v = m.focus) /\ r.managed
       /\ r.state = "mapped" /\ r.layer = TILE /\ ~r.free /\ ~r.fullscreen
  BY <1>4, <1>9, <1>10, <1>11, <1>12 DEF ViewRecords
<1> HIDE DEF o, r
<1>14. /\ s \in ViewRecords /\ s.ws = to /\ (s.focused => v = m.focus) /\ s.managed
       /\ s.state = "mapped" /\ s.layer = TILE /\ ~s.free /\ ~s.fullscreen
  BY <1>8, <1>13 DEF ViewRecords
<1>15. [mapped EXCEPT !.view[v].ws = to] = n BY <1>2, <1>6 DEF ModelRecords
<1>16. mapped.view[v].ws = Null BY <1>2, <1>6, <1>13 DEF ModelRecords
<1> HIDE DEF s
<1>17. n \in Fit(J, l) BY <1>2, <1>8, <1>14, NullFresh, NewcomerFit
<1>18. /\ Aside(n, m) /\ n.ws = m.ws /\ n.view[v] = s /\ n.focus = m.focus
       /\ \A u \in Views \ {v} : n.view[u] = m.view[u]
  BY <1>2, ViewSet
<1>19. /\ R[v].in = "none" /\ R[v].ws = to /\ R[v].state = "mapped"
       /\ \A u \in Views \ {v} : R[u] = P[u]
  OBVIOUS
<1>20. /\ Q[v] = Arrived(R[v], to)
       /\ Q[v].in = "view" /\ Q[v].ws = to
       /\ \A u \in Views \ {v} : Q[u] = R[u]
  BY DEF Arrived
<1> HIDE DEF n, R, Q
<1>21. DifferIn(v, n, R, m, P) BY <1>18, <1>19 DEF DifferIn
<1>22. InPlace(n.view[v], R[v]) BY <1>8, <1>14, <1>18, <1>19, NullFresh DEF InPlace
<1>23. \A w \in Workspaces : P[v].ws # w BY <1>10, NullFresh
<1>24. Placed(n, R) BY <1>3, <1>18, <1>19, <1>21, <1>22, <1>23, NowherePlaced
<1>25. v \in J /\ J \subseteq Views OBVIOUS
<1> HIDE DEF J
<1>26. n \in Home(J, l, R) BY <1>17, <1>24 DEF Home
<1>27. n.view[v].managed BY <1>14, <1>18
<1>28. n \in Steady(J, l, R) /\ n.workspace = m.workspace
  BY <1>18, <1>19, <1>21, <1>23, <1>25, <1>26, <1>27, NewcomerSteady
<1>29. there = SyncFocus(ShowIfVisible(JoinWorkspace(n, v, to), v))
  <2>1. to # Null BY <1>8, NullFresh
  <2> QED BY <1>15, <1>16, <2>1 DEF MoveViewToWorkspace, LeaveWorkspace
<1>30. n \in Loose(J, l, R) BY <1>28, SteadyLoose
<1> HIDE DEF there
<1>31. /\ there \in Steady(J, l, Q) /\ there.workspace = m.workspace
       /\ to # m.workspace => there.ws[to].active = v
  <2> DEFINE a == SyncFocus(ShowIfVisible(JoinWorkspace(n, v, to), v))
  <2>1. /\ a \in Steady(J, l, Q) /\ a.workspace = n.workspace
        /\ to # n.workspace /\ n \in Steady(J, l, R) => a.ws[to].active = v
    BY <1>8, <1>19, <1>20, <1>25, <1>28, <1>30, ArriveSteady
  <2> QED BY <1>28, <1>29, <2>1
<1>32. Registered(there, v) \in Steady(J, l, Q) BY <1>20, <1>25, <1>31, RegisteredSteady
<1> QED BY <1>5, <1>8, <1>32 DEF J, Q

\* A workspace laid out is the one on display, or nothing is done to it.
LEMMA ApplyLayoutSteady ==
  ASSUME NEW K, K \subseteq Views, NEW l, NEW P, NEW m \in Steady(K, l, P), NEW w \in Workspaces
  PROVE  ApplyLayout(m, w) \in Steady(K, l, P)
<1>1. m \in Sound(K) /\ Anchored(m) BY SteadyReady, BaseFacts
<1>2. IsVisible(m, w) <=> w = m.workspace BY <1>1, AnchoredSees
<1> QED BY <1>2, LaidOutSteady DEF ApplyLayout, LaidOut

\* A window that unmaps. The output it is laid out on is there.
LEMMA UnregisterSteady ==
  ASSUME NEW K, K \subseteq Views, NEW l, NEW P \in [Views -> Spots], NEW m \in Steady(K, l, P),
         NEW v \in K, P[v].state = "mapped"
  PROVE  UnregisterView(m, v)
           \in Steady(K, l, [P EXCEPT ![v] = [in |-> "none", ws |-> P[v].ws, state |-> "unmapped"]])
<1> DEFINE w == P[v].ws
           x == LeaveWorkspace(m, v, w)
           y == SyncFocus(x)
           r == [y.view[v] EXCEPT !.state = "unmapped", !.managed = FALSE]
           n == [y EXCEPT !.view[v] = r]
           R == [P EXCEPT ![v] = [in |-> "none", ws |-> w, state |-> "mapped"]]
           Q == [P EXCEPT ![v] = [in |-> "none", ws |-> w, state |-> "unmapped"]]
<1>1. m \in Base(K, l, P) BY SteadyReady
<1>2. /\ m \in Sits(K, l, m.focus, P) /\ m \in Fit(K, l) /\ Standing(m, P)
      /\ m \in ModelRecords(CyclesOver(Views, K), K) /\ v \in Views
  BY <1>1, BaseFacts
<1>3. m.view[v].ws = w /\ w \in Workspaces /\ InPlace(m.view[v], P[v])
  <2>1. /\ m.view[v].ws \in Workspaces /\ P[v].ws = m.view[v].ws
        /\ m.view[v].layer \in TrackLayers /\ m.view[v] \in ViewRecords
        /\ InPlace(m.view[v], P[v])
        /\ m.ws[m.view[v].ws] \in Shaped(Views, K)
        /\ m.ws[m.view[v].ws] \in Site(m, P, m.view[v].ws)
    BY <1>2, KnownSits
  <2> QED BY <2>1
<1> HIDE DEF w
<1>4. R[v].in = "none" /\ R[v].ws = w /\ R[v].state = "mapped" /\ \A u \in Views \ {v} : R[u] = P[u]
  BY <1>2
<1>5. Q[v].in = "none" /\ Q[v].ws = w /\ Q[v].state = "unmapped" /\ \A u \in Views \ {v} : Q[u] = P[u]
  BY <1>2
<1> HIDE DEF R, Q
<1>6. Departs(m, m, v, w, R, P)
  <2>1. InPlace(m.view[v], R[v]) BY <1>3, <1>4 DEF InPlace, w
  <2>2. m.view[v].managed BY <1>2 DEF Standing
  <2> QED BY <1>4, <2>1, <2>2 DEF Departs, DifferIn, Aside, w
<1>7. x \in Loose(K, l, R) BY <1>2, <1>3, <1>6, LeaveLoose
<1>8. UnregisterView(m, v) = IF x.output = Null THEN Crashed(x)
                             ELSE ApplyLayout([y EXCEPT !.view[v].state = "unmapped",
                                                        !.view[v].managed = FALSE],
                                              x.view[v].ws)
  BY <1>3 DEF UnregisterView, Unregistered
<1> HIDE DEF x
<1>9. x.output # Null /\ x.view[v].ws \in Workspaces
  <2>1. x \in Base(K, l, R) BY <1>7 DEF Loose
  <2>2. Anchored(x) /\ x \in Fit(K, l) BY <2>1, BaseFacts
  <2> QED BY <2>2, NullFresh, KnownFit DEF Anchored
<1>10. y \in Steady(K, l, R) BY <1>7, SteadyLoose, SyncFocusSteady
<1> HIDE DEF y
<1>11. y \in Base(K, l, R) BY <1>10, SteadyReady
<1>12. /\ y \in Fit(K, l) /\ y \in Home(K, l, R) /\ y \in ModelRecords(CyclesOver(Views, K), K)
  BY <1>11, BaseFacts
<1>13. Placed(y, R) BY <1>12 DEF Home
<1>14. [y EXCEPT !.view[v].state = "unmapped", !.view[v].managed = FALSE] = n
  <2>1. v \in DOMAIN y.view /\ "view" \in DOMAIN y BY <1>2, <1>12 DEF ModelRecords
  <2> QED BY <2>1
<1>15. y.view[v] \in ViewRecords /\ (y.view[v].focused => v = y.focus)
  BY <1>2, <1>12, FitStill, ViewFacts
<1>16. InPlace(y.view[v], R[v]) BY <1>2, <1>13 DEF Placed
<1>17. /\ r \in ViewRecords /\ r.ws = y.view[v].ws /\ (r.focused => v = y.focus)
       /\ r.state = "unmapped" /\ r.layer = y.view[v].layer /\ r.free = y.view[v].free
       /\ r.fullscreen = y.view[v].fullscreen
  BY <1>15 DEF ViewRecords
<1> HIDE DEF r
<1>18. n \in Fit(K, l) BY <1>2, <1>12, <1>17, SetView, FitStill
<1>19. /\ Aside(n, y) /\ n.ws = y.ws /\ n.view[v] = r /\ n.focus = y.focus
       /\ \A u \in Views \ {v} : n.view[u] = y.view[u]
  BY <1>2, <1>12, ViewSet
<1> HIDE DEF n
<1>20. DifferIn(v, n, Q, y, R) BY <1>4, <1>5, <1>19 DEF DifferIn
<1>21. InPlace(n.view[v], Q[v]) BY <1>4, <1>5, <1>16, <1>17, <1>19 DEF InPlace
<1>22. /\ Q[v].in = "none" /\ (Q[v].state # "unmapped" => n.view[v].managed)
       /\ \A u \in Workspaces : R[v].ws # u \/ R[v].in = "none"
       /\ \A u \in Workspaces : R[v].ws # u \/ R[v].in # "view"
  BY <1>4, <1>5
<1>23. Placed(n, Q) BY <1>2, <1>13, <1>19, <1>20, <1>21, <1>22, NowherePlaced
<1>24. n \in Home(K, l, Q) BY <1>18, <1>23 DEF Home
<1>25. n \in Steady(K, l, Q) BY <1>2, <1>10, <1>19, <1>20, <1>22, <1>24, NewcomerSteady
<1>26. ApplyLayout(n, x.view[v].ws) \in Steady(K, l, Q) BY <1>9, <1>25, ApplyLayoutSteady
<1> QED BY <1>8, <1>9, <1>14, <1>26 DEF Q, w

\* No workspace refers to a view that is in no container.
LEMMA NowhereUnreferenced ==
  ASSUME NEW K, K \subseteq Views, NEW l, NEW P, NEW m \in Steady(K, l, P), NEW v \in Views,
         P[v].in = "none"
  PROVE  ~Referenced(m, v)
<1>1. m \in Base(K, l, P) BY SteadyReady
<1>2. m \in Sits(K, l, m.focus, P) BY <1>1, BaseFacts
<1>3. Poised(m, m.context, P) /\ (m.focus # Null => m.focus \in Here(m, P)) BY SteadyPoised
<1>4. v # Null /\ \A w \in Workspaces : v \notin ViewsAt(P, w) /\ v \notin IconsAt(P, w)
  BY NullFresh DEF ViewsAt, IconsAt
<1>5. m.focus # v BY <1>1, <1>3, <1>4, BaseFacts DEF Here
<1>6. ASSUME NEW w \in Workspaces
      PROVE  /\ m.ws[w].active # v
             /\ \A c \in {m.ws[w].views, m.ws[w].icons} \cup Range(m.ws[w].tracks) : ~Contains(c, v)
  <2>1. Divided(m, P, w) BY <1>2, SiteShared
  <2> DEFINE V == ViewsAt(P, w)
             I == IconsAt(P, w)
             T == TracksAt(m, P, w)
             s == m.ws[w]
  <2>2. Parts(V, T) /\ s \in Sited(V, I, T) BY <2>1 DEF Divided
  <2>3. Locked(s, V) BY <1>3 DEF Poised
  <2>4. v \notin V /\ v \notin I BY <1>4
  <2> HIDE DEF V, I, T, s
  <2>5. s.active # v BY <1>4, <2>3, <2>4 DEF Locked, Owned
  <2>6. /\ Has(s.views, V) /\ Has(s.icons, I) /\ DOMAIN s.tracks = TrackLayers
        /\ \A k \in TrackLayers : Has(s.tracks[k], T[k]) /\ v \notin T[k]
    BY <2>2, <2>4 DEF Sited, Shaped, WorkspaceRecords, Parts
  <2>7. \A c \in {s.views, s.icons} \cup Range(s.tracks) : ~Contains(c, v)
    BY <2>4, <2>6 DEF Has, Contains, Range
  <2> QED BY <2>5, <2>7 DEF s
<1> QED BY <1>5, <1>6 DEF Referenced

\* A window that is destroyed.
LEMMA DestroySteady ==
  ASSUME NEW K, K \subseteq Views, NEW l, NEW P \in [Views -> Spots], NEW m \in Steady(K, l, P),
         NEW v \in Views, P[v].in = "none"
  PROVE  DestroyView(m, v)
           \in Steady(K \ {v}, l, [P EXCEPT ![v] = [in |-> "none", ws |-> Null, state |-> "gone"]])
<1> DEFINE n == [m EXCEPT !.view[v] = NewView]
           p == [in |-> "none", ws |-> Null, state |-> "gone"]
           Q == [P EXCEPT ![v] = p]
<1>1. m \in Base(K, l, P) BY SteadyReady
<1>2. /\ m \in Fit(K, l) /\ m \in Home(K, l, P) /\ Standing(m, P)
      /\ m \in ModelRecords(CyclesOver(Views, K), K)
  BY <1>1, BaseFacts
<1>3. Placed(m, P) BY <1>2 DEF Home
<1>4. ~Referenced(m, v) /\ ~m.down BY <1>2, NowhereUnreferenced DEF Standing
<1>5. DestroyView(m, v) = n
  <2>1. (m.down \/ Referenced(m, v)) = m.down
    <3>1. m.down \in BOOLEAN BY <1>2 DEF ModelRecords
    <3>2. m.down = FALSE BY <1>4, <3>1
    <3> QED BY <1>4, <3>2
  <2>2. [m EXCEPT !.view[v] = NewView, !.down = m.down \/ Referenced(m, v)] = n
    <3>1. [m EXCEPT !.view[v] = NewView, !.down = m.down] = n BY <1>2 DEF ModelRecords
    <3> QED BY <2>1, <3>1
  <2> QED BY <2>2 DEF DestroyView
<1>6. /\ Aside(n, m) /\ n.ws = m.ws /\ n.view[v] = NewView /\ n.focus = m.focus
      /\ \A u \in Views \ {v} : n.view[u] = m.view[u]
  BY <1>2, ViewSet
<1> HIDE DEF n
<1>7. n \in Fit(K \ {v}, l)
  <2>1. ~n.down BY <1>4, <1>6 DEF Aside
  <2>2. ~DestroyView(m, v).down BY <1>5, <2>1
  <2>3. DestroyView(m, v) \in Fit(K \ {v}, l) BY <1>2, <2>2, DestroyFit
  <2> QED BY <1>5, <2>3
<1>8. /\ Q[v].in = "none" /\ Q[v].ws = Null /\ Q[v].state = "gone" /\ Q[v] = p
      /\ \A u \in Views \ {v} : Q[u] = P[u]
  OBVIOUS
<1>9. InPlace(NewView, p) BY DEF NewView, InPlace
<1> HIDE DEF p, Q
<1>10. DifferIn(v, n, Q, m, P) BY <1>6, <1>8 DEF DifferIn
<1>11. InPlace(n.view[v], Q[v]) BY <1>6, <1>8, <1>9
<1>12. \A w \in Workspaces : P[v].ws # w \/ P[v].in = "none" OBVIOUS
<1>13. Placed(n, Q) BY <1>3, <1>6, <1>8, <1>10, <1>11, <1>12, NowherePlaced
<1>14. n \in Home(K \ {v}, l, Q) BY <1>7, <1>13 DEF Home
<1>15. /\ K \ {v} \subseteq Views /\ n.view[v].managed
       /\ \A w \in Workspaces : P[v].ws # w \/ P[v].in # "view"
  <2>1. NewView.managed BY DEF NewView
  <2> QED BY <1>6, <2>1
<1> DEFINE J == K \ {v}
<1>16. J \subseteq Views /\ n \in Home(J, l, Q) BY <1>14, <1>15
<1> HIDE DEF J
<1>17. n \in Steady(J, l, Q) BY <1>6, <1>8, <1>10, <1>15, <1>16, NewcomerSteady
<1> QED BY <1>5, <1>17 DEF J, Q, p

\* What set_iconify changes.
Framed(n, m, v, b) ==
  /\ Aside(n, m) /\ n.focus = m.focus
  /\ n.ws[m.view[v].ws] = IF b THEN ViewToIcon(m.ws[m.view[v].ws], v, m.view[v].layer)
                               ELSE IconToView(m.ws[m.view[v].ws], v, m.view[v].layer)
  /\ \A w \in Workspaces \ {m.view[v].ws} : n.ws[w] = m.ws[w]
  /\ \A u \in Views \ {v} : n.view[u] = m.view[u]
  /\ Same(n.view[v], m.view[v]) /\ n.view[v].mapped = m.view[v].mapped
  /\ n.view[v].focused = m.view[v].focused
LEMMA IconifiedFrame ==
  ASSUME NEW C, NEW K, NEW m \in ModelRecords(C, K), NEW v \in Views, m.view[v].ws \in Workspaces,
         NEW b
  PROVE  Framed(Iconified(m, v, b), m, v, b)
<1> DEFINE o == m.view[v]
           x == IF b THEN ViewToIcon(m.ws[o.ws], v, o.layer) ELSE IconToView(m.ws[o.ws], v, o.layer)
           r == [o EXCEPT !.iconified = b]
           n == [m EXCEPT !.ws[o.ws] = x, !.view[v] = r]
<1>1. Iconified(m, v, b) = n BY DEF Iconified
<1>2. o \in ViewRecords /\ o.ws \in Workspaces BY DEF ModelRecords
<1>3. Same(r, o) /\ r.mapped = o.mapped /\ r.focused = o.focused
  BY <1>2 DEF ViewRecords, Same, Alike
<1> HIDE DEF r, x, o
<1>4. /\ n.workspace = m.workspace /\ n.context = m.context /\ n.ctx = m.ctx
      /\ n.out = m.out /\ n.output = m.output
      /\ n.down = m.down /\ n.astray = m.astray /\ n.focus = m.focus
      /\ n.view[v] = r /\ \A u \in Views \ {v} : n.view[u] = m.view[u]
      /\ n.ws[o.ws] = x /\ \A w \in Workspaces \ {o.ws} : n.ws[w] = m.ws[w]
  BY <1>2 DEF ModelRecords
<1> HIDE DEF n
<1>5. Aside(n, m) BY <1>4 DEF Aside
<1>6. Framed(n, m, v, b) BY <1>3, <1>4, <1>5 DEF Framed, o, x
<1> QED BY <1>1, <1>6

\* Once laid out, a model whose current workspace leads only waits for its focus.
LEMMA LaidReady ==
  ASSUME NEW K, K \subseteq Views, NEW l, NEW P, NEW m \in Base(K, l, P), Off(m, P) = {},
         Calm(m, P), Lead(Current(m), Here(m, P)),
         \A u \in Views : m.view[u].mapped /\ P[u].in = "view" => P[u].ws = m.workspace,
         Current(m).active = m.focus => Lit(m)
  PROVE  LaidOut(m) \in Ready(K, l, P) /\ LaidOut(m).workspace = m.workspace
<1> DEFINE n == LaidOut(m)
<1>1. Rests(n, m, K, l, P) BY LayoutQuiet
<1>2. m.workspace \in Workspaces BY BaseFacts
<1> HIDE DEF n
<1>3. /\ n \in Base(K, l, P) /\ n.focus = m.focus /\ n.workspace = m.workspace
      /\ Off(n, P) = {} /\ \A w \in Workspaces : n.ws[w] = m.ws[w]
  BY <1>1 DEF Rests
<1>4. Current(n) = Current(m) /\ Here(n, P) = Here(m, P) /\ Calm(n, P)
  BY <1>2, <1>3 DEF Current, Here, Calm
<1>5. Dim(n, P) /\ (Lit(m) => Bright(n, P))
  <2>1. Lightened(n, m, P) BY <1>1, LayoutLightens
  <2> QED BY <2>1 DEF Lightened
<1>6. n \in Ready(K, l, P) BY <1>3, <1>4, <1>5 DEF Ready, Lead, Locked
<1> QED BY <1>3, <1>6 DEF n

\* A view of the current workspace becomes an icon.
LEMMA ToIconSteady ==
  ASSUME NEW K, K \subseteq Views, NEW l, NEW P \in [Views -> Spots], NEW m \in Steady(K, l, P),
         NEW v \in Here(m, P)
  PROVE  SetIconify(m, v, TRUE) \in Steady(K, l, P)
         \/ SetIconify(m, v, TRUE) \in Steady(K, l, [P EXCEPT ![v] = IconPlace(P[v], TRUE)])
<1> DEFINE w == m.workspace
           s == m.ws[w]
           j == m.view[v].layer
           V == ViewsAt(P, w)
           I == IconsAt(P, w)
           T == TracksAt(m, P, w)
           x == ViewToIcon(s, v, j)
           n == Iconified(m, v, TRUE)
           u == Unmap(n, v)
           Q == [P EXCEPT ![v] = IconPlace(P[v], TRUE)]
<1>1. /\ m \in Base(K, l, P) /\ Off(m, P) = {} /\ Calm(m, P)
      /\ Lead(Current(m), Here(m, P)) /\ m.focus = Current(m).active
  BY SteadyReady
<1>2. /\ m \in Sits(K, l, m.focus, P) /\ m \in Home(K, l, P) /\ Standing(m, P)
      /\ m \in ModelRecords(CyclesOver(Views, K), K) /\ w \in Workspaces
  BY <1>1, BaseFacts
<1>3. v \in Views /\ v \in K /\ m.view[v].ws = w /\ P[v].ws = w /\ P[v].in = "view"
  <2>1. /\ Here(m, P) \subseteq K
        /\ \A y \in Here(m, P) : m.view[y].ws = m.workspace /\ P[y].ws = m.workspace
    BY <1>1, HereFacts
  <2>2. v \in Views /\ P[v].in = "view" BY DEF Here, ViewsAt
  <2> QED BY <2>1, <2>2
<1>4. Divided(m, P, w) BY <1>2, SiteShared
<1>5. Tracked(m, P, w, v) BY <1>3, <1>4 DEF Divided, ViewsAt
<1>6. /\ Parts(V, T) /\ s \in Sited(V, I, T) /\ j \in TrackLayers
      /\ \A k \in TrackLayers : v \in T[k] => k = j
  BY <1>4, <1>5 DEF Divided, Tracked
<1>7. v \notin I BY <1>3 DEF IconsAt
<1>8. Lead(s, V) /\ Locked(s, V) BY <1>1 DEF Current, Here, Lead
<1>9. n \in Home(K, l, Q) BY <1>2, <1>3, IconifiedHome
<1>10. Framed(n, m, v, TRUE) BY <1>2, <1>3, IconifiedFrame
<1>11. SetIconify(m, v, TRUE) = IF m.view[v].iconified = TRUE THEN m
                                ELSE SyncFocus(ApplyLayout(u, w))
  BY <1>3 DEF SetIconify, Iconified
<1>12. /\ Q[v].ws = w /\ Q[v].in = "icon" /\ Q[v].state = P[v].state
       /\ \A y \in Views \ {v} : Q[y] = P[y]
  BY <1>3 DEF IconPlace, Spots
<1> HIDE DEF s, V, I, T, j, n, Q
<1>13. /\ Lead(ViewToIcon(s, v, j), V \ {v}) /\ ViewToIcon(s, v, j).kind = s.kind
  <2>1. /\ Locked(ViewToIcon(s, v, j), V \ {v})
        /\ Lead(s, V) => Lead(ViewToIcon(s, v, j), V \ {v})
        /\ ViewToIcon(s, v, j).kind = s.kind
    BY <1>6, <1>7, <1>8, ToIconLeads
  <2> QED BY <1>8, <2>1
<1> HIDE DEF x
<1>14. /\ Aside(n, m) /\ n.ws[w] = x /\ \A y \in Workspaces \ {w} : n.ws[y] = m.ws[y]
       /\ \A y \in Views \ {v} : n.view[y] = m.view[y]
       /\ n.view[v].managed = m.view[v].managed /\ n.focus = m.focus
  BY <1>3, <1>10 DEF Framed, Same, x, s, j
<1>15. u \in Home(K, l, Q) BY <1>3, <1>9, HomeSits, ShowSits
<1>16. Shown(u, n, v, FALSE) /\ Lamp(u, n, v, FALSE)
  <2>1. n \in Fit(K, l) BY <1>9 DEF Home
  <2>2. n \in ModelRecords(CyclesOver(Views, K), K) BY <2>1 DEF Fit, Sound
  <2> QED BY <1>3, <2>2, ShowQuiet
<1> HIDE DEF u
<1>17. /\ Aside(u, m) /\ u.ws = n.ws /\ \A y \in Views \ {v} : u.view[y] = m.view[y]
       /\ u.view[v].managed = m.view[v].managed /\ u.focus = m.focus /\ ~u.view[v].mapped
  BY <1>3, <1>14, <1>16 DEF Shown, Quiet, Aside, Same, Lamp
<1>18. DifferIn(v, u, Q, m, P) BY <1>12, <1>17 DEF DifferIn
<1>19. Turns(u, m, v, Q, P)
  <2>1. \A y \in Workspaces : u.ws[y].kind = m.ws[y].kind BY <1>13, <1>14, <1>17 DEF s, x
  <2>2. Q[v].state # "unmapped" => u.view[v].managed BY <1>2, <1>3, <1>12, <1>17 DEF Standing
  <2> QED BY <1>17, <1>18, <2>1, <2>2 DEF Turns
<1>20. u \in Base(K, l, Q) /\ u.workspace = w BY <1>1, <1>3, <1>15, <1>19, TurnsBase
<1>21. Off(u, Q) = {} BY <1>1, <1>3, <1>12, <1>18, <1>20, OffChange
<1>22. ViewsAt(Q, w) = V \ {v} BY <1>3, <1>12, <1>18, ViewsChange DEF V
<1>23. Lead(Current(u), Here(u, Q)) BY <1>13, <1>14, <1>17, <1>20, <1>22 DEF Current, Here, x
<1>24. Calm(u, Q)
  <2>1. ASSUME NEW y \in Workspaces, y # w PROVE ViewsAt(Q, y) = ViewsAt(P, y)
    <3>1. v \notin ViewsAt(P, y) /\ ViewsAt(Q, y) = ViewsAt(P, y) \ {v}
      BY <1>3, <1>12, <1>18, <2>1, ViewsChange
    <3> QED BY <3>1
  <2> QED BY <1>1, <1>14, <1>17, <1>20, <2>1 DEF Calm
<1>25. \A y \in Views : u.view[y].mapped /\ Q[y].in = "view" => Q[y].ws = u.workspace
  <2>1. Dim(m, P) BY SteadyReady
  <2>2. \A y \in Views : m.view[y].mapped /\ P[y].in = "view" => P[y].ws = m.workspace
    BY <2>1 DEF Dim
  <2> QED BY <1>12, <1>17, <1>20, <2>2
<1>28. ASSUME Current(u).active = u.focus PROVE Lit(u)
  <2>1. Owned(Current(u), Here(u, Q)) BY <1>23 DEF Lead, Locked
  <2>2. u.focus \in Here(u, Q) \cup {Null} BY <1>28, <2>1 DEF Owned
  <2>3. u.focus # v
    <3>1. v # Null BY <1>3, NullFresh
    <3> QED BY <1>12, <2>2, <3>1 DEF Here, ViewsAt
  <2>4. \A y \in Here(u, Q) : y \in Views BY DEF Here, ViewsAt
  <2>5. Lit(m) BY SteadyReady
  <2> QED BY <1>17, <2>2, <2>3, <2>4, <2>5 DEF Lit
<1>26. LaidOut(u) \in Ready(K, l, Q) BY <1>20, <1>21, <1>23, <1>24, <1>25, <1>28, LaidReady
<1>27. SyncFocus(ApplyLayout(u, w)) \in Steady(K, l, Q)
  BY <1>20, <1>26, SyncFocusSteady DEF LaidOut
<1> QED BY <1>11, <1>27 DEF Q

\* An icon of the current workspace becomes a view.
LEMMA ToViewSteady ==
  ASSUME NEW K, K \subseteq Views, NEW l, NEW P \in [Views -> Spots], NEW m \in Steady(K, l, P),
         NEW v \in K, P[v].in = "icon", P[v].ws = m.workspace
  PROVE  SetIconify(m, v, FALSE) \in Steady(K, l, P)
         \/ SetIconify(m, v, FALSE) \in Steady(K, l, [P EXCEPT ![v] = IconPlace(P[v], FALSE)])
<1> DEFINE w == m.workspace
           s == m.ws[w]
           j == m.view[v].layer
           V == ViewsAt(P, w)
           I == IconsAt(P, w)
           T == TracksAt(m, P, w)
           c == RemoveElement(s.icons, v)
           x == [s EXCEPT !.icons = c]
           n == Iconified(m, v, FALSE)
           Q == [P EXCEPT ![v] = IconPlace(P[v], FALSE)]
<1>1. /\ m \in Base(K, l, P) /\ Off(m, P) = {} /\ Calm(m, P)
      /\ Lead(Current(m), Here(m, P)) /\ m.focus = Current(m).active
  BY SteadyReady
<1>2. /\ m \in Sits(K, l, m.focus, P) /\ m \in Home(K, l, P) /\ Standing(m, P)
      /\ m \in ModelRecords(CyclesOver(Views, K), K) /\ w \in Workspaces
  BY <1>1, BaseFacts
<1>3. v \in Views /\ m.view[v].ws = w /\ j \in TrackLayers
  <2>1. /\ m.view[v].ws \in Workspaces /\ P[v].ws = m.view[v].ws
        /\ m.view[v].layer \in TrackLayers /\ m.view[v] \in ViewRecords
        /\ InPlace(m.view[v], P[v])
        /\ m.ws[m.view[v].ws] \in Shaped(Views, K)
        /\ m.ws[m.view[v].ws] \in Site(m, P, m.view[v].ws)
    BY <1>2, KnownSits
  <2> QED BY <2>1
<1>4. Divided(m, P, w) BY <1>2, SiteShared
<1>5. Parts(V, T) /\ s \in Sited(V, I, T) BY <1>4 DEF Divided
<1>6. v \in I /\ v \notin V BY <1>3 DEF IconsAt, ViewsAt
<1>7. n \in Home(K, l, Q) BY <1>2, IconifiedHome
<1>8. Framed(n, m, v, FALSE) BY <1>2, <1>3, IconifiedFrame
<1>9. SetIconify(m, v, FALSE) = IF m.view[v].iconified = FALSE THEN m
                                ELSE SyncFocus(ApplyLayout(n, w))
  BY <1>3 DEF SetIconify, Iconified
<1>10. /\ Q[v].ws = w /\ Q[v].in = "view" /\ Q[v].state = P[v].state
       /\ \A y \in Views \ {v} : Q[y] = P[y]
  BY <1>3 DEF IconPlace, Spots
<1>11. IconToView(s, v, j) = AddView(x, v, j)
  <2>1. Contains(s.icons, v) BY <1>5, <1>6 DEF Sited, Has, Contains
  <2> QED BY <2>1 DEF IconToView
<1> HIDE DEF s, V, I, T, j, n, Q
<1>12. Has(c, I \ {v})
  <2>1. Has(s.icons, I) BY <1>5 DEF Sited
  <2>2. "Forward" \in Directions /\ 0 \in Nat BY DEF Directions
  <2> QED BY <2>1, <2>2, HasKept
<1> HIDE DEF c
<1>13. x \in Sited(V, I \ {v}, T) BY <1>5, <1>12, IconsReplaced
<1>14. Lead(x, V) /\ x.kind = s.kind /\ x.active = s.active
  <2>1. s \in Shaped(Views, Views) BY <1>5 DEF Sited
  <2>2. /\ Lead(s, V) <=> Lead([s EXCEPT !.icons = c], V)
        /\ [s EXCEPT !.icons = c].kind = s.kind /\ [s EXCEPT !.icons = c].active = s.active
    BY <2>1, IconsLead
  <2>3. Lead(s, V) BY <1>1 DEF Current, Here, s, V
  <2> QED BY <2>2, <2>3
<1> HIDE DEF x
<1>15. AddView(x, v, j).kind = x.kind
  <2>1. v \in Views \ V BY <1>3, <1>6
  <2>2. /\ Locked(AddView(x, v, j), V \cup {v})
        /\ AddView(x, v, j).active = v /\ AddView(x, v, j).trackLayer = j
        /\ AddView(x, v, j).track = x.track /\ AddView(x, v, j).kind = x.kind
        /\ AddView(x, v, j).tracks = [x.tracks EXCEPT ![j] = InsertAtBack(x.tracks[j], v)]
        /\ AddView(x, v, j).views = InsertAtBack(x.views, v)
    BY <1>3, <1>5, <1>13, <2>1, AddViewLeads
  <2> QED BY <2>2
<1>16. /\ Aside(n, m) /\ n.ws[w] = AddView(x, v, j) /\ n.focus = m.focus
       /\ \A y \in Workspaces \ {w} : n.ws[y] = m.ws[y]
       /\ \A y \in Views \ {v} : n.view[y] = m.view[y]
       /\ n.view[v].managed = m.view[v].managed /\ n.view[v].layer = j
       /\ n.view[v].focused = m.view[v].focused
  BY <1>3, <1>8, <1>11 DEF Framed, Same, Alike, s, j
<1>17. DifferIn(v, n, Q, m, P) BY <1>10, <1>16 DEF DifferIn
<1>18. Turns(n, m, v, Q, P)
  <2>1. \A y \in Workspaces : n.ws[y].kind = m.ws[y].kind BY <1>14, <1>15, <1>16 DEF s
  <2>2. Q[v].state # "unmapped" => n.view[v].managed BY <1>2, <1>3, <1>10, <1>16 DEF Standing
  <2> QED BY <1>10, <1>16, <1>17, <2>1, <2>2 DEF Turns
<1>19. n \in Base(K, l, Q) /\ n.workspace = w BY <1>1, <1>3, <1>7, <1>18, TurnsBase
<1>20. Off(n, Q) \subseteq {v} BY <1>1, <1>3, <1>17, <1>19, OffChange
<1>21. ViewsAt(Q, w) = V \cup {v} BY <1>3, <1>10, <1>17, ViewsChange DEF V
<1>22. Calm(n, Q)
  <2>1. ASSUME NEW y \in Workspaces, y # w PROVE ViewsAt(Q, y) = ViewsAt(P, y)
    <3>1. v \notin ViewsAt(P, y) /\ ViewsAt(Q, y) = ViewsAt(P, y) \ {v}
      BY <1>3, <1>10, <1>17, <2>1, ViewsChange
    <3> QED BY <3>1
  <2> QED BY <1>1, <1>16, <1>19, <2>1 DEF Calm
<1>23. Arrives(n, v, x, I \ {v}, T, Q)
  <2>1. Here(n, Q) = V \cup {v} /\ Here(n, Q) \ {v} = V BY <1>6, <1>19, <1>21 DEF Here
  <2>2. Current(n) = AddView(x, v, n.view[v].layer) BY <1>16, <1>19 DEF Current
  <2>3. x.active = n.focus BY <1>1, <1>14, <1>16 DEF Current, s
  <2>4. \A y \in Views : n.view[y].mapped /\ Q[y].in = "view" => Q[y].ws = n.workspace
    <3>1. Dim(m, P) BY SteadyReady
    <3>2. \A y \in Views : m.view[y].mapped /\ P[y].in = "view" => P[y].ws = m.workspace
      BY <3>1 DEF Dim
    <3> QED BY <1>10, <1>16, <1>19, <3>2
  <2>5. Lit(n)
    <3>1. Lit(m) /\ m.focus \in Views \cup {Null} BY <1>1, BaseFacts, SteadyReady
    <3> QED BY <1>16, <3>1 DEF Lit
  <2> QED BY <1>5, <1>13, <1>14, <1>20, <1>22, <2>1, <2>2, <2>3, <2>4, <2>5 DEF Arrives
<1>24. LaidOut(n) \in Ready(K, l, Q) BY <1>19, <1>23, ArriveReady DEF Welcomes
<1>25. SyncFocus(ApplyLayout(n, w)) \in Steady(K, l, Q)
  BY <1>19, <1>24, SyncFocusSteady DEF LaidOut
<1> QED BY <1>9, <1>25 DEF Q

\* A view that is no icon is told that it is none.
LEMMA KeepViewSteady ==
  ASSUME NEW K, K \subseteq Views, NEW l, NEW P \in [Views -> Spots], NEW m \in Steady(K, l, P),
         NEW v \in Here(m, P)
  PROVE  SetIconify(m, v, FALSE) \in Steady(K, l, P)
<1> DEFINE w == m.workspace
           s == m.ws[w]
           n == Iconified(m, v, FALSE)
           p == IconPlace(P[v], FALSE)
<1>1. m \in Base(K, l, P) BY SteadyReady
<1>2. /\ m \in Sits(K, l, m.focus, P) /\ m \in Home(K, l, P) /\ w \in Workspaces
      /\ m \in ModelRecords(CyclesOver(Views, K), K)
  BY <1>1, BaseFacts
<1>3. v \in Views /\ v \in K /\ m.view[v].ws = w /\ P[v].ws = w /\ P[v].in = "view"
  <2>1. /\ Here(m, P) \subseteq K
        /\ \A u \in Here(m, P) : m.view[u].ws = m.workspace /\ P[u].ws = m.workspace
    BY <1>1, HereFacts
  <2>2. v \in Views /\ P[v].in = "view" BY DEF Here, ViewsAt
  <2> QED BY <2>1, <2>2
<1>4. p = P[v] /\ [P EXCEPT ![v] = p] = P
  <2>1. p = P[v] BY <1>3 DEF IconPlace, Spots
  <2> QED BY <2>1
<1>5. n \in Home(K, l, P)
  <2>1. n \in Home(K, l, [P EXCEPT ![v] = p]) BY <1>2, <1>3, IconifiedHome
  <2> QED BY <1>4, <2>1
<1>6. Framed(n, m, v, FALSE) BY <1>2, <1>3, IconifiedFrame
<1>7. IconToView(s, v, m.view[v].layer) = s
  <2>1. Divided(m, P, w) BY <1>2, SiteShared
  <2>2. s \in Sited(ViewsAt(P, w), IconsAt(P, w), TracksAt(m, P, w)) BY <2>1 DEF Divided
  <2>3. ~Contains(s.icons, v) BY <1>3, <2>2 DEF Sited, Has, Contains, IconsAt
  <2> QED BY <2>3 DEF IconToView
<1>8. SetIconify(m, v, FALSE) = IF m.view[v].iconified = FALSE THEN m
                                ELSE SyncFocus(ApplyLayout(n, w))
  BY <1>3 DEF SetIconify, Iconified
<1> HIDE DEF n
<1>9. Mute(n, m) /\ n.focus = m.focus /\ n.workspace = w
  <2>1. \A u \in Workspaces : n.ws[u] = m.ws[u] BY <1>3, <1>6, <1>7 DEF Framed
  <2>2. n.ws = m.ws
    <3>1. n \in Fit(K, l) BY <1>5 DEF Home
    <3>2. n \in ModelRecords(CyclesOver(Views, K), K) BY <3>1 DEF Fit, Sound
    <3> QED BY <1>2, <2>1, <3>2 DEF ModelRecords
  <2>3. \A u \in Views : Same(n.view[u], m.view[u]) /\ n.view[u].mapped = m.view[u].mapped
    BY <1>6 DEF Framed, Same, Alike
  <2> QED BY <1>6, <2>2, <2>3 DEF Framed, Mute, Quiet, Aside
<1>10. n \in Sits(K, l, m.focus, P) BY <1>5, <1>9, HomeSits
<1>14. Bright(n, P)
  <2>1. Bright(m, P) /\ m.focus \in Views \cup {Null} BY <1>1, BaseFacts, SteadyReady
  <2>2. Glows(n, m) BY <1>6 DEF Framed, Glows
  <2> QED BY <1>9, <2>1, <2>2, BrightAlike
<1>11. n \in Steady(K, l, P) BY <1>9, <1>10, <1>14, MuteSteady
<1>12. LaidOut(n) \in Steady(K, l, P) BY <1>11, LaidOutSteady
<1>13. SyncFocus(ApplyLayout(n, w)) \in Steady(K, l, P)
  BY <1>9, <1>12, SteadyReady DEF LaidOut
<1> QED BY <1>8, <1>13

----------------------------------------------------------------------------
(* Composed models: steady ones, whose views are where their state says.    *)

Firm(P) == Settled(P) /\ \A v \in Views : P[v].state # "mapped" => P[v].in = "none"

Composed(K, l) == {m \in Fit(K, l) :
                     \E P \in [Views -> Spots] : Firm(P) /\ m \in Steady(K, l, P)}

LEMMA ComposedSteady ==
  ASSUME NEW K, NEW l, NEW m
  PROVE  m \in Composed(K, l) <=> \E P \in [Views -> Spots] : Firm(P) /\ m \in Steady(K, l, P)
BY DEF Composed, Steady, Base, Home

LEMMA FirmOn ==
  ASSUME NEW P \in [Views -> Spots], Firm(P), NEW v \in Views, NEW p \in Spots,
         (p.state = "mapped") <=> (p.in # "none"), p.state = "gone" => p.ws = Null
  PROVE  [P EXCEPT ![v] = p] \in [Views -> Spots] /\ Firm([P EXCEPT ![v] = p])
<1>1. Settled(P) BY DEF Firm
<1>2. [P EXCEPT ![v] = p] \in [Views -> Spots] /\ Settled([P EXCEPT ![v] = p])
  BY <1>1, SettledOn
<1> QED BY <1>2 DEF Firm

\* The view a binding acts on is a view of its workspace.
LEMMA ActedOn ==
  ASSUME NEW K, K \subseteq Views, NEW l, NEW P \in [Views -> Spots], Firm(P),
         NEW m \in Steady(K, l, P), NEW v \in Views
  PROVE  /\ m.view[v].state = P[v].state
         /\ P[v].state = "mapped" => v \in K
         /\ v = m.focus => v \in Here(m, P) /\ P[v].in = "view" /\ P[v].state = "mapped"
         /\ m.view[v].state = "mapped" /\ m.view[v].mapped =>
              P[v].in = "view" /\ P[v].state = "mapped"
<1>1. m \in Base(K, l, P) BY SteadyReady
<1>2. /\ m \in Home(K, l, P) /\ m \in Fit(K, l) /\ Standing(m, P) BY <1>1, BaseFacts
<1>3. InPlace(m.view[v], P[v]) BY <1>2 DEF Home, Placed
<1>4. m.view[v].state = P[v].state BY <1>3 DEF InPlace
<1>5. P[v].state = "mapped" => v \in K BY <1>2, <1>4, FitStill, ViewFacts
<1>6. ASSUME v = m.focus PROVE v \in Here(m, P) /\ P[v].in = "view" /\ P[v].state = "mapped"
  <2>1. v \in Here(m, P) BY <1>6, SteadyPoised, NullFresh
  <2>2. P[v].in = "view" BY <2>1 DEF Here, ViewsAt
  <2> QED BY <2>1, <2>2 DEF Firm
<1>7. ASSUME m.view[v].state = "mapped", m.view[v].mapped
      PROVE  P[v].in = "view" /\ P[v].state = "mapped"
  <2>1. P[v].in # "icon" BY <1>2, <1>7 DEF Standing
  <2>2. P[v].in # "none" BY <1>4, <1>7 DEF Firm, Settled
  <2> QED BY <1>4, <1>7, <2>1, <2>2 DEF Spots
<1> QED BY <1>4, <1>5, <1>6, <1>7

\* Icons come and go.
LEMMA IconifyComposed ==
  ASSUME NEW K, K \subseteq Views, NEW l, NEW m \in Composed(K, l), NEW b \in BOOLEAN
  PROVE  m.focus # Null => SetIconify(m, m.focus, b) \in Composed(K, l)
<1> DEFINE v == m.focus
<1>1. PICK P \in [Views -> Spots] : Firm(P) /\ m \in Steady(K, l, P) BY ComposedSteady
<1>2. SUFFICES ASSUME v # Null PROVE SetIconify(m, v, b) \in Composed(K, l) OBVIOUS
<1>3. m \in Base(K, l, P) BY <1>1, SteadyReady
<1>4. v \in Views BY <1>2, <1>3, BaseFacts
<1>5. v \in Here(m, P) /\ P[v].in = "view" /\ P[v].state = "mapped" BY <1>1, <1>4, ActedOn
<1> HIDE DEF v
<1>6. CASE b = FALSE
  <2>1. SetIconify(m, v, FALSE) \in Steady(K, l, P) BY <1>1, <1>5, KeepViewSteady
  <2> QED BY <1>1, <1>6, <2>1, ComposedSteady
<1>7. CASE b = TRUE
  <2> DEFINE p == IconPlace(P[v], TRUE)
             Q == [P EXCEPT ![v] = p]
             n == SetIconify(m, v, TRUE)
  <2>1. n \in Steady(K, l, P) \/ n \in Steady(K, l, Q) BY <1>1, <1>5, ToIconSteady
  <2>2. P[v] \in Spots BY <1>4
  <2>3. p \in Spots /\ p.in = "icon" /\ p.state = "mapped" BY <1>5, <2>2 DEF IconPlace, Spots
  <2> HIDE DEF p, n
  <2>4. Q \in [Views -> Spots] /\ Firm(Q) BY <1>1, <1>4, <2>3, FirmOn
  <2> HIDE DEF Q
  <2>5. n \in Composed(K, l) BY <1>1, <2>1, <2>4, ComposedSteady
  <2> QED BY <1>7, <2>5 DEF n
<1> QED BY <1>6, <1>7

LEMMA PopComposed ==
  ASSUME NEW K, K \subseteq Views, NEW l, NEW m \in Composed(K, l)
  PROVE  PopDeiconify(m) \in Composed(K, l) /\ DeiconifyAll(m) \in Composed(K, l)
<1>1. ASSUME NEW n \in Composed(K, l) PROVE PopDeiconify(n) \in Composed(K, l)
  <2> DEFINE v == PopIcon(Current(n))
             w == n.workspace
  <2>1. PICK P \in [Views -> Spots] : Firm(P) /\ n \in Steady(K, l, P) BY ComposedSteady
  <2>2. n \in Base(K, l, P) BY <2>1, SteadyReady
  <2>3. n \in Sits(K, l, n.focus, P) /\ w \in Workspaces /\ n \in Fit(K, l) BY <2>2, BaseFacts
  <2>4. v \in K \cup {Null} BY <2>3, CurrentFit, PopIconType
  <2>5. Divided(n, P, w) BY <2>3, SiteShared
  <2>6. Has(Current(n).icons, IconsAt(P, w)) BY <2>5 DEF Divided, Sited, Current
  <2>7. v # Null => v \in IconsAt(P, w)
    <3>1. ASSUME Size(Current(n).icons) # 0
          PROVE  Current(n).icons.elements[Size(Current(n).icons)] \in IconsAt(P, w)
      <4> DEFINE c == Current(n).icons
      <4>1. /\ Size(c) \in Nat /\ Size(c) = Len(c.elements)
            /\ (Size(c) = 0) <=> (IconsAt(P, w) = {})
            /\ (Size(c) > 0) <=> (IconsAt(P, w) # {})
        BY <2>6, HasSize
      <4>2. Range(c.elements) = IconsAt(P, w) BY <2>6 DEF Has
      <4>5. DOMAIN c.elements = 1..Len(c.elements)
        BY <2>3, CurrentFit, ElementsOver DEF Shaped, WorkspaceRecords
      <4> HIDE DEF c
      <4>3. Size(c) \in DOMAIN c.elements BY <3>1, <4>1, <4>5 DEF c
      <4> QED BY <4>2, <4>3 DEF Range, c
    <3> QED BY <3>1 DEF PopIcon
  <2> HIDE DEF v
  <2>8. PopDeiconify(n) = IF v = Null THEN n ELSE SetIconify(n, v, FALSE)
    BY DEF PopDeiconify, v
  <2>9. ASSUME v # Null PROVE SetIconify(n, v, FALSE) \in Composed(K, l)
    <3> DEFINE p == IconPlace(P[v], FALSE)
               Q == [P EXCEPT ![v] = p]
               x == SetIconify(n, v, FALSE)
    <3>1. v \in K /\ v \in Views BY <2>4, <2>9
    <3>2. P[v].in = "icon" /\ P[v].ws = n.workspace BY <2>7, <2>9 DEF IconsAt
    <3>3. x \in Steady(K, l, P) \/ x \in Steady(K, l, Q) BY <2>1, <3>1, <3>2, ToViewSteady
    <3>4. P[v] \in Spots /\ P[v].state = "mapped" BY <2>1, <3>1, <3>2 DEF Firm
    <3>5. p \in Spots /\ p.in = "view" /\ p.state = "mapped" BY <3>2, <3>4 DEF IconPlace, Spots
    <3> HIDE DEF p, x
    <3>6. Q \in [Views -> Spots] /\ Firm(Q) BY <2>1, <3>1, <3>5, FirmOn
    <3> HIDE DEF Q
    <3>7. x \in Composed(K, l) BY <2>1, <3>3, <3>6, ComposedSteady
    <3> QED BY <3>7 DEF x
  <2> QED BY <2>8, <2>9
<1>2. DeiconifyAll(m) \in Composed(K, l)
  <2> DEFINE s == Current(m).icons.elements
  <2>1. m \in Fit(K, l) BY DEF Composed
  <2>2. Current(m).icons \in CyclesOver(Views, K) BY <2>1, CurrentFit DEF Shaped, WorkspaceRecords
  <2>3. s \in Seq(K) /\ DOMAIN s = 1..Len(s) BY <2>2, ElementsOver
  <2> HIDE DEF s
  <2>4. Len(s) \in Nat BY <2>3
  <2>5. \A x \in Composed(K, l), i \in 1..Len(s) : PopAnother(x, s[i]) \in Composed(K, l)
    BY <1>1 DEF PopAnother
  <2>6. SE!FoldLeft(PopAnother, m, s) \in Composed(K, l) BY <2>3, <2>4, <2>5, PopFold
  <2> QED BY <2>6 DEF DeiconifyAll, s
<1> QED BY <1>1, <1>2

----------------------------------------------------------------------------
(* A view floats, or is tiled again.                                        *)

Refloats(t, m, v, b) ==
  /\ Aside(t, m) /\ t.ws = m.ws /\ t.focus = m.focus
  /\ \A u \in Views \ {v} : t.view[u] = m.view[u]
  /\ Alike(t.view[v], m.view[v]) /\ t.view[v].managed = m.view[v].managed
  /\ t.view[v].mapped = m.view[v].mapped /\ t.view[v].focused = m.view[v].focused
  /\ t.view[v].floating = b

\* View::tile leaves the layer of a view in its place as it is.
LEMMA TileRefloats ==
  ASSUME NEW K, K \subseteq Views, NEW l, NEW P, NEW m \in Home(K, l, P), NEW v \in K,
         NEW b \in BOOLEAN
  PROVE  Refloats(Tile(m, v, b), m, v, b) /\ Tile(m, v, b) \in Sits(K, l, m.focus, P)
<1> DEFINE o == m.view[v]
           r == [o EXCEPT !.floating = b]
           t == [m EXCEPT !.view[v] = r]
           k == IF o.floating = b \/ o.free # b THEN o.layer ELSE IF b THEN FREE ELSE TILE
           q == [o EXCEPT !.floating = b, !.layer = k]
<1>1. m \in Sits(K, l, m.focus, P) /\ v \in Views BY HomeSits
<1>2. o \in ViewRecords /\ o.ws \in Workspaces /\ InPlace(o, P[v]) BY <1>1, KnownSits
<1>3. o.free \in BOOLEAN BY <1>2 DEF ViewRecords
<1>4. k = o.layer BY <1>2, <1>3 DEF InPlace
<1>5. v \in DOMAIN m.view /\ "view" \in DOMAIN m BY DEF Home, Fit, Sound, ModelRecords
<1>6. Tile(m, v, b) = [m EXCEPT !.view[v] = q] BY <1>5 DEF Tile
<1>7. q = r
  <2> HIDE DEF k, o
  <2> QED BY <1>2, <1>4 DEF ViewRecords
<1>8. Tile(m, v, b) = t BY <1>6, <1>7
<1>9. Resembles(r, o) /\ Alike(r, o) BY <1>2, FlagSet, FlagAlike
<1>10. /\ r.managed = o.managed /\ r.mapped = o.mapped /\ r.focused = o.focused
       /\ r.floating = b
  <2> HIDE DEF o
  <2> QED BY <1>2 DEF ViewRecords
<1> HIDE DEF r, q, k
<1>11. m \in Still(K, l, m.focus) /\ m \in ModelRecords(CyclesOver(Views, K), K)
  BY <1>1, SitsFacts
<1>12. t \in Still(K, l, m.focus) BY <1>9, <1>11, ResetView
<1>13. t \in Sits(K, l, m.focus, P) BY <1>1, <1>9, <1>12, SetViewSits
<1>14. /\ Aside(t, m) /\ t.ws = m.ws /\ t.view[v] = r /\ t.focus = m.focus
       /\ \A u \in Views \ {v} : t.view[u] = m.view[u]
  BY <1>1, <1>11, ViewSet
<1> HIDE DEF t
<1>15. Refloats(t, m, v, b) BY <1>9, <1>10, <1>14 DEF Refloats
<1> QED BY <1>8, <1>13, <1>15

\* The focus is followed to its track.
LEMMA FollowSteady ==
  ASSUME NEW K, K \subseteq Views, NEW l, NEW P, NEW x \in Base(K, l, P), Off(x, P) = {},
         Calm(x, P), Bright(x, P), NEW v \in Here(x, P), x.focus = v,
         ActiveElement(Current(x).tracks[x.view[v].layer]) = v
  PROVE  ActivateTrackOf(x, v) \in Steady(K, l, P)
<1> DEFINE w == x.workspace
           V == ViewsAt(P, w)
           T == TracksAt(x, P, w)
           j == x.view[v].layer
           y == ActivateTrack(x.ws[w], j)
           n == [x EXCEPT !.ws[w] = y]
<1>1. /\ x \in Sits(K, l, x.focus, P) /\ x \in ModelRecords(CyclesOver(Views, K), K)
      /\ w \in Workspaces
  BY BaseFacts
<1> HIDE DEF w
<1>2. Divided(x, P, w) /\ V \subseteq K BY <1>1, SiteShared
<1>3. v \in V BY DEF Here, w
<1>4. Tracked(x, P, w, v) BY <1>2, <1>3 DEF Divided
<1>5. /\ Parts(V, T) /\ x.ws[w] \in Sited(V, IconsAt(P, w), T) /\ j \in TrackLayers
      /\ v \in T[j] /\ x.view[v].ws = w
  BY <1>2, <1>4 DEF Divided, Tracked
<1>6. ActiveElement(x.ws[w].tracks[j]) = v BY DEF Current, w
<1>7. Within(V, V, T) BY <1>5, PartsWithin
<1>8. /\ y.active = ActiveElement(x.ws[w].tracks[j]) /\ y.kind = x.ws[w].kind
      /\ T[j] # {} \/ V = {} => Lead(y, V)
  BY <1>5, <1>7, ActivateTrackLeads
<1>9. Lead(y, V) /\ y.active = v BY <1>5, <1>6, <1>8
<1>10. ActivateTrackOf(x, v) = n BY <1>5 DEF ActivateTrackOf
<1>11. n \in Sits(K, l, x.focus, P) BY <1>1, <1>2, <1>3, <1>10, ActivateTrackOfSits
<1>12. Stands(n, x, P) BY <1>1, <1>8, StandsWs
<1>13. /\ Aside(n, x) /\ n.view = x.view /\ n.ws[w] = y
       /\ \A u \in Workspaces \ {w} : n.ws[u] = x.ws[u]
  BY <1>1, WsSet
<1> HIDE DEF n, y
<1>14. /\ n \in Base(K, l, P) /\ n.focus = v /\ n.workspace = w
  BY <1>11, <1>12, BaseOn DEF w
<1>15. Off(n, P) = {} /\ Here(n, P) = V BY <1>13, <1>14 DEF Off, Right, Here, w
<1>16. Calm(n, P) BY <1>13, <1>14 DEF Calm, w
<1>17. Current(n) = y BY <1>13, <1>14 DEF Current
<1>18. Bright(n, P) BY <1>13, <1>14, BrightOn DEF w
<1> QED BY <1>9, <1>10, <1>14, <1>15, <1>16, <1>17, <1>18 DEF Steady

\* The view's workspace is laid out after it was tiled or floated.
Refloated(x, t, v, K, l, P) ==
  /\ x \in Base(K, l, P) /\ Off(x, P) = {} /\ Calm(x, P) /\ v \in Here(x, P)
  /\ x.focus = t.focus /\ x.workspace = t.workspace /\ Bright(x, P)
  /\ t.focus = v => ActiveElement(Current(x).tracks[x.view[v].layer]) = v

LEMMA RefloatedHere ==
  ASSUME NEW K, K \subseteq Views, NEW l, NEW P, NEW m \in Steady(K, l, P), NEW b \in BOOLEAN,
         NEW v \in Here(m, P), NEW t \in Sits(K, l, m.focus, P), Refloats(t, m, v, b)
  PROVE  Refloated(LaidOut(t), t, v, K, l, P)
<1> DEFINE w == m.workspace
           V == ViewsAt(P, w)
           I == IconsAt(P, w)
           T == TracksAt(m, P, w)
           S == TracksAt(t, P, w)
           x == LaidOut(t)
           j == t.view[v].layer
           k == TrackFor(t, v)
<1>1. /\ m \in Base(K, l, P) /\ Off(m, P) = {} /\ Calm(m, P)
      /\ Lead(Current(m), Here(m, P)) /\ m.focus = Current(m).active
  BY SteadyReady
<1>2. /\ m \in Sits(K, l, m.focus, P) /\ w \in Workspaces /\ Standing(m, P)
  BY <1>1, BaseFacts
<1>3. /\ Aside(t, m) /\ t.ws = m.ws /\ t.focus = m.focus /\ t.workspace = w
      /\ \A u \in Views \ {v} : t.view[u] = m.view[u]
      /\ Alike(t.view[v], m.view[v]) /\ t.view[v].managed = m.view[v].managed
      /\ t.view[v].mapped = m.view[v].mapped
  BY DEF Refloats, Aside
<1> HIDE DEF w
<1>4. Stands(t, m, P) BY <1>3 DEF Stands
<1>5. t \in Base(K, l, P) /\ Here(t, P) = V BY <1>1, <1>3, <1>4, BaseOn DEF Here, w
<1>6. Rests(x, t, K, l, P) BY <1>5, LayoutQuiet DEF LaidOut
<1> HIDE DEF x
<1>7. /\ x \in Base(K, l, P) /\ x.focus = t.focus /\ x.workspace = w /\ Off(x, P) = {}
      /\ Laid(x, t, P)
      /\ \A u \in Workspaces \ {w} : x.ws[u] = t.ws[u]
      /\ Off(t, P) = {} => \A u \in Workspaces : x.ws[u] = t.ws[u]
  BY <1>3, <1>6 DEF Rests
<1>8. Calm(x, P) BY <1>1, <1>3, <1>7 DEF Calm, w
<1>18. Bright(x, P)
  <2>1. Bright(m, P) /\ m.focus \in Views \cup {Null} BY <1>1, BaseFacts, SteadyReady
  <2>2. Glows(t, m) BY DEF Refloats, Glows
  <2>3. Bright(t, P) BY <1>3, <2>1, <2>2, BrightAlike DEF w
  <2>4. Lightened(x, t, P) BY <1>5, <1>6, LayoutLightens
  <2> QED BY <2>3, <2>4 DEF Lightened, Bright, Dim
<1>9. Here(x, P) = V /\ v \in V BY <1>7 DEF Here, w
<1>10. Off(t, P) \subseteq {v}
  <2> SUFFICES ASSUME NEW u \in V, u # v PROVE u \notin Off(t, P) BY <1>3 DEF Off
  <2>1. t.view[u] = m.view[u] BY <1>3 DEF ViewsAt
  <2> QED BY <1>1, <2>1 DEF Off, Right, w
<1>11. /\ v \in Views /\ v \in K /\ x.view[v].layer \in TrackLayers
       /\ x.view[v].layer = IF x.view[v].free THEN FREE ELSE TILE
       /\ x.view[v].free \in BOOLEAN
  <2>1. x \in Sits(K, l, x.focus, P) BY <1>7, BaseFacts
  <2>2. Divided(x, P, w) /\ V \subseteq K BY <1>2, <2>1, SiteShared
  <2>3. Tracked(x, P, w, v) BY <1>9, <2>2 DEF Divided
  <2> QED BY <1>9, <2>2, <2>3 DEF Tracked
<1>12. x.view[v].free = Right(x, v) BY <1>7, <1>9 DEF Off
<1>13. x.view[v].floating = t.view[v].floating BY <1>7, <1>11 DEF Laid
<1>14. x.view[v].free = Right(t, v) /\ x.view[v].layer = k
  BY <1>11, <1>12, <1>13 DEF Right, TrackFor
<1>15. /\ Parts(V, S) /\ t.ws[w] \in Sited(V, I, S) /\ v \in S[j] /\ j \in TrackLayers
       /\ j = IF t.view[v].free THEN FREE ELSE TILE
       /\ t.view[v].free \in BOOLEAN
  <2>1. t \in Sits(K, l, m.focus, P) OBVIOUS
  <2>2. Divided(t, P, w) BY <1>2, <2>1, SiteShared
  <2>3. Tracked(t, P, w, v) BY <1>9, <2>2 DEF Divided
  <2> QED BY <2>2, <2>3 DEF Divided, Tracked
<1>16. CASE Off(t, P) = {}
  <2>1. x.ws[w] = t.ws[w] BY <1>2, <1>7, <1>16
  <2>2. t.view[v].free = Right(t, v) BY <1>3, <1>9, <1>16 DEF Off
  <2>3. k = j BY <1>15, <2>2 DEF TrackFor
  <2>4. ASSUME t.focus = v PROVE ActiveElement(t.ws[w].tracks[j]) = v
    <3>1. Lead(t.ws[w], V) /\ t.ws[w].active = v
      BY <1>1, <1>3, <2>4 DEF Current, Here, w
    <3>2. V # {} BY <1>9
    <3>3. /\ t.ws[w].track \in TrackLayers /\ t.ws[w].active \in S[t.ws[w].track]
          /\ ActiveElement(t.ws[w].tracks[t.ws[w].track]) = t.ws[w].active
      BY <1>15, <3>1, <3>2, LeadFacts
    <3>4. t.ws[w].track = j BY <1>15, <3>1, <3>3 DEF Parts
    <3> QED BY <3>1, <3>3, <3>4
  <2> HIDE DEF j, k
  <2>5. t.focus = v => ActiveElement(Current(x).tracks[x.view[v].layer]) = v
    BY <1>7, <1>14, <2>1, <2>3, <2>4 DEF Current
  <2>6. Refloated(x, t, v, K, l, P) BY <1>3, <1>7, <1>8, <1>9, <1>18, <2>5 DEF Refloated
  <2> QED BY <2>6 DEF x
<1>17. CASE Off(t, P) # {}
  <2>1. Off(t, P) = {v} BY <1>10, <1>17
  <2>2. x.ws[w] = Moved(t, v) BY <1>3, <1>7, <2>1 DEF Laid
  <2>3. t.view[v].free # Right(t, v) BY <2>1 DEF Off
  <2>4. Right(t, v) \in BOOLEAN BY <1>11, <1>14
  <2>5. k \in TrackLayers /\ j # k BY <1>15, <2>3, <2>4 DEF TrackFor, TrackLayers, FREE, TILE
  <2>6. Moved(t, v) = ChangeViewTrack(t.ws[w], v, j, k, FALSE) BY <1>3 DEF Moved
  <2> HIDE DEF j, k, S, V, I
  <2>7. Crossed(ChangeViewTrack(t.ws[w], v, j, k, FALSE), t.ws[w], V, k, v)
    BY <1>15, <2>5, ChangeTrackOwned
  <2>8. ActiveElement(x.ws[w].tracks[k]) = v BY <2>2, <2>6, <2>7 DEF Crossed
  <2>9. ActiveElement(Current(x).tracks[x.view[v].layer]) = v
    BY <1>7, <1>14, <2>8 DEF Current
  <2>10. Refloated(x, t, v, K, l, P) BY <1>3, <1>7, <1>8, <1>9, <1>18, <2>9 DEF Refloated
  <2> QED BY <2>10 DEF x
<1> QED BY <1>16, <1>17

\* The view under the cursor is floated, and then focused; or the focus is.
LEMMA FloatSteady ==
  ASSUME NEW K, K \subseteq Views, NEW l, NEW P, NEW m \in Steady(K, l, P), NEW v \in K,
         NEW b \in BOOLEAN, P[v].in = "view", P[v].state # "unmapped"
  PROVE  /\ v = m.focus => SetFloating(m, v, b) \in Steady(K, l, P)
         /\ v # m.focus => FocusManaged(SetFloating(m, v, b), v) \in Steady(K, l, P)
<1> DEFINE t == Tile(m, v, b)
           w == m.view[v].ws
           x == ApplyLayout(t, w)
<1>1. /\ m \in Base(K, l, P) /\ Off(m, P) = {} /\ Calm(m, P)
      /\ Lead(Current(m), Here(m, P)) /\ m.focus = Current(m).active
  BY SteadyReady
<1>2. /\ m \in Home(K, l, P) /\ m \in Sits(K, l, m.focus, P) /\ Standing(m, P) /\ v \in Views
  BY <1>1, BaseFacts
<1>3. w \in Workspaces /\ P[v].ws = w
  <2>1. m.view[v].ws \in Workspaces /\ P[v].ws = m.view[v].ws BY <1>2, SitsFacts
  <2> QED BY <2>1
<1>4. Refloats(t, m, v, b) /\ t \in Sits(K, l, m.focus, P) BY <1>2, TileRefloats
<1>5. SetFloating(m, v, b) = FollowIfFocus(x, v) BY DEF SetFloating
<1> HIDE DEF t, w
<1>6. /\ Aside(t, m) /\ t.ws = m.ws /\ t.focus = m.focus
      /\ \A u \in Views \ {v} : t.view[u] = m.view[u]
      /\ Alike(t.view[v], m.view[v]) /\ t.view[v].managed = m.view[v].managed
      /\ t.view[v].mapped = m.view[v].mapped
  BY <1>4 DEF Refloats
<1>7. t.workspace = m.workspace BY <1>6 DEF Aside
<1>8. Stands(t, m, P) BY <1>6 DEF Stands
<1>9. t \in Base(K, l, P) /\ t.focus = m.focus /\ t.workspace = m.workspace
      /\ Here(t, P) = Here(m, P)
  BY <1>1, <1>4, <1>8, BaseOn
<1>10. CASE w = m.workspace
  <2>1. v \in Here(m, P) BY <1>2, <1>3, <1>10 DEF Here, ViewsAt
  <2>2. x = LaidOut(t) BY <1>7, <1>10 DEF LaidOut
  <2>3. Refloated(x, t, v, K, l, P) BY <1>4, <2>1, <2>2, RefloatedHere
  <2> HIDE DEF x
  <2>4. /\ x \in Base(K, l, P) /\ Off(x, P) = {} /\ Calm(x, P) /\ v \in Here(x, P)
        /\ x.focus = m.focus /\ Bright(x, P) /\ Dim(x, P)
        /\ m.focus = v => ActiveElement(Current(x).tracks[x.view[v].layer]) = v
    BY <1>6, <2>3 DEF Refloated, Bright
  <2>5. ASSUME v = m.focus PROVE SetFloating(m, v, b) \in Steady(K, l, P)
    <3>1. ActivateTrackOf(x, v) \in Steady(K, l, P) BY <2>4, <2>5, FollowSteady
    <3> QED BY <1>5, <2>4, <2>5, <3>1 DEF FollowIfFocus
  <2>6. ASSUME v # m.focus PROVE FocusManaged(SetFloating(m, v, b), v) \in Steady(K, l, P)
    <3>1. SetFloating(m, v, b) = x BY <1>5, <2>4, <2>6 DEF FollowIfFocus
    <3>2. /\ x \in Home(K, l, P) /\ x \in Sits(K, l, x.focus, P) /\ Standing(x, P)
          /\ x \in Sound(K) /\ Anchored(x) /\ x.workspace \in Workspaces
      BY <2>4, BaseFacts
    <3>3. x.view[v].managed BY <1>2, <3>2 DEF Standing
    <3>4. x.view[v].ws = x.workspace /\ v # Null BY <2>4, HereFacts
    <3>5. ContextOf(x.workspace) = x.context /\ OutputOf(x, x.workspace) # Null
          /\ x.workspace # Null
      BY <3>2, AnchoredSees, NullFresh
    <3>6. CanFocus(x, v) BY <2>4, <2>6, <3>4, <3>5 DEF CanFocus
    <3>7. ActivateWorkspace(x, x.view[v].ws) = x BY <3>4 DEF ActivateWorkspace
    <3>8. FocusView(x, v) = GiveFocus(x, v) BY <3>6, <3>7 DEF FocusView
    <3>9. GiveFocus(x, v) \in Steady(K, l, P) BY <2>4, GiveFocusSteady
    <3> QED BY <3>1, <3>3, <3>8, <3>9 DEF FocusManaged
  <2> QED BY <2>5, <2>6
<1>11. CASE w # m.workspace
  <2>1. v \notin Here(m, P) BY <1>3, <1>11 DEF Here, ViewsAt
  <2>2. v # m.focus
    <3>1. SUFFICES ASSUME v = m.focus PROVE FALSE OBVIOUS
    <3>2. v # Null BY <1>2, NullFresh
    <3>3. m.focus \in Here(m, P) BY <3>1, <3>2, SteadyPoised
    <3> QED BY <2>1, <3>1, <3>3
  <2>3. t \in Sound(K) /\ Anchored(t) BY <1>9, BaseFacts
  <2>4. ~IsVisible(t, w) BY <1>3, <1>7, <1>11, <2>3, AnchoredSees
  <2>5. x = t BY <2>4 DEF ApplyLayout
  <2>6. Off(t, P) = {}
    <3>1. ASSUME NEW u \in Here(m, P) PROVE t.view[u] = m.view[u]
      BY <1>6, <2>1 DEF Here, ViewsAt
    <3> QED BY <1>1, <1>7, <3>1 DEF Off, Right, Here
  <2>7. Calm(t, P) /\ Current(t) = Current(m) BY <1>1, <1>6, <1>7 DEF Calm, Current
  <2>12. Bright(t, P)
    <3>1. Bright(m, P) /\ m.focus \in Views \cup {Null} BY <1>1, BaseFacts, SteadyReady
    <3>2. Glows(t, m) BY <1>4 DEF Refloats, Glows
    <3> QED BY <1>6, <1>7, <3>1, <3>2, BrightAlike
  <2>8. t \in Steady(K, l, P) BY <1>1, <1>9, <2>6, <2>7, <2>12 DEF Steady
  <2>9. SetFloating(m, v, b) = t BY <1>5, <1>6, <2>2, <2>5 DEF FollowIfFocus
  <2>10. FocusView(t, v) \in Steady(K, l, P) BY <1>2, <2>8, FocusViewSteady
  <2>11. FocusManaged(t, v) \in Steady(K, l, P) BY <2>8, <2>10 DEF FocusManaged
  <2> QED BY <2>2, <2>9, <2>11
<1> QED BY <1>10, <1>11

\* Nudging a view, and keeping it in its frame when it is fullscreen.
LEMMA NudgeSteady ==
  ASSUME NEW K, K \subseteq Views, NEW l, NEW P, NEW m \in Steady(K, l, P), NEW v \in K,
         P[v].in = "view", m.view[v].mapped
  PROVE  NudgeView(m, v) \in Steady(K, l, P)
<1> DEFINE p == [view |-> v, method |-> "Free", shown |-> TRUE]
           n == PlaceView(m, p)
<1> SUFFICES ASSUME m.view[v].free PROVE n \in Steady(K, l, P) BY DEF NudgeView
<1>1. /\ m \in Base(K, l, P) /\ Off(m, P) = {} /\ Calm(m, P)
      /\ Lead(Current(m), Here(m, P)) /\ m.focus = Current(m).active
  BY SteadyReady
<1>2. m \in Sits(K, l, m.focus, P) /\ v \in Views BY <1>1, BaseFacts
<1>3. m.view[v] \in ViewRecords /\ InPlace(m.view[v], P[v]) /\ m.view[v].ws \in Workspaces
  BY <1>2, KnownSits
<1>4. p.view = v /\ p.method = "Free" /\ p.shown OBVIOUS
<1> HIDE DEF p
<1>5. n \in Sits(K, l, m.focus, P) BY <1>2, <1>4, PlaceSits
<1>6. Put(n, m, v, TRUE) /\ Lamp(n, m, v, TRUE)
  <2>1. p.view \in K /\ p.method \in {"Free", "Tile"} BY <1>4
  <2>2. /\ \E b \in BOOLEAN : b = (p.method = "Free") /\ Put(n, m, p.view, b)
        /\ Lamp(n, m, p.view, p.shown)
    BY <1>2, <2>1, PlacePuts
  <2>3. Lamp(n, m, v, TRUE) BY <1>4, <2>2 DEF Lamp
  <2> QED BY <1>4, <2>2, <2>3
<1> HIDE DEF n
<1>7. m.view[v].layer = FREE /\ m.view[v].free = TRUE
  BY <1>3 DEF InPlace, ViewRecords
<1>8. /\ Aside(n, m) /\ n.view[v].free = TRUE /\ n.view[v].managed = m.view[v].managed
      /\ n.view[v].floating = m.view[v].floating
      /\ \A u \in Views \ {v} : n.view[u] = m.view[u]
      /\ \A w \in Workspaces : n.ws[w] = m.ws[w]
  BY <1>3, <1>6, <1>7 DEF Put, ChangeViewTrack
<1>9. Stands(n, m, P) BY <1>8 DEF Stands
<1>10. /\ n \in Base(K, l, P) /\ n.focus = m.focus /\ n.workspace = m.workspace
       /\ Here(n, P) = Here(m, P) /\ m.workspace \in Workspaces
  <2>1. m \in Base(K, l, P) /\ m.workspace \in Workspaces BY <1>1, BaseFacts
  <2>2. /\ n \in Base(K, l, P) /\ n.focus = m.focus /\ n.workspace = m.workspace
        /\ Here(n, P) = Here(m, P)
    BY <1>5, <1>9, <2>1, BaseOn
  <2> QED BY <2>1, <2>2
<1>11. \A u \in Views : n.view[u].free = m.view[u].free /\ n.view[u].floating = m.view[u].floating
  BY <1>7, <1>8
<1>12. Off(n, P) = {}
  <2>1. \A u \in ViewsAt(P, m.workspace) : u \in Views BY DEF ViewsAt
  <2> QED BY <1>1, <1>10, <1>11, <2>1 DEF Off, Right
<1>13. Calm(n, P) /\ Current(n) = Current(m) BY <1>1, <1>8, <1>10 DEF Calm, Current
<1>14. Bright(n, P)
  <2>1. Bright(m, P) /\ m.focus \in Views \cup {Null} BY <1>1, BaseFacts, SteadyReady
  <2>2. n.view[v].mapped = m.view[v].mapped /\ n.view[v].focused = m.view[v].focused
    <3>1. n \in ModelRecords(CyclesOver(Views, K), K) /\ m \in ModelRecords(CyclesOver(Views, K), K)
      BY <1>1, <1>10, BaseFacts
    <3>2. n.view[v].mapped \in BOOLEAN /\ m.view[v].mapped \in BOOLEAN
      BY <1>2, <3>1 DEF ModelRecords, ViewRecords
    <3> QED BY <1>6, <3>2 DEF Lamp
  <2>3. Glows(n, m) BY <1>8, <2>2 DEF Glows
  <2> QED BY <1>10, <2>1, <2>3, BrightAlike
<1> QED BY <1>1, <1>10, <1>12, <1>13, <1>14 DEF Steady

LEMMA ContainSteady ==
  ASSUME NEW K, K \subseteq Views, NEW l, NEW P, NEW m \in Steady(K, l, P),
         NEW v \in Here(m, P), NEW b \in BOOLEAN
  PROVE  SetContained(m, v, b) \in Steady(K, l, P)
<1> DEFINE o == m.view[v]
           r == [o EXCEPT !.contained = b]
           t == [m EXCEPT !.view[v] = r]
<1>1. m \in Base(K, l, P) BY SteadyReady
<1>2. /\ m \in Sits(K, l, m.focus, P) /\ m \in ModelRecords(CyclesOver(Views, K), K)
  BY <1>1, BaseFacts
<1>3. v \in K /\ v \in Views /\ o.ws = m.workspace
  <2>1. Here(m, P) \subseteq K /\ m.view[v].ws = m.workspace BY <1>1, HereFacts
  <2> QED BY <2>1
<1>4. o \in ViewRecords BY <1>2, <1>3, KnownSits
<1>5. Resembles(r, o) /\ Alike(r, o) BY <1>4, FlagSet, FlagAlike
<1>6. Same(r, o) /\ r.mapped = o.mapped /\ r.focused = o.focused
  <2> HIDE DEF o
  <2> QED BY <1>4, <1>5 DEF Same, ViewRecords
<1>7. m \in Still(K, l, m.focus) BY <1>2, SitsFacts
<1>8. SetContained(m, v, b) = LaidOut(t)
  <2>1. t.workspace = m.workspace OBVIOUS
  <2> QED BY <1>3, <2>1 DEF SetContained, LaidOut
<1> HIDE DEF r
<1>9. t \in Still(K, l, m.focus) BY <1>3, <1>5, <1>7, ResetView
<1>10. t \in Sits(K, l, m.focus, P) BY <1>2, <1>3, <1>5, <1>9, SetViewSits
<1>11. /\ Aside(t, m) /\ t.ws = m.ws /\ t.view[v] = r /\ t.focus = m.focus
       /\ \A u \in Views \ {v} : t.view[u] = m.view[u]
  BY <1>2, <1>3, ViewSet
<1> HIDE DEF t
<1>12. Mute(t, m) BY <1>6, <1>11 DEF Mute, Quiet, Same, Alike
<1>14. Bright(t, P)
  <2>1. Bright(m, P) /\ m.focus \in Views \cup {Null} BY <1>1, BaseFacts, SteadyReady
  <2>2. Glows(t, m) BY <1>6, <1>11 DEF Glows
  <2> QED BY <1>11, <2>1, <2>2, BrightAlike DEF Aside
<1>13. t \in Steady(K, l, P) BY <1>10, <1>12, <1>14, MuteSteady
<1> QED BY <1>8, <1>13, LaidOutSteady

----------------------------------------------------------------------------
(* The specification. Nothing is proved here of a program in which windows  *)
(* map again, are made fullscreen or floated by a rule, in which the layout *)
(* is changed, a client asks for its window to be focused, a jump goes      *)
(* back, outputs come and go, or a binding strays to another context.       *)

Everyday ==
  Families \cap {"remap", "traits", "fullscreen", "layout", "activate", "jump", "output", "stray"} = {}

Attended(m) == \E K \in SUBSET Views : m \in Composed(K, m)

\* Composed models are attended, whatever they were made from.
LEMMA ComposedAttended ==
  ASSUME NEW K, K \subseteq Views, NEW l, NEW n
  PROVE  /\ n \in Composed(K, l) => Attended(n)
         /\ \A P \in [Views -> Spots] : Firm(P) /\ n \in Steady(K, l, P) => Attended(n)
<1>1. ASSUME NEW P \in [Views -> Spots], Firm(P), n \in Steady(K, l, P) PROVE Attended(n)
  <2>1. n \in Steady(K, n, P) BY <1>1, SteadyIn
  <2>2. n \in Composed(K, n) BY <1>1, <2>1, ComposedSteady
  <2> QED BY <2>2 DEF Attended
<1>2. n \in Composed(K, l) => Attended(n) BY <1>1, ComposedSteady
<1> QED BY <1>1, <1>2

\* A workspace a window may ask for is the one on display.
LEMMA AskedShown ==
  ASSUME NEW K, K \subseteq Views, NEW l, NEW P, model \in Steady(K, l, P),
         NEW asked \in AskedWorkspaces
  PROVE  asked \in Workspaces /\ OutputOf(model, asked) # Null
<1>1. model \in Base(K, l, P) BY SteadyReady
<1>2. model \in Sound(K) /\ Anchored(model) /\ model.workspace \in Workspaces BY <1>1, BaseFacts
<1>3. asked = model.workspace
  <2>1. ASSUME NEW o \in Attached PROVE model.ctx[model.out[o]].active = model.workspace
    <3>1. o \in Outputs /\ model.out[o] # Null BY DEF Attached
    <3>2. model.out[o] = model.context BY <1>2, <3>1 DEF Anchored
    <3> QED BY <1>2, <3>2 DEF Anchored
  <2> QED BY <2>1 DEF AskedWorkspaces
<1>4. ContextOf(model.workspace) = model.context BY <1>2, AnchoredSees
<1> QED BY <1>2, <1>3, <1>4, AnchoredSees

\* A window maps.
LEMMA MapAttended ==
  ASSUME Everyday, NEW K, K \subseteq Views, NEW P \in [Views -> Spots], Firm(P),
         model \in Steady(K, model, P), NEW v \in Views, NEW asked \in AskedWorkspaces,
         NEW rules \in RuleSets, MapView(v, asked, rules)
  PROVE  Attended(model')
<1>1. rules \in RuleRecords BY DEF RuleSets, RuleRecords
<1>2. "traits" \notin Families /\ "remap" \notin Families BY DEF Everyday
<1>3. rules.float = Null /\ ~rules.fullscreen BY <1>2 DEF RuleSets
<1>4. model' = RegisterView(model, v, asked, rules) /\ model.view[v].state = "gone"
  BY <1>2 DEF MapView, Mappable
<1>5. asked \in Workspaces /\ OutputOf(model, asked) # Null BY AskedShown
<1>6. Settled(P) BY DEF Firm
<1>7. PICK to \in Workspaces :
        model' \in Steady(K \cup {v}, model,
                          [P EXCEPT ![v] = [in |-> "view", ws |-> to, state |-> "mapped"]])
  BY <1>1, <1>3, <1>4, <1>5, <1>6, RegisterSteady
<1> DEFINE p == [in |-> "view", ws |-> to, state |-> "mapped"]
           Q == [P EXCEPT ![v] = p]
<1>8. p \in Spots /\ p.state = "mapped" /\ p.in = "view" BY DEF Spots
<1>9. model' \in Steady(K \cup {v}, model, Q) /\ K \cup {v} \subseteq Views BY <1>7
<1> HIDE DEF p
<1>10. Q \in [Views -> Spots] /\ Firm(Q) BY <1>8, FirmOn
<1> HIDE DEF Q
<1> QED BY <1>9, <1>10, ComposedAttended

\* A window unmaps, or its object is deleted.
LEMMA UnmapAttended ==
  ASSUME NEW K, K \subseteq Views, NEW P \in [Views -> Spots], Firm(P),
         model \in Steady(K, model, P), NEW v \in Views, UnmapView(v) \/ Destroy(v)
  PROVE  Attended(model')
<1>1. /\ model.view[v].state = P[v].state
      /\ P[v].state = "mapped" => v \in K
  BY ActedOn
<1>2. CASE UnmapView(v)
  <2> DEFINE p == [in |-> "none", ws |-> P[v].ws, state |-> "unmapped"]
             Q == [P EXCEPT ![v] = p]
  <2>1. model' = UnregisterView(model, v) /\ model.view[v].state = "mapped"
    BY <1>2 DEF UnmapView, Mapped
  <2>2. model' \in Steady(K, model, Q) BY <1>1, <2>1, UnregisterSteady
  <2>3. p \in Spots /\ p.state = "unmapped" /\ p.in = "none" BY DEF Spots
  <2> HIDE DEF p
  <2>4. Q \in [Views -> Spots] /\ Firm(Q) BY <2>3, FirmOn
  <2> HIDE DEF Q
  <2> QED BY <2>2, <2>4, ComposedAttended
<1>3. CASE Destroy(v)
  <2> DEFINE p == [in |-> "none", ws |-> Null, state |-> "gone"]
             Q == [P EXCEPT ![v] = p]
  <2>1. model' = DestroyView(model, v) /\ model.view[v].state = "unmapped"
    BY <1>3 DEF Destroy
  <2>2. P[v].in = "none" BY <1>1, <2>1 DEF Firm
  <2>3. model' \in Steady(K \ {v}, model, Q) BY <2>1, <2>2, DestroySteady
  <2>4. p \in Spots /\ p.state = "gone" /\ p.in = "none" /\ p.ws = Null BY DEF Spots
  <2> HIDE DEF p
  <2>5. Q \in [Views -> Spots] /\ Firm(Q) BY <2>4, FirmOn
  <2> HIDE DEF Q
  <2>6. K \ {v} \subseteq Views OBVIOUS
  <2> QED BY <2>3, <2>5, <2>6, ComposedAttended
<1> QED BY <1>2, <1>3

\* What is done to the focus or to the view under the cursor.
LEMMA ViewAttended ==
  ASSUME NEW K, K \subseteq Views, NEW P \in [Views -> Spots], Firm(P),
         model \in Steady(K, model, P), NEW v \in Views,
         \/ \E w \in Workspaces : MoveToWorkspace(v, w)
         \/ FocusUnderCursor(v) \/ ReverseFloating(v) \/ Nudge(v)
  PROVE  Attended(model')
<1>1. v = focus \/ v \in Pointable
  BY DEF MoveToWorkspace, FocusUnderCursor, ReverseFloating, Nudge
<1>2. P[v].in = "view" /\ P[v].state = "mapped" /\ v \in K
  <2>1. /\ P[v].state = "mapped" => v \in K
        /\ v = model.focus => P[v].in = "view" /\ P[v].state = "mapped"
        /\ model.view[v].state = "mapped" /\ model.view[v].mapped =>
             P[v].in = "view" /\ P[v].state = "mapped"
    BY ActedOn
  <2> QED BY <1>1, <2>1 DEF focus, Pointable, Mapped
<1>3. P[v].state # "unmapped" BY <1>2
<1>4. \A n \in Steady(K, model, P) : Attended(n) BY ComposedAttended
<1>5. ASSUME NEW w \in Workspaces, MoveToWorkspace(v, w) PROVE Attended(model')
  <2> DEFINE p == Arrived(P[v], w)
             Q == [P EXCEPT ![v] = p]
  <2>1. model' = MoveViewToWorkspace(model, v, w) BY <1>5 DEF MoveToWorkspace
  <2>2. model' \in Steady(K, model, IF w = P[v].ws THEN P ELSE Q)
    BY <1>2, <1>3, <2>1, MoveSteady
  <2>3. p \in Spots /\ p.state = "mapped" /\ p.in = "view" BY <1>2 DEF Arrived, Spots
  <2> HIDE DEF p
  <2>4. Q \in [Views -> Spots] /\ Firm(Q) BY <2>3, FirmOn
  <2> HIDE DEF Q
  <2>5. model' \in Steady(K, model, P) \/ model' \in Steady(K, model, Q) BY <2>2
  <2> QED BY <2>4, <2>5, ComposedAttended
<1>6. CASE FocusUnderCursor(v)
  <2>1. model' = FocusView(model, v) BY <1>6 DEF FocusUnderCursor
  <2>2. model' \in Steady(K, model, P) BY <1>2, <2>1, FocusViewSteady
  <2> QED BY <1>4, <2>2
<1>7. CASE ReverseFloating(v)
  <2> DEFINE b == ~model.view[v].floating
  <2>1. \/ v = model.focus /\ model' = SetFloating(model, v, b)
        \/ v # model.focus /\ model' = FocusManaged(SetFloating(model, v, b), v)
    BY <1>7 DEF ReverseFloating, focus
  <2>2. b \in BOOLEAN OBVIOUS
  <2> HIDE DEF b
  <2>3. /\ v = model.focus => SetFloating(model, v, b) \in Steady(K, model, P)
        /\ v # model.focus => FocusManaged(SetFloating(model, v, b), v) \in Steady(K, model, P)
    BY <1>2, <1>3, <2>2, FloatSteady
  <2> QED BY <1>4, <2>1, <2>3
<1>8. CASE Nudge(v)
  <2>1. model' = NudgeView(model, v) BY <1>8 DEF Nudge
  <2>3. model.view[v].mapped
    <3>1. CASE v = focus
      <4>1. v = model.focus BY <3>1 DEF focus
      <4>2. v \in Here(model, P) BY <4>1, ActedOn
      <4>3. Bright(model, P) BY SteadyReady
      <4> QED BY <4>1, <4>2, <4>3 DEF Bright
    <3>2. CASE v \in Pointable BY <3>2 DEF Pointable
    <3> QED BY <1>1, <3>1, <3>2
  <2>2. model' \in Steady(K, model, P) BY <1>2, <2>1, <2>3, NudgeSteady
  <2> QED BY <1>4, <2>2
<1> QED BY <1>5, <1>6, <1>7, <1>8

\* The current workspace has as many views as are placed in it.
LEMMA HereAny ==
  ASSUME NEW K, K \subseteq Views, NEW l, NEW P, NEW m \in Steady(K, l, P)
  PROVE  /\ Size(Current(m).views) \in Nat /\ Size(CurrentTrack(Current(m))) \in Nat
         /\ Size(Current(m).views) > 1 => Here(m, P) # {}
         /\ Size(CurrentTrack(Current(m))) > 1 => Here(m, P) # {}
<1>1. Settles(m, K, P) BY SteadySettles
<1> DEFINE V == Here(m, P)
           I == IconsAt(P, m.workspace)
           T == TracksAt(m, P, m.workspace)
           x == Current(m)
<1>2. Parts(V, T) /\ x \in Sited(V, I, T) /\ Has(x.views, V) BY <1>1 DEF Settles
<1> HIDE DEF V, I, T, x
<1>3. x.track \in TrackLayers /\ Has(CurrentTrack(x), T[x.track]) BY <1>2, SiteParts
<1>4. T[x.track] \subseteq V BY <1>2, <1>3 DEF Parts
<1>5. /\ Size(x.views) \in Nat
      /\ (Size(x.views) > 0) <=> (V # {})
  BY <1>2, HasSize
<1>6. /\ Size(CurrentTrack(x)) \in Nat
      /\ (Size(CurrentTrack(x)) > 0) <=> (T[x.track] # {})
  BY <1>3, HasSize
<1>7. /\ Size(x.views) > 1 => V # {}
      /\ Size(CurrentTrack(x)) > 1 => V # {}
  BY <1>4, <1>5, <1>6
<1> QED BY <1>5, <1>6, <1>7 DEF V, x

\* The bindings that act on the current workspace.
LEMMA BindingAttended ==
  ASSUME NEW K, K \subseteq Views, NEW P \in [Views -> Spots], Firm(P),
         model \in Steady(K, model, P), "stray" \notin Families,
         \/ \E d \in Directions : MoveFocus(d) \/ DragFocus(d) \/ Reorder(d)
         \/ \E d \in Directions, n \in 0..2 : Shuffle(d, n)
         \/ ReverseContained \/ ReverseIconify \/ Deiconify
         \/ \E w \in Workspaces : SwitchWorkspace(w)
         \/ \E c \in Contexts : SwitchContext(c)
         \/ RegainFocus \/ Relayout
  PROVE  Attended(model')
<1>1. \A n \in Steady(K, model, P) : Attended(n) BY ComposedAttended
<1>2. model \in Composed(K, model) BY ComposedSteady
<1>3. model \in Base(K, model, P) BY SteadyReady
<1>4. ASSUME NEW d \in Directions, MoveFocus(d) \/ DragFocus(d) \/ Reorder(d)
      PROVE  Attended(model')
  <2>1. 0 \in Nat OBVIOUS
  <2>2. /\ Here(model, P) # {} => /\ CycleFocusCommand(model, d) \in Steady(K, model, P)
                                  /\ CycleFocusTrackCommand(model, d) \in Steady(K, model, P)
                                  /\ DragFocusTrackCommand(model, d) \in Steady(K, model, P)
        /\ CycleTrackCommand(model, d) \in Steady(K, model, P)
        /\ ReverseViews(model) \in Steady(K, model, P)
        /\ RotateViews(model, d) \in Steady(K, model, P)
    BY <2>1, FocusCommandsSteady
  <2>3. /\ Size(Current(model).views) > 1 => Here(model, P) # {}
        /\ Size(CurrentTrack(Current(model))) > 1 => Here(model, P) # {}
    BY HereAny
  <2>4. CASE MoveFocus(d) BY <1>1, <2>2, <2>3, <2>4 DEF MoveFocus
  <2>5. CASE DragFocus(d) BY <1>1, <2>2, <2>3, <2>5 DEF DragFocus
  <2>6. CASE Reorder(d) BY <1>1, <2>2, <2>6 DEF Reorder
  <2> QED BY <1>4, <2>4, <2>5, <2>6
<1>5. ASSUME NEW d \in Directions, NEW n \in 0..2, Shuffle(d, n) PROVE Attended(model')
  <2>1. n \in Nat OBVIOUS
  <2>2. /\ ShuffleMainCommand(model, d, n) \in Steady(K, model, P)
        /\ ShuffleStackCommand(model, d, n) \in Steady(K, model, P)
    BY <2>1, FocusCommandsSteady
  <2> QED BY <1>1, <1>5, <2>2 DEF Shuffle
<1>6. CASE ReverseContained
  <2> DEFINE b == ~model.view[model.focus].contained
  <2>1. model' = SetContained(model, model.focus, b) /\ model.focus # Null
    BY <1>6 DEF ReverseContained, focus
  <2>2. b \in BOOLEAN OBVIOUS
  <2> HIDE DEF b
  <2>3. model.focus \in Here(model, P) BY <2>1, SteadyPoised
  <2>4. SetContained(model, model.focus, b) \in Steady(K, model, P)
    BY <2>2, <2>3, ContainSteady
  <2> QED BY <1>1, <2>1, <2>4
<1>7. CASE ReverseIconify
  <2> DEFINE b == ~model.view[model.focus].iconified
  <2>1. model' = SetIconify(model, model.focus, b) /\ model.focus # Null
    BY <1>7 DEF ReverseIconify, focus
  <2>2. b \in BOOLEAN OBVIOUS
  <2> HIDE DEF b
  <2>3. SetIconify(model, model.focus, b) \in Composed(K, model)
    BY <1>2, <2>1, <2>2, IconifyComposed
  <2> QED BY <2>1, <2>3, ComposedAttended
<1>8. CASE Deiconify
  <2>1. PopDeiconify(model) \in Composed(K, model) /\ DeiconifyAll(model) \in Composed(K, model)
    BY <1>2, PopComposed
  <2>2. model' = PopDeiconify(model) \/ model' = DeiconifyAll(model) BY <1>8 DEF Deiconify
  <2> QED BY <2>1, <2>2, ComposedAttended
<1>9. ASSUME NEW w \in Workspaces, SwitchWorkspace(w) PROVE Attended(model')
  <2>1. ContextOf(w) = model.context /\ model' = ActivateWorkspace(model, w)
    BY <1>9 DEF SwitchWorkspace, WorkspacesOf
  <2>2. model' \in Steady(K, model, P) BY <2>1, ActivateWorkspaceSteady
  <2> QED BY <1>1, <2>2
<1>10. ASSUME NEW c \in Contexts, SwitchContext(c) PROVE Attended(model')
  <2>1. model' = ActivateContext(model, c) BY <1>10 DEF SwitchContext
  <2>2. model' \in Steady(K, model', P) BY <2>1, ActivateContextSteady
  <2> QED BY <2>2, ComposedAttended
<1>11. CASE RegainFocus
  <2>1. model' = Refocus(model) BY <1>11 DEF RegainFocus
  <2> QED BY <1>1, <2>1, RefocusSteady
<1>12. CASE Relayout
  <2>1. model' = UpdateOutputs(model) BY <1>12 DEF Relayout
  <2> QED BY <1>1, <2>1, UpdateOutputsSteady
<1> QED BY <1>4, <1>5, <1>6, <1>7, <1>8, <1>9, <1>10, <1>11, <1>12

\* The first output shows the first context, which has no view yet.
LEMMA FirstOutput ==
  ASSUME NEW o \in Outputs, model = NewOutput(Constructed(InitialKind), o)
  PROVE  /\ Anchored(model) /\ ~model.down /\ ~model.astray /\ model.focus = Null
         /\ \A v \in Views : ~model.view[v].mapped /\ model.view[v].managed
         /\ \A w \in Workspaces : model.ws[w] = NewWorkspace(InitialKind)
<1> DEFINE n == Constructed(InitialKind)
           unshown == {d \in Contexts : n.ctx[d].output = Null}
           c == CHOOSE d \in unshown : \A e \in unshown : d <= e
           s == SetContext(n, o, c)
<1>1. /\ n.outputs.elements = << >> /\ n.ws = [w \in Workspaces |-> NewWorkspace(InitialKind)]
      /\ n.view = [v \in Views |-> NewView] /\ n.focus = Null /\ ~n.down /\ ~n.astray
      /\ n.ctx = [d \in Contexts |-> [output |-> Null, active |-> WorkspaceAt(d, 0), prev |-> Null]]
      /\ n.out = [p \in Outputs |-> Null]
  BY DEF Constructed, EmptyCycle
<1>2. "output" \in DOMAIN n /\ "context" \in DOMAIN n /\ "workspace" \in DOMAIN n
  BY DEF Constructed
<1>3. DOMAIN n = {"ws", "view", "ctx", "out", "outputs", "wsIndex", "ctxIndex", "output",
                  "context", "workspace", "prevContext", "prevWorkspace", "focus",
                  "jumpedFrom", "down", "astray"}
  BY DEF Constructed
<1>4. model = NewOutput(n, o) OBVIOUS
<1> HIDE DEF n
<1>5. UpdateOutputs(n) = n
  <2>1. DOMAIN n.outputs.elements = 1..0 /\ 0 \in Nat BY <1>1
  <2>2. \A x \in {n}, i \in 1..0 : LayOutOutput(x, n.outputs.elements[i]) \in {n} OBVIOUS
  <2>3. SE!FoldLeft(LayOutOutput, n, n.outputs.elements) \in {n} BY <2>1, <2>2, LayOutFold
  <2> QED BY <2>3 DEF UpdateOutputs
<1>6. \A d \in Contexts : n.ctx[d].output = Null /\ n.ctx[d].active = WorkspaceAt(d, 0) BY <1>1
<1>7. unshown = Contexts BY <1>6
<1>8. c \in Contexts /\ unshown # {}
  <2>1. Contexts \subseteq Nat /\ 0 \in Contexts BY CountsAssumption DEF Contexts
  <2>2. \E d \in Contexts : \A e \in Contexts : d <= e BY <2>1, LeastNumber
  <2> QED BY <1>7, <2>1, <2>2
<1>9. model = [s EXCEPT !.outputs = InsertAtBack(@, o), !.output = o, !.context = c,
                        !.workspace = n.ctx[c].active]
  <2>1. model = RegisterOutput(n, o) BY <1>4, <1>5 DEF NewOutput
  <2>2. unshown # {} BY <1>8
  <2> QED BY <2>1, <2>2 DEF RegisterOutput
<1> HIDE DEF unshown, c
<1>10. /\ DOMAIN s = DOMAIN n /\ s.ws = n.ws /\ s.view = n.view /\ s.focus = n.focus
       /\ s.down = n.down /\ s.astray = n.astray
       /\ s.out = [n.out EXCEPT ![o] = c]
       /\ s.ctx = [d \in Contexts |->
                     IF d = c THEN [n.ctx[d] EXCEPT !.output = o]
                     ELSE IF d = n.out[o] THEN [n.ctx[d] EXCEPT !.output = Null] ELSE n.ctx[d]]
  BY <1>3 DEF SetContext
<1> HIDE DEF s
<1>11. /\ model.ws = n.ws /\ model.view = n.view /\ model.focus = Null
       /\ ~model.down /\ ~model.astray /\ model.output = o /\ model.context = c
       /\ model.workspace = n.ctx[c].active /\ model.out = s.out /\ model.ctx = s.ctx
  BY <1>1, <1>3, <1>9, <1>10
<1>12. \A p \in Outputs : model.out[p] = IF p = o THEN c ELSE Null BY <1>1, <1>10, <1>11
<1>13. \A d \in Contexts : model.ctx[d].output = IF d = c THEN o ELSE Null
  BY <1>1, <1>6, <1>8, <1>10, <1>11, NullFresh
<1>14. model.ctx[c].active = model.workspace BY <1>1, <1>8, <1>10, <1>11
<1>15. Anchored(model) BY <1>11, <1>12, <1>13, <1>14 DEF Anchored
<1>16. \A v \in Views : ~model.view[v].mapped /\ model.view[v].managed
  BY <1>1, <1>11 DEF NewView
<1> QED BY <1>1, <1>11, <1>15, <1>16

\* An attended model has not gone astray, and is not down.
LEMMA AttendedUp ==
  ASSUME NEW m, Attended(m)
  PROVE  ~m.astray /\ ~m.down /\ m \in ModelRecords(Cycles(Views), Views)
<1>1. PICK K \in SUBSET Views : m \in Composed(K, m) BY DEF Attended
<1>2. PICK P \in [Views -> Spots] : Firm(P) /\ m \in Steady(K, m, P) BY <1>1, ComposedSteady
<1>3. m \in Base(K, m, P) /\ K \subseteq Views BY <1>2, SteadyReady
<1>4. Standing(m, P) /\ m \in ModelRecords(Cycles(Views), Views) BY <1>3, BaseFacts
<1> QED BY <1>4 DEF Standing

\* The inductive invariant: everything is steady, for some known views, each in
\* one place, unless the model is down.
FocusInvariant == ~model.astray /\ (model.down \/ Attended(model))

\* It holds when the first output has been registered.
THEOREM FocusStarts == Init => FocusInvariant
<1> SUFFICES ASSUME NEW o \in Outputs, model = NewOutput(Constructed(InitialKind), o)
             PROVE  Attended(model)
  BY AttendedUp DEF Init, FocusInvariant
<1> DEFINE n == Constructed(InitialKind)
           P == Nowhere
           x == NewWorkspace(InitialKind)
<1>1. InitialKind \in DOMAIN LayoutKinds BY KindsAssumption
<1>2. P \in [Views -> Spots] /\ Settled(P) /\ n \in Home({}, n, P) BY <1>1, ConstructedHome
<1>3. n \in Sound({}) BY <1>2, FitSound DEF Home
<1>4. /\ Anchored(model) /\ ~model.down /\ ~model.astray /\ model.focus = Null
      /\ \A v \in Views : ~model.view[v].mapped /\ model.view[v].managed
      /\ \A w \in Workspaces : model.ws[w] = x
  BY FirstOutput
<1>5. x.active = Null /\ x.kind = InitialKind /\ x.track = x.trackLayer BY DEF NewWorkspace
<1>6. \A v \in Views : P[v].in = "none" /\ P[v].ws = Null /\ P[v].state = "gone" BY DEF Nowhere
<1> HIDE DEF n, P, x
<1>7. model = NewOutput(n, o) BY DEF n
<1>8. {} \subseteq Views OBVIOUS
<1>9. model \in Sound({}) BY <1>3, <1>7, <1>8, NewOutputSound
<1>10. Placed(model, P) BY <1>2, <1>7, <1>8, OutputsHome
<1>11. model \in Home({}, model, P) BY <1>9, <1>10, FitSound DEF Home
<1>12. Firm(P) BY <1>2, <1>6 DEF Firm
<1>13. Standing(model, P) BY <1>4, <1>5 DEF Standing
<1>14. model \in Base({}, model, P) BY <1>11, <1>13 DEF Base
<1>15. \A w : ViewsAt(P, w) = {} BY <1>6 DEF ViewsAt
<1>16. Off(model, P) = {} /\ Here(model, P) = {} BY <1>15 DEF Off, Here
<1>17. Locked(x, {}) /\ Lead(x, {}) BY <1>5 DEF Lead, Locked, Owned
<1>18. model.workspace \in Workspaces BY <1>8, <1>14, BaseFacts
<1>19. Calm(model, P) BY <1>4, <1>15, <1>17 DEF Calm
<1>20. Lead(Current(model), Here(model, P)) /\ Current(model).active = Null
  BY <1>4, <1>5, <1>16, <1>17, <1>18 DEF Current
<1>22. Bright(model, P) BY <1>4, <1>16 DEF Bright, Dim, Lit
<1>21. model \in Steady({}, model, P) BY <1>4, <1>14, <1>16, <1>19, <1>20, <1>22 DEF Steady
<1> QED BY <1>2, <1>8, <1>12, <1>21, ComposedAttended

\* Every handler that finds a workspace leaves the focus where it belongs.
LEMMA HandledAttended ==
  ASSUME Everyday, Attended(model), Handled
  PROVE  Attended(model')
<1>1. PICK K \in SUBSET Views : model \in Composed(K, model) BY DEF Attended
<1>2. PICK P \in [Views -> Spots] : Firm(P) /\ model \in Steady(K, model, P)
  BY <1>1, ComposedSteady
<1>3. K \subseteq Views OBVIOUS
<1>4. ASSUME NEW v \in Views,
             \/ \E asked \in AskedWorkspaces, rules \in RuleSets : MapView(v, asked, rules)
             \/ UnmapView(v) \/ Destroy(v)
      PROVE  Attended(model')
  BY <1>2, <1>3, <1>4, MapAttended, UnmapAttended
<1>5. ASSUME NEW v \in Views,
             \/ \E w \in Workspaces : MoveToWorkspace(v, w)
             \/ FocusUnderCursor(v) \/ ReverseFloating(v) \/ Nudge(v)
      PROVE  Attended(model')
  BY <1>2, <1>3, <1>5, ViewAttended
<1>6. /\ \A v \in Views : /\ ~RequestActivate(v) /\ ~ReverseFullscreen(v) /\ ~Jump(v)
                          /\ \A on \in BOOLEAN : ~RequestFullscreen(v, on)
      /\ \A k \in Kinds, same \in BOOLEAN : ~ChooseLayout(k, same)
      /\ ~SwitchLayout
      /\ \A o \in Outputs : ~AttachOutput(o) /\ ~DetachOutput(o)
      /\ "stray" \notin Families
  BY DEF Everyday, RequestActivate, ReverseFullscreen, Jump, RequestFullscreen, ChooseLayout,
         SwitchLayout, AttachOutput, DetachOutput, Uses
<1>7. CASE \E v \in Views :
             \/ \E asked \in AskedWorkspaces, rules \in RuleSets : MapView(v, asked, rules)
             \/ \E on \in BOOLEAN : RequestFullscreen(v, on)
             \/ \E w \in Workspaces : MoveToWorkspace(v, w)
             \/ UnmapView(v) \/ Destroy(v) \/ FocusUnderCursor(v) \/ RequestActivate(v)
             \/ ReverseFloating(v) \/ ReverseFullscreen(v) \/ Nudge(v) \/ Jump(v)
  BY <1>4, <1>5, <1>6, <1>7
<1>8. CASE \/ \E d \in Directions : MoveFocus(d) \/ DragFocus(d) \/ Reorder(d)
           \/ \E d \in Directions, n \in 0..2 : Shuffle(d, n)
           \/ ReverseContained \/ ReverseIconify \/ Deiconify
           \/ \E w \in Workspaces : SwitchWorkspace(w)
           \/ \E c \in Contexts : SwitchContext(c)
           \/ RegainFocus \/ Relayout
  BY <1>2, <1>3, <1>6, <1>8, BindingAttended
<1> QED BY <1>6, <1>7, <1>8 DEF Handled

\* The inductive step: every handler leaves the focus where it belongs, or the
\* model is down.
THEOREM FocusSteps ==
  ASSUME Everyday
  PROVE  FocusInvariant /\ [Next]_model => FocusInvariant'
<1> SUFFICES ASSUME FocusInvariant, [Next]_model
             PROVE  ~model'.astray /\ (model'.down \/ Attended(model'))
  BY DEF FocusInvariant
<1>1. CASE UNCHANGED model BY <1>1 DEF FocusInvariant
<1>2. ASSUME Next PROVE Attended(model) BY <1>2, StepRuns DEF FocusInvariant
<1>3. CASE Handled
  <2>1. Attended(model) BY <1>2, <1>3 DEF Next
  <2> QED BY <1>3, <2>1, HandledAttended, AttendedUp
<1>4. ASSUME NEW v \in Views, MapOnNoOutput(v) PROVE ~model'.astray /\ model'.down
  <2>1. Attended(model) BY <1>2, <1>4 DEF Next
  <2> QED BY <1>4, <2>1, AttendedUp DEF MapOnNoOutput, Crashed, ModelRecords
<1> QED BY <1>1, <1>3, <1>4 DEF Next

----------------------------------------------------------------------------
(* What the invariant says of the properties the runs check.                *)

\* The focus and the active views.
LEMMA AttendedLeads == FocusInvariant => FocusLeads /\ ActiveWhileAny
<1> SUFFICES ASSUME FocusInvariant, ~model.down
             PROVE  /\ focus = Current(model).active
                    /\ \A w \in Workspaces :
                         /\ model.ws[w].active # Null =>
                              /\ model.ws[w].active = ActiveElement(model.ws[w].tracks[model.ws[w].trackLayer])
                              /\ model.ws[w].active = ActiveElement(model.ws[w].views)
                         /\ Empty(model, w) => model.ws[w].active = Null
                         /\ ~Empty(model, w) => Contains(model.ws[w].views, model.ws[w].active)
  BY DEF FocusLeads, FocusIsActive, ActiveLeadsItsTrack, ActiveWhileAny
<1>1. PICK K \in SUBSET Views : model \in Composed(K, model) BY DEF FocusInvariant, Attended
<1>2. PICK P \in [Views -> Spots] : Firm(P) /\ model \in Steady(K, model, P)
  BY <1>1, ComposedSteady
<1>3. K \subseteq Views OBVIOUS
<1>4. Poised(model, model.context, P) BY <1>2, <1>3, SteadyPoised
<1>5. model.focus = Current(model).active /\ model \in Base(K, model, P)
  BY <1>2, SteadyReady
<1>6. model \in Sits(K, model, model.focus, P) BY <1>3, <1>5, BaseFacts
<1>7. ASSUME NEW w \in Workspaces
      PROVE  /\ model.ws[w].active # Null =>
                  /\ model.ws[w].active = ActiveElement(model.ws[w].tracks[model.ws[w].trackLayer])
                  /\ model.ws[w].active = ActiveElement(model.ws[w].views)
             /\ Empty(model, w) => model.ws[w].active = Null
             /\ ~Empty(model, w) => Contains(model.ws[w].views, model.ws[w].active)
  <2> DEFINE V == ViewsAt(P, w)
             x == model.ws[w]
  <2>1. Locked(x, V) BY <1>4 DEF Poised
  <2>2. Divided(model, P, w) BY <1>3, <1>6, SiteShared
  <2>3. Has(x.views, V) BY <2>2 DEF Divided, Sited
  <2>4. Range(x.views.elements) = V BY <2>3 DEF Has
  <2> HIDE DEF V, x
  <2>5. (Size(x.views) = 0) <=> (V = {}) BY <2>3, HasSize
  <2>6. V = {} => x.active = Null BY <2>1 DEF Locked, Owned
  <2>7. V # {} => /\ x.active \in V
                  /\ ActiveElement(x.views) = x.active
                  /\ ActiveElement(x.tracks[x.trackLayer]) = x.active
    BY <2>1 DEF Locked, Owned
  <2> QED BY <2>4, <2>5, <2>6, <2>7 DEF Empty, Contains, x
<1> QED BY <1>5, <1>7 DEF focus

\* The unmapped windows, and the process.
LEMMA AttendedRuns == FocusInvariant => UnmappedIsForgotten /\ FocusRecursionEnds
<1>1. FocusInvariant => FocusRecursionEnds BY DEF FocusInvariant, FocusRecursionEnds
<1> SUFFICES ASSUME Attended(model)
             PROVE  \A v \in Views \ Mapped : ~Referenced(model, v)
  BY <1>1 DEF UnmappedIsForgotten, FocusInvariant
<1>2. PICK K \in SUBSET Views : model \in Composed(K, model) BY DEF Attended
<1>3. PICK P \in [Views -> Spots] : Firm(P) /\ model \in Steady(K, model, P)
  BY <1>2, ComposedSteady
<1>4. K \subseteq Views OBVIOUS
<1>5. ASSUME NEW v \in Views \ Mapped PROVE ~Referenced(model, v)
  <2>1. v \in Views /\ model.view[v].state # "mapped" BY DEF Mapped
  <2>2. model.view[v].state = P[v].state BY <1>3, <1>4, <2>1, ActedOn
  <2>3. P[v].in = "none" BY <1>3, <2>1, <2>2 DEF Firm
  <2> QED BY <1>3, <1>4, <2>1, <2>3, NowhereUnreferenced
<1> QED BY <1>5

\* The screen: what is laid out stays so, and what is mapped is in view.
LEMMA AttendedShows ==
  FocusInvariant => /\ LayoutIsSettled /\ FocusIsShown
                    /\ ~Single => ShownIsMapped
<1> SUFFICES ASSUME FocusInvariant, ~model.down
             PROVE  /\ LayoutIsSettled /\ FocusIsShown
                    /\ ~Single => ShownIsMapped
  BY DEF LayoutIsSettled, FocusIsShown, ShownIsMapped
<1>1. PICK K \in SUBSET Views : model \in Composed(K, model) BY DEF FocusInvariant, Attended
<1>2. PICK P \in [Views -> Spots] : Firm(P) /\ model \in Steady(K, model, P)
  BY <1>1, ComposedSteady
<1>3. K \subseteq Views OBVIOUS
<1>4. /\ model \in Base(K, model, P) /\ Bright(model, P) /\ Dim(model, P) /\ Lit(model)
  BY <1>2, SteadyReady
<1>5. /\ model \in Sits(K, model, model.focus, P) /\ model \in Sound(K) /\ Anchored(model)
      /\ Standing(model, P) /\ model.workspace \in Workspaces /\ model.focus \in K \cup {Null}
  BY <1>3, <1>4, BaseFacts
<1>6. \A w \in Workspaces : IsVisible(model, w) <=> w = model.workspace
  BY <1>5, AnchoredSees
<1>7. \A w \in Workspaces, v \in Views : Contains(model.ws[w].views, v) <=> v \in ViewsAt(P, w)
  <2> SUFFICES ASSUME NEW w \in Workspaces, NEW v \in Views
               PROVE  Contains(model.ws[w].views, v) <=> v \in ViewsAt(P, w)
    OBVIOUS
  <2>1. Divided(model, P, w) BY <1>3, <1>5, SiteShared
  <2>2. Has(model.ws[w].views, ViewsAt(P, w)) BY <2>1 DEF Divided, Sited
  <2> QED BY <2>2 DEF Has, Contains
<1>8. LayoutIsSettled BY <1>2, <1>3, OutputsIdle DEF LayoutIsSettled
<1>9. FocusIsShown
  <2>1. ASSUME focus # Null PROVE model.view[focus].focused /\ model.view[focus].mapped
    <3>1. model.focus \in Here(model, P)
      BY <1>2, <1>3, <2>1, SteadyPoised DEF focus
    <3> QED BY <1>4, <2>1, <3>1 DEF Lit, Bright, focus
  <2>2. ASSUME NEW w \in Workspaces, IsVisible(model, w), Layout(model.ws[w]).single,
               NEW v \in Members(model.ws[w].views), model.view[v].mapped
        PROVE  v = focus
    <3>1. w = model.workspace BY <1>6, <2>2
    <3>2. Single BY <1>5, <2>2 DEF Standing, Layout, Single
    <3>3. v \in Here(model, P)
      <4>1. Divided(model, P, w) BY <1>3, <1>5, SiteShared
      <4>2. Has(model.ws[w].views, ViewsAt(P, w)) BY <4>1 DEF Divided, Sited
      <4> QED BY <3>1, <4>2 DEF Has, Members, Here
    <3> QED BY <1>4, <2>2, <3>2, <3>3 DEF Bright, focus
  <2> QED BY <2>1, <2>2 DEF FocusIsShown
<1>10. ASSUME ~Single PROVE ShownIsMapped
  <2> SUFFICES ASSUME NEW v \in Mapped
               PROVE  model.view[v].mapped <=>
                        /\ IsVisible(model, model.view[v].ws)
                        /\ Contains(model.ws[model.view[v].ws].views, v)
    BY DEF ShownIsMapped
  <2> DEFINE w == model.view[v].ws
  <2>1. v \in Views /\ model.view[v].state = "mapped" BY DEF Mapped
  <2>2. /\ model.view[v].state = P[v].state
        /\ P[v].state = "mapped" => v \in K
        /\ model.view[v].mapped /\ model.view[v].state = "mapped" => P[v].in = "view"
    <3>1. /\ model.view[v].state = P[v].state
          /\ P[v].state = "mapped" => v \in K
          /\ v = model.focus => v \in Here(model, P) /\ P[v].in = "view" /\ P[v].state = "mapped"
          /\ model.view[v].state = "mapped" /\ model.view[v].mapped =>
               P[v].in = "view" /\ P[v].state = "mapped"
      BY <1>2, <1>3, <2>1, ActedOn
    <3> QED BY <3>1
  <2>3. w \in Workspaces /\ P[v].ws = w
    <3>1. v \in K BY <2>1, <2>2
    <3>2. model.view[v].ws \in Workspaces /\ P[v].ws = model.view[v].ws
      BY <1>3, <1>5, <3>1, SitsFacts
    <3> QED BY <3>2
  <2>4. IsVisible(model, w) <=> w = model.workspace BY <1>6, <2>3
  <2>5. Contains(model.ws[w].views, v) <=> P[v].in = "view"
    BY <1>7, <2>1, <2>3 DEF ViewsAt
  <2>6. ASSUME model.view[v].mapped PROVE P[v].in = "view" /\ w = model.workspace
    BY <1>4, <2>1, <2>2, <2>3, <2>6 DEF Dim
  <2>7. ASSUME P[v].in = "view", w = model.workspace PROVE model.view[v].mapped
    <3>1. v \in Here(model, P) BY <2>1, <2>3, <2>7 DEF Here, ViewsAt
    <3> QED BY <1>4, <1>10, <3>1 DEF Dim
  <2> HIDE DEF w
  <2>8. model.view[v].mapped <=> IsVisible(model, w) /\ Contains(model.ws[w].views, v)
    BY <2>4, <2>5, <2>6, <2>7
  <2> QED BY <2>8 DEF w
<1> QED BY <1>8, <1>9, <1>10

\* The four variables that say who has the focus agree in every state: mp_focus
\* is the active view of the current workspace, and in every workspace the active
\* view is the active one of its track and of m_views.
THEOREM FocusAlwaysLeads ==
  ASSUME Everyday
  PROVE  Spec => []FocusLeads
<1>1. Spec => []FocusInvariant BY FocusStarts, FocusSteps, PTL DEF Spec
<1>2. FocusInvariant => FocusLeads BY AttendedLeads
<1> QED BY <1>1, <1>2, PTL

\* A workspace with views always has an active one among them, and an empty one
\* has none.
THEOREM AlwaysActiveWhileAny ==
  ASSUME Everyday
  PROVE  Spec => []ActiveWhileAny
<1>1. Spec => []FocusInvariant BY FocusStarts, FocusSteps, PTL DEF Spec
<1>2. FocusInvariant => ActiveWhileAny BY AttendedLeads
<1> QED BY <1>1, <1>2, PTL

\* Nothing refers to an unmapped window by the time its object is deleted.
THEOREM UnmappedForgotten ==
  ASSUME Everyday
  PROVE  Spec => []UnmappedIsForgotten
<1>1. Spec => []FocusInvariant BY FocusStarts, FocusSteps, PTL DEF Spec
<1>2. FocusInvariant => UnmappedIsForgotten BY AttendedRuns
<1> QED BY <1>1, <1>2, PTL

\* focus_view, activate_workspace and sync_focus call each other only so deep:
\* the view that sync_focus focuses is always one of the current workspace.
THEOREM FocusRecursionAlwaysEnds ==
  ASSUME Everyday
  PROVE  Spec => []FocusRecursionEnds
<1>1. Spec => []FocusInvariant BY FocusStarts, FocusSteps, PTL DEF Spec
<1>2. FocusInvariant => FocusRecursionEnds BY AttendedRuns
<1> QED BY <1>1, <1>2, PTL

\* The only way down is handle_map's: no other handler, in any state the program
\* reaches, dereferences a null pointer or leaves a pointer to a deleted view.
THEOREM OnlyMappingGoesDown ==
  ASSUME Everyday
  PROVE  Spec => KnownWaysDown /\ [][Handled => ~model'.down]_model
<1>1. Spec => []FocusInvariant BY FocusStarts, FocusSteps, PTL DEF Spec
<1>2. FocusInvariant /\ [Next]_model => [Handled => ~model'.down]_model
  <2> SUFFICES ASSUME FocusInvariant, Next, Handled PROVE ~model'.down
    OBVIOUS
  <2>1. Attended(model) BY StepRuns DEF FocusInvariant
  <2> QED BY <2>1, HandledAttended, AttendedUp
<1>3. [Handled => ~model'.down]_model =>
        [~model.down /\ model'.down /\ Handled =>
           \/ \A o \in Attached : model.out[o] # ContextOf(model.workspace)
           \/ /\ \A c \in Contexts : model.ctx[c].output # Null
              /\ \E o \in Outputs : AttachOutput(o)
           \/ /\ model.jumpedFrom # Null
              /\ \E v \in Views \ Mapped :
                   Referenced(model, v) \/ (v = model.jumpedFrom /\ Jump(focus))]_model
  OBVIOUS
<1> QED BY <1>1, <1>2, <1>3, PTL DEF Spec, KnownWaysDown

\* No handler leaves the screen stale: laying every output out anew changes no
\* state.
THEOREM LayoutAlwaysSettled ==
  ASSUME Everyday
  PROVE  Spec => []LayoutIsSettled
<1>1. Spec => []FocusInvariant BY FocusStarts, FocusSteps, PTL DEF Spec
<1>2. FocusInvariant => LayoutIsSettled BY AttendedShows
<1> QED BY <1>1, <1>2, PTL

\* The focus is drawn as such and shown, and a layout that shows one view shows
\* no other one.
THEOREM FocusAlwaysShown ==
  ASSUME Everyday
  PROVE  Spec => []FocusIsShown
<1>1. Spec => []FocusInvariant BY FocusStarts, FocusSteps, PTL DEF Spec
<1>2. FocusInvariant => FocusIsShown BY AttendedShows
<1> QED BY <1>1, <1>2, PTL

\* Under any layout that shows more than one view, a window is shown if and only
\* if it is a view of the workspace on display.
THEOREM ShownAlwaysMapped ==
  ASSUME Everyday, ~LayoutKinds[InitialKind].single
  PROVE  Spec => []ShownIsMapped
<1>1. Spec => []FocusInvariant BY FocusStarts, FocusSteps, PTL DEF Spec
<1>2. FocusInvariant => ShownIsMapped BY AttendedShows DEF Single
<1> QED BY <1>1, <1>2, PTL

==============================================================================
