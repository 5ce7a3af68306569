---------------------------- MODULE InputProofs -----------------------------
(***************************************************************************)
(* Theorems about the system of Input, for all keys, bindings and windows. *)
(*                                                                         *)
(* Key repetition: the cursor never writes what the keyboard reads, so     *)
(* each step is one of Keyboard's or leaves it alone (Steps), and the      *)
(* invariant is the keyboard's own. An action performed by repetition is   *)
(* bound to a key held down only because the action to be repeated always  *)
(* is (RepeatIsHeld), and the repetition goes on only because the timer is *)
(* set, or was taken note of, for as long as there is one (RepeatIsArmed). *)
(*                                                                         *)
(* The windows: each handler of the pointer, and each action performed,    *)
(* takes a coherent desk to a coherent one, ends the grab if it leaves the *)
(* workspace, and moves the edges held only (Handled). What holds of one   *)
(* action holds of all that a key yields by a fold (Folding).              *)
(***************************************************************************)
EXTENDS Input, TLAPS

KeyboardInv == KeyboardTypeOK /\ RepeatIsHeld /\ RepeatIsArmed /\ PerformsWhatIsHeld

\* What a key yields is performed in the order of its symbols.
LEMMA BindingsType ==
  ASSUME NEW k \in Keys, NEW m \in Modifiers
  PROVE  /\ ProcessKeyBindings(k, m) \in Seq(Actions \union {NoAction})
         /\ \A i \in DOMAIN ProcessKeyBindings(k, m) :
              \/ ProcessKeyBindings(k, m)[i] = NoAction
              \/ ProcessKeyBindings(k, m)[i] \in ActionsOf(k)
<1>1. Yields[k] \in Seq(Symbols) BY KeyboardAssumption
<1>2. \A i \in DOMAIN Yields[k] : Yields[k][i] \in Symbols BY <1>1
<1>3. \A i \in DOMAIN Yields[k] : Bound[<< Yields[k][i], m >>] \in Actions \union {NoAction}
  BY <1>2, KeyboardAssumption
<1>4. ProcessKeyBindings(k, m) \in Seq(Actions \union {NoAction})
  <2> DEFINE Binding(i) == Bound[<< Yields[k][i], m >>]
  <2>1. DOMAIN Yields[k] = 1..Len(Yields[k]) /\ Len(Yields[k]) \in Nat BY <1>1
  <2>2. \A i \in 1..Len(Yields[k]) : Binding(i) \in Actions \union {NoAction} BY <1>3, <2>1
  <2>3. ProcessKeyBindings(k, m) = [i \in 1..Len(Yields[k]) |-> Binding(i)]
    BY <2>1 DEF ProcessKeyBindings
  <2> HIDE DEF Binding
  <2> QED BY <2>1, <2>2, <2>3
<1>5. ASSUME NEW i \in DOMAIN Yields[k], Bound[<< Yields[k][i], m >>] # NoAction
      PROVE  Bound[<< Yields[k][i], m >>] \in ActionsOf(k)
  <2>1. Yields[k][i] \in Range(Yields[k]) BY DEF Range
  <2> QED BY <2>1, <1>5 DEF ActionsOf
<1> QED BY <1>4, <1>5 DEF ProcessKeyBindings

\* A repetition begins with the last action performed, of a key that repeats.
LEMMA RepeatedByType ==
  ASSUME NEW k \in Keys, NEW m \in Modifiers, Yields[k] # << >>
  PROVE  /\ RepeatedBy(k, m) \in Actions \union {NoAction}
         /\ RepeatedBy(k, m) # NoAction => RepeatedBy(k, m) \in RepeatableOf(k)
         /\ RepeatedBy(k, m) \in {NoAction, Last(ProcessKeyBindings(k, m))}
<1> DEFINE n == Len(Yields[k])
<1>1. Yields[k] \in Seq(Symbols) BY KeyboardAssumption
<1>2. n \in DOMAIN Yields[k] BY <1>1
<1>3. Last(Yields[k]) = Yields[k][n] BY DEF Last
<1>4. Last(Yields[k]) \in Symbols /\ Last(Yields[k]) \in Range(Yields[k])
  BY <1>1, <1>2, <1>3 DEF Range
<1>5. Bound[<< Last(Yields[k]), m >>] \in Actions \union {NoAction}
  BY <1>4, KeyboardAssumption
<1>6. << Last(Yields[k]), m >>[1] \in Range(Yields[k]) BY <1>4
<1>7. Last(ProcessKeyBindings(k, m)) = Bound[<< Last(Yields[k]), m >>]
  <2>1. Len(ProcessKeyBindings(k, m)) = n
    BY <1>1, BindingsType DEF ProcessKeyBindings
  <2> QED BY <2>1, <1>2, <1>3 DEF ProcessKeyBindings, Last
<1>8. CASE << Last(Yields[k]), m >> \in Repeatable
  BY <1>8, <1>5, <1>6, <1>7 DEF RepeatedBy, RepeatableOf
<1>9. CASE << Last(Yields[k]), m >> \notin Repeatable
  BY <1>9 DEF RepeatedBy
<1> QED BY <1>8, <1>9

\* What repeats while a key is held is one of the actions the key performs.
LEMMA RepeatableIsPerformed ==
  ASSUME NEW k \in Keys PROVE RepeatableOf(k) \subseteq ActionsOf(k)
<1> SUFFICES ASSUME NEW p \in Repeatable, p[1] \in Range(Yields[k]), Bound[p] # NoAction
             PROVE  Bound[p] \in ActionsOf(k)
  BY DEF RepeatableOf
<1>1. p[2] \in Modifiers /\ p = << p[1], p[2] >> BY KeyboardAssumption
<1> QED BY <1>1 DEF ActionsOf

LEMMA Steps == [Next]_vars => [KeyboardNext]_keyboard
BY DEF Next, vars, KeyboardStep, CursorStep

LEMMA InitKeyboard == Init => KeyboardInv
<1>1. << >> \in Seq(Actions \union {NoAction}) OBVIOUS
<1> SUFFICES ASSUME KeyboardInit PROVE KeyboardInv BY DEF Init
<1>2. KeyboardTypeOK
  <2>1. attached \in BOOLEAN /\ armed \in BOOLEAN /\ due \in BOOLEAN BY DEF KeyboardInit
  <2> QED BY <1>1, <2>1 DEF KeyboardInit, KeyboardTypeOK
<1>3. RepeatIsHeld /\ RepeatIsArmed BY DEF KeyboardInit, RepeatIsHeld, RepeatIsArmed
<1>4. PerformsWhatIsHeld BY DEF KeyboardInit, PerformsWhatIsHeld
<1> QED BY <1>2, <1>3, <1>4 DEF KeyboardInv

LEMMA NextKeyboard == KeyboardInv /\ [KeyboardNext]_keyboard => KeyboardInv'
<1> SUFFICES ASSUME KeyboardInv, [KeyboardNext]_keyboard PROVE KeyboardInv' OBVIOUS
<1> USE DEF KeyboardInv
<1>0. << >> \in Seq(Actions \union {NoAction}) OBVIOUS
<1>1. ASSUME NEW k \in Keys, NEW m \in Modifiers, NEW inhibited \in BOOLEAN, Press(k, m, inhibited)
      PROVE  KeyboardInv'
  <2>1. pressed' = pressed \union {k} /\ attached' = attached /\ due' = due BY <1>1 DEF Press
  <2>2. CASE k \in SwitchVTKeys \/ inhibited \/ Yields[k] = << >>
    <3>1. performed' = << >> /\ repeat' = repeat /\ armed' = armed BY <1>1, <2>2 DEF Press
    <3>2. KeyboardTypeOK' BY <1>0, <2>1, <3>1 DEF KeyboardTypeOK
    <3>3. RepeatIsHeld' BY <2>1, <3>1 DEF RepeatIsHeld, RepeatableOf
    <3>4. RepeatIsArmed' BY <2>1, <3>1 DEF RepeatIsArmed
    <3>5. PerformsWhatIsHeld' BY <3>1 DEF PerformsWhatIsHeld
    <3> QED BY <3>2, <3>3, <3>4, <3>5
  <2>3. CASE ~ (k \in SwitchVTKeys \/ inhibited \/ Yields[k] = << >>)
    <3>1. /\ performed' = ProcessKeyBindings(k, m) /\ repeat' = RepeatedBy(k, m)
          /\ armed' = (repeat' # NoAction)
      BY <1>1, <2>3 DEF Press
    <3>2. KeyboardTypeOK'
      <4>1. (repeat \in Actions \union {NoAction} /\ performed \in Seq(Actions \union {NoAction}))'
        BY <2>3, <3>1, BindingsType, RepeatedByType
      <4>2. (attached \in BOOLEAN /\ armed \in BOOLEAN /\ due \in BOOLEAN)'
        BY <2>1, <3>1 DEF KeyboardTypeOK
      <4>3. pressed' \subseteq Keys BY <2>1 DEF KeyboardTypeOK
      <4> QED BY <4>1, <4>2, <4>3 DEF KeyboardTypeOK
    <3>3. RepeatIsHeld' BY <2>1, <2>3, <3>1, RepeatedByType DEF RepeatIsHeld, RepeatableOf
    <3>4. RepeatIsArmed' BY <3>1 DEF RepeatIsArmed
    <3>5. PerformsWhatIsHeld'
      <4>1. \A i \in DOMAIN performed' : performed'[i] = NoAction \/ performed'[i] \in ActionsOf(k)
        BY <3>1, BindingsType
      <4>2. k \in pressed' BY <2>1
      <4> QED BY <4>1, <4>2 DEF PerformsWhatIsHeld
    <3> QED BY <3>2, <3>3, <3>4, <3>5
  <2> QED BY <2>2, <2>3
<1>2. ASSUME NEW k \in Keys, Release(k) PROVE KeyboardInv'
  <2>1. KeyboardTypeOK' BY <1>0, <1>2 DEF KeyboardTypeOK, Release
  <2>2. RepeatIsHeld' /\ RepeatIsArmed' /\ PerformsWhatIsHeld'
    BY <1>2 DEF Release, RepeatIsHeld, RepeatIsArmed, PerformsWhatIsHeld
  <2> QED BY <2>1, <2>2
<1>3. ASSUME Expire PROVE KeyboardInv'
  <2>1. KeyboardTypeOK' BY <1>0, <1>3 DEF KeyboardTypeOK, Expire
  <2>2. RepeatIsHeld' BY <1>3 DEF Expire, RepeatIsHeld, RepeatableOf
  <2>3. RepeatIsArmed' /\ PerformsWhatIsHeld' BY <1>3 DEF Expire, RepeatIsArmed, PerformsWhatIsHeld
  <2> QED BY <2>1, <2>2, <2>3
<1>4. ASSUME Dispatch PROVE KeyboardInv'
  <2>1. KeyboardTypeOK'
    <3>1. performed' \in Seq(Actions \union {NoAction})
      <4>1. repeat \in Actions \union {NoAction} BY DEF KeyboardTypeOK
      <4>2. << repeat >> \in Seq(Actions \union {NoAction}) BY <4>1
      <4> QED BY <1>0, <1>4, <4>2 DEF Dispatch
    <3>2. (attached \in BOOLEAN /\ armed \in BOOLEAN /\ due \in BOOLEAN)'
      BY <1>4 DEF KeyboardTypeOK, Dispatch
    <3>3. (pressed \subseteq Keys /\ repeat \in Actions \union {NoAction})'
      BY <1>4 DEF KeyboardTypeOK, Dispatch
    <3> QED BY <3>1, <3>2, <3>3 DEF KeyboardTypeOK
  <2>2. RepeatIsHeld' BY <1>4 DEF Dispatch, RepeatIsHeld, RepeatableOf
  <2>3. RepeatIsArmed' BY <1>4 DEF Dispatch, RepeatIsArmed
  <2>4. PerformsWhatIsHeld'
    <3>1. CASE repeat = NoAction BY <1>4, <3>1 DEF Dispatch, PerformsWhatIsHeld
    <3>2. CASE repeat # NoAction
      <4>1. PICK k \in pressed : repeat \in RepeatableOf(k) BY <3>2 DEF RepeatIsHeld
      <4>2. k \in Keys BY DEF KeyboardTypeOK
      <4>3. repeat \in ActionsOf(k) BY <4>1, <4>2, RepeatableIsPerformed
      <4> QED BY <1>4, <3>2, <4>3 DEF Dispatch, PerformsWhatIsHeld, ActionsOf
    <3> QED BY <3>1, <3>2
  <2> QED BY <2>1, <2>2, <2>3, <2>4
<1>5. ASSUME Unplug \/ Plug \/ UNCHANGED keyboard PROVE KeyboardInv'
  <2>1. CASE Unplug
    <3>1. (attached \in BOOLEAN /\ armed \in BOOLEAN /\ due \in BOOLEAN)' BY <2>1 DEF Unplug
    <3>2. KeyboardTypeOK' BY <1>0, <2>1, <3>1 DEF Unplug, KeyboardTypeOK
    <3> QED BY <2>1, <3>2 DEF Unplug, RepeatIsHeld, RepeatIsArmed, PerformsWhatIsHeld
  <2>2. CASE Plug
    <3>1. (attached \in BOOLEAN /\ armed \in BOOLEAN /\ due \in BOOLEAN)'
      BY <2>2 DEF Plug, KeyboardTypeOK
    <3>2. KeyboardTypeOK' BY <1>0, <2>2, <3>1 DEF Plug, KeyboardTypeOK
    <3> QED BY <2>2, <3>2 DEF Plug, RepeatIsHeld, RepeatIsArmed, PerformsWhatIsHeld, RepeatableOf
  <2>3. CASE UNCHANGED keyboard
    <3>1. /\ attached' = attached /\ pressed' = pressed /\ repeat' = repeat
          /\ armed' = armed /\ due' = due /\ performed' = performed
      BY <2>3 DEF keyboard
    <3>2. KeyboardTypeOK' BY <3>1 DEF KeyboardTypeOK
    <3>3. RepeatIsHeld' /\ RepeatIsArmed' BY <3>1 DEF RepeatIsHeld, RepeatIsArmed, RepeatableOf
    <3>4. PerformsWhatIsHeld' BY <3>1 DEF PerformsWhatIsHeld, ActionsOf
    <3> QED BY <3>2, <3>3, <3>4
  <2> QED BY <1>5, <2>1, <2>2, <2>3
<1> QED BY <1>1, <1>2, <1>3, <1>4, <1>5 DEF KeyboardNext

\* The keyboard's state has its type, what repeats is bound to a key held down,
\* and its timer is set or has just expired: whatever the pointer does meanwhile.
THEOREM KeyboardInvariant == Spec => []KeyboardInv
BY InitKeyboard, NextKeyboard, Steps, PTL DEF Spec

\* Nothing is performed, at once or by repetition, that no key held down is
\* bound to, whenever the call of the timer comes.
THEOREM Performing == Spec => []PerformsWhatIsHeld
<1>1. KeyboardInv => PerformsWhatIsHeld BY DEF KeyboardInv
<1> QED BY <1>1, KeyboardInvariant, PTL

\* What is to be repeated never waits for a timer that is off.
THEOREM Repetition == Spec => [](RepeatIsHeld /\ RepeatIsArmed)
<1>1. KeyboardInv => RepeatIsHeld /\ RepeatIsArmed BY DEF KeyboardInv
<1> QED BY <1>1, KeyboardInvariant, PTL

\* Every step of the keyboard is a step of the abstract repeater, or none.
LEMMA StepsRepeat ==
  KeyboardInv /\ [KeyboardNext]_keyboard => [Repeating!Next]_<< repeat, performed >>
<1> SUFFICES ASSUME KeyboardInv, [KeyboardNext]_keyboard
             PROVE  [Repeating!Next]_<< repeat, performed >>
  OBVIOUS
<1> USE DEF Repeating!Next
<1>1. ASSUME NEW k \in Keys, NEW m \in Modifiers, NEW inhibited \in BOOLEAN, Press(k, m, inhibited)
      PROVE  [Repeating!Next]_<< repeat, performed >>
  <2>1. CASE k \in SwitchVTKeys \/ inhibited \/ Yields[k] = << >>
    BY <1>1, <2>1 DEF Press, Repeating!Rest
  <2>2. CASE ~ (k \in SwitchVTKeys \/ inhibited \/ Yields[k] = << >>)
    <3>1. performed' = ProcessKeyBindings(k, m) /\ repeat' = RepeatedBy(k, m)
      BY <1>1, <2>2 DEF Press
    <3>2. performed' # << >>
      <4>1. Yields[k] \in Seq(Symbols) /\ Yields[k] # << >> BY <2>2, KeyboardAssumption
      <4>2. 1 \in DOMAIN Yields[k] BY <4>1
      <4> QED BY <3>1, <4>2 DEF ProcessKeyBindings
    <3>3. repeat' \in {NoAction, performed'[Len(performed')]}
      BY <3>1, <2>2, RepeatedByType DEF Last
    <3> QED BY <3>1, <3>2, <3>3, BindingsType DEF Repeating!Choose
  <2> QED BY <2>1, <2>2
<1>2. ASSUME NEW k \in Keys, Release(k) PROVE Repeating!Stop BY <1>2 DEF Release, Repeating!Stop
<1>3. ASSUME Expire PROVE Repeating!Rest BY <1>3 DEF Expire, Repeating!Rest
<1>4. ASSUME Dispatch PROVE [Repeating!Next]_<< repeat, performed >>
  <2>1. CASE repeat = NoAction BY <1>4, <2>1 DEF Dispatch, Repeating!Rest
  <2>2. CASE repeat # NoAction
    <3>1. performed' = << repeat >> /\ repeat' = repeat BY <1>4, <2>2 DEF Dispatch
    <3>2. repeat \in Actions \union {NoAction} BY DEF KeyboardInv, KeyboardTypeOK
    <3> QED BY <3>1, <3>2 DEF Repeating!Choose
  <2> QED BY <2>1, <2>2
<1>5. ASSUME Unplug PROVE Repeating!Stop BY <1>5 DEF Unplug, Repeating!Stop
<1>6. ASSUME Plug PROVE Repeating!Rest BY <1>6 DEF Plug, Repeating!Rest
<1>7. CASE UNCHANGED keyboard BY <1>7 DEF keyboard
<1> QED BY <1>1, <1>2, <1>3, <1>4, <1>5, <1>6, <1>7 DEF KeyboardNext

\* The keyboard with its timer implements the repeater, but for its liveness.
THEOREM RepeaterSafety ==
  Spec => Repeating!Init /\ [][Repeating!Next]_<< repeat, performed >>
<1>1. Init => Repeating!Init BY DEF Init, KeyboardInit, Repeating!Init
<1> QED BY <1>1, KeyboardInvariant, StepsRepeat, Steps, PTL DEF Spec

----------------------------------------------------------------------------
(* The desk. Every handler keeps it coherent, whatever the keyboard performs. *)

Performs == INSTANCE Folding WITH Op <- Perform

\* What every action performed keeps, performing all of them in turn keeps.
LEMMA PerformFold ==
  ASSUME NEW G, NEW d \in G, NEW s, NEW n \in Nat, DOMAIN s = 1..n,
         \A x \in G, i \in 1..n : Perform(x, s[i]) \in G
  PROVE  FoldLeft(Perform, d, s) \in G
<1>1. Performs!Folded(d, s) \in G BY Performs!FoldKeeps
<1>2. FoldLeft(Perform, d, s) = Performs!Folded(d, s)
  BY DEF Performs!Folded, FoldLeft, Performs!FoldLeft, MapThenFoldSet,
         Performs!MapThenFoldSet, Max, Performs!Max
<1> QED BY <1>1, <1>2

\* A desk's parts have their types.
LEMMA DeskParts ==
  ASSUME NEW d \in Desks
  PROVE  /\ d.pointer \in [Axes -> Int] /\ d.mode \in {"Passthrough", "Move", "Resize"}
         /\ d.grab \in Grabs /\ d.windows \in [Views -> Windows]
         /\ d.focused \in Views \union {Null} /\ d.active \in Workspaces /\ d.grabs \in Nat
BY DEF Desks

\* A region of a view set anew leaves everything else alone.
LEMMA RegionSet ==
  ASSUME NEW d \in Coherent, NEW v \in Views, NEW r \in Regions
  PROVE  /\ SetFreeRegion(d, v, r) \in Coherent
         /\ SetFreeRegion(d, v, r).active = d.active
         /\ SetFreeRegion(d, v, r).mode = d.mode /\ SetFreeRegion(d, v, r).grab = d.grab
         /\ SetFreeRegion(d, v, r).focused = d.focused
         /\ \A u \in Views : SetFreeRegion(d, v, r).windows[u].free =
                             IF u = v THEN r ELSE d.windows[u].free
<1> DEFINE w == [d.windows[v] EXCEPT !.free = r, !.prev = d.windows[v].active, !.active = r]
           ws == [d.windows EXCEPT ![v] = w]
<1>1. d \in Desks /\ d.windows \in [Views -> Windows] BY DeskParts DEF Coherent
<1>2. d.windows[v] \in Windows BY <1>1
<1>3. w \in Windows /\ w.free = r BY <1>2 DEF Windows
<1>4. SetFreeRegion(d, v, r) = [d EXCEPT !.windows = ws]
  BY <1>1, <1>2 DEF SetFreeRegion, SetActiveRegion, Desks, Windows
<1> HIDE DEF w
<1>5. ws \in [Views -> Windows] BY <1>1, <1>3
<1>6. \A u \in Views : ws[u].free = IF u = v THEN r ELSE d.windows[u].free BY <1>1, <1>3
<1> HIDE DEF ws
<1> QED BY <1>1, <1>4, <1>5, <1>6 DEF Coherent, Desks

LEMMA PositionSet ==
  ASSUME NEW d \in Coherent, NEW v \in Views, NEW p \in [Axes -> Int]
  PROVE  /\ SetFreePos(d, v, p) \in Coherent
         /\ SetFreePos(d, v, p).active = d.active /\ SetFreePos(d, v, p).mode = d.mode
<1> DEFINE w == [d.windows[v] EXCEPT !.free.pos = p, !.prev = d.windows[v].active, !.active.pos = p]
           ws == [d.windows EXCEPT ![v] = w]
<1>1. d \in Desks /\ d.windows \in [Views -> Windows] BY DeskParts DEF Coherent
<1>2. d.windows[v] \in Windows BY <1>1
<1>3. w \in Windows BY <1>2 DEF Windows, Regions
<1>4. SetFreePos(d, v, p) = [d EXCEPT !.windows = ws]
  BY <1>1, <1>2, ZenonT(40) DEF SetFreePos, SetActivePos, Desks, Windows
<1> HIDE DEF w
<1>5. ws \in [Views -> Windows] BY <1>1, <1>3
<1> HIDE DEF ws
<1> QED BY <1>1, <1>4, <1>5 DEF Coherent, Desks

----------------------------------------------------------------------------
(* Grabs and the workspace.                                                *)

\* A grab begins on a view, with the region the view has, and moves nothing.
LEMMA GrabBegins ==
  ASSUME NEW d \in Coherent, NEW v \in Views, NEW mode \in {"Move", "Resize"},
         NEW edges \in [Axes -> {"low", "high", "none"}]
  PROVE  /\ Grabbing(d, mode, v, edges) \in Coherent
         /\ Grabbing(d, mode, v, edges).active = d.active
         /\ Grabbing(d, mode, v, edges).windows = d.windows
<1> DEFINE g == [view |-> v, at |-> d.pointer, region |-> d.windows[v].free, edges |-> edges]
<1>1. d \in Desks /\ d.windows[v] \in Windows BY DeskParts DEF Coherent
<1>2. g \in Grabs /\ g.view \in Views /\ g.region \in Regions BY <1>1, DeskParts DEF Grabs, Windows
<1> DEFINE e == [d EXCEPT !.mode = mode, !.grabs = d.grabs + 1, !.grab = g]
<1>3. Grabbing(d, mode, v, edges) = e
  BY <1>1 DEF Grabbing
<1> HIDE DEF g
<1>4. e \in Desks /\ e.grab = g /\ e.active = d.active /\ e.windows = d.windows
  <2>1. d.grabs + 1 \in Nat BY <1>1, DeskParts
  <2> QED BY <1>1, <1>2, <2>1 DEF Desks
<1> HIDE DEF e
<1>5. e \in Coherent BY <1>2, <1>4 DEF Coherent
<1> QED BY <1>3, <1>4, <1>5

LEMMA InteractiveBegins ==
  ASSUME NEW d \in Coherent, NEW v \in Views, NEW mode \in {"Move", "Resize"}
  PROVE  \A e \in {InitiateCursorInteractive(d, mode, v), CursorInteractive(d, mode, v)} :
           e \in Coherent /\ e.active = d.active /\ e.windows = d.windows
<1>1. NearestCorner(d, v) \in [Axes -> {"low", "high", "none"}] BY DEF NearestCorner
<1>2. NoEdge \in [Axes -> {"low", "high", "none"}] BY DEF NoEdge
<1> HIDE DEF Coherent
<1>3. /\ InitiateCursorInteractive(d, mode, v) \in Coherent
      /\ InitiateCursorInteractive(d, mode, v).active = d.active
      /\ InitiateCursorInteractive(d, mode, v).windows = d.windows
  BY <1>1, <1>2, GrabBegins DEF InitiateCursorInteractive
<1> QED BY <1>3 DEF CursorInteractive

\* A workspace becomes active only with the grab ended.
LEMMA WorkspaceActivates ==
  ASSUME NEW d \in Coherent, NEW w \in Workspaces
  PROVE  /\ ActivateWorkspace(d, w) \in Coherent
         /\ ActivateWorkspace(d, w).windows = d.windows
         /\ ActivateWorkspace(d, w) = d \/ ActivateWorkspace(d, w).mode = "Passthrough"
<1> DEFINE g == [d.grab EXCEPT !.view = Null]
<1>1. d \in Desks /\ d.grab \in Grabs BY DeskParts DEF Coherent
<1>2. g \in Grabs BY <1>1 DEF Grabs
<1>3. ActivateWorkspace(d, w) =
        IF w = d.active THEN d ELSE [d EXCEPT !.mode = "Passthrough", !.grab = g, !.active = w]
  BY <1>1 DEF ActivateWorkspace, AbortCursorInteractive, Desks
<1> HIDE DEF g
<1> QED BY <1>1, <1>2, <1>3 DEF Coherent, Desks

LEMMA ViewFocused ==
  ASSUME NEW d \in Coherent, NEW v \in Views
  PROVE  /\ FocusView(d, v) \in Coherent /\ FocusView(d, v).windows = d.windows
         /\ FocusView(d, v).active = d.active \/ FocusView(d, v).mode = "Passthrough"
<1>1. Home[v] \in Workspaces BY CursorAssumption
<1> DEFINE e == ActivateWorkspace(d, Home[v])
<1>2. /\ e \in Coherent
      /\ e.windows = d.windows
      /\ e = d \/ e.mode = "Passthrough"
  BY <1>1, WorkspaceActivates
<1>3. FocusView(d, v) = IF v = d.focused THEN d ELSE [e EXCEPT !.focused = v] BY DEF FocusView
<1> HIDE DEF e
<1> QED BY <1>2, <1>3 DEF Coherent, Desks

----------------------------------------------------------------------------
(* Motion, and the edges it may move.                                      *)

LEMMA RegionWhenResized ==
  ASSUME NEW d \in Coherent, d.mode = "Resize", Grabbed(d)
  PROVE  /\ Resized(d) \in Regions
         /\ \A a \in Axes : IF d.grab.edges[a] = "low"
                            THEN High(Resized(d), a) = High(d.grab.region, a)
                            ELSE Resized(d).pos[a] = d.windows[d.grab.view].free.pos[a]
<1>1. /\ d.pointer \in [Axes -> Int] /\ d.grab \in Grabs
      /\ d.grab.view \in Views /\ d.grab.region \in Regions /\ d.windows[d.grab.view] \in Windows
  BY DeskParts DEF Coherent
<1> DEFINE free == d.windows[d.grab.view].free
<1>2. /\ d.grab.at \in [Axes -> Int] /\ d.grab.region.pos \in [Axes -> Int]
      /\ d.grab.region.dim \in [Axes -> Int] /\ free.pos \in [Axes -> Int]
  BY <1>1 DEF Grabs, Regions, Windows
<1> HIDE DEF free
<1>3. ASSUME NEW a \in Axes
      PROVE  /\ ResizedDim(d, a) \in Int /\ ResizedPos(d, a) \in Int
             /\ d.grab.edges[a] = "low" =>
                  ResizedPos(d, a) + ResizedDim(d, a) = d.grab.region.pos[a] + d.grab.region.dim[a]
             /\ d.grab.edges[a] # "low" => ResizedPos(d, a) = free.pos[a]
  <2> DEFINE at == d.grab.at[a]
             p == d.pointer[a]
             rp == d.grab.region.pos[a]
             rd == d.grab.region.dim[a]
             dim == ResizedDim(d, a)
  <2>1. at \in Int /\ p \in Int /\ rp \in Int /\ rd \in Int /\ free.pos[a] \in Int BY <1>1, <1>2
  <2>2. dim = AtLeast(IF d.grab.edges[a] = "low" THEN rd - (p - at) ELSE rd + (p - at), 0)
    BY DEF ResizedDim
  <2>3. ResizedPos(d, a) = IF d.grab.edges[a] = "low" THEN rp + (rd - dim) ELSE free.pos[a]
    BY DEF ResizedPos, free
  <2> HIDE DEF at, p, rp, rd, dim
  <2>4. dim \in Int BY <2>1, <2>2 DEF AtLeast
  <2>5. CASE d.grab.edges[a] = "low" BY <2>1, <2>3, <2>4, <2>5 DEF dim, rp, rd
  <2>6. CASE d.grab.edges[a] # "low" BY <2>1, <2>3, <2>4, <2>6 DEF dim
  <2> QED BY <2>5, <2>6
<1>4. /\ Resized(d).pos = [a \in Axes |-> ResizedPos(d, a)]
      /\ Resized(d).dim = [a \in Axes |-> ResizedDim(d, a)]
  BY DEF Resized
<1>5. Resized(d) \in Regions BY <1>3 DEF Resized, Regions
<1> QED BY <1>3, <1>4, <1>5 DEF High, free

LEMMA CursorMoves ==
  ASSUME NEW d \in Coherent, NEW under \in Views \union {Null}
  PROVE  /\ ProcessCursorMotion(d, under) \in Coherent
         /\ \/ ProcessCursorMotion(d, under).active = d.active
            \/ ProcessCursorMotion(d, under).mode = "Passthrough"
         /\ OnlyHeldEdgesMove(d, ProcessCursorMotion(d, under))
<1> DEFINE e == ProcessCursorMotion(d, under)
<1>0. d.mode \in {"Passthrough", "Move", "Resize"} BY DeskParts DEF Coherent
<1>1. CASE d.mode = "Passthrough"
  <2>1. e = MotionToClient(d, under) BY <1>1 DEF ProcessCursorMotion
  <2>2. CASE under = Null BY <2>1, <2>2 DEF MotionToClient, OnlyHeldEdgesMove
  <2>3. CASE under # Null
    <3>1. e = FocusView(d, under) /\ under \in Views BY <2>1, <2>3 DEF MotionToClient
    <3> HIDE DEF e
    <3> QED BY <3>1, ViewFocused DEF OnlyHeldEdgesMove, e
  <2> QED BY <2>2, <2>3
<1>2. CASE d.mode = "Move" /\ Grabbed(d)
  <2> DEFINE p == [a \in Axes |-> d.grab.region.pos[a] + d.pointer[a] - d.grab.at[a]]
  <2>1. /\ d.pointer \in [Axes -> Int] /\ d.grab \in Grabs
        /\ d.grab.view \in Views /\ d.grab.region \in Regions
    BY <1>2, DeskParts DEF Coherent
  <2>2. p \in [Axes -> Int] BY <2>1 DEF Grabs, Regions
  <2>3. e = SetFreePos(d, d.grab.view, p) BY <1>2 DEF ProcessCursorMotion, ProcessCursorMove
  <2>4. OnlyHeldEdgesMove(d, e) BY <1>2 DEF OnlyHeldEdgesMove
  <2> HIDE DEF p, e
  <2>5. e \in Coherent /\ e.active = d.active BY <2>1, <2>2, <2>3, PositionSet
  <2> QED BY <2>4, <2>5 DEF e
<1>3. CASE d.mode = "Resize" /\ Grabbed(d)
  <2>1. e = ProcessCursorResize(d) BY <1>3 DEF ProcessCursorMotion
  <2>2. CASE Resized(d) = d.windows[d.grab.view].prev
    BY <2>1, <2>2 DEF ProcessCursorResize, OnlyHeldEdgesMove
  <2>3. CASE Resized(d) # d.windows[d.grab.view].prev
    <3> DEFINE r == Resized(d)
    <3>1. e = SetFreeRegion(d, d.grab.view, r) BY <2>1, <2>3 DEF ProcessCursorResize
    <3>2. d.grab.view \in Views BY <1>3 DEF Grabbed
    <3>3. /\ r \in Regions
          /\ \A a \in Axes : IF d.grab.edges[a] = "low"
                             THEN High(r, a) = High(d.grab.region, a)
                             ELSE r.pos[a] = d.windows[d.grab.view].free.pos[a]
      BY <1>3, RegionWhenResized
    <3> HIDE DEF e, r
    <3>4. /\ e \in Coherent
          /\ e.active = d.active
          /\ \A u \in Views : e.windows[u].free = IF u = d.grab.view THEN r ELSE d.windows[u].free
      BY <3>1, <3>2, <3>3, RegionSet
    <3>5. OnlyHeldEdgesMove(d, e) BY <1>3, <3>3, <3>4 DEF OnlyHeldEdgesMove
    <3> QED BY <3>4, <3>5 DEF e
  <2> QED BY <2>2, <2>3
<1>4. CASE d.mode # "Passthrough" /\ ~Grabbed(d)
  BY <1>4 DEF ProcessCursorMotion, OnlyHeldEdgesMove
<1> QED BY <1>0, <1>1, <1>2, <1>3, <1>4

LEMMA MotionHandled ==
  ASSUME NEW d \in Coherent, NEW point \in Points, NEW under \in Views \union {Null}
  PROVE  /\ HandleCursorMotion(d, point, under) \in Coherent
         /\ \/ HandleCursorMotion(d, point, under).active = d.active
            \/ HandleCursorMotion(d, point, under).mode = "Passthrough"
         /\ OnlyHeldEdgesMove(d, HandleCursorMotion(d, point, under))
<1> DEFINE c == [d EXCEPT !.pointer = point]
           e == ProcessCursorMotion(c, under)
<1>1. point \in [Axes -> Int] BY CursorAssumption
<1>2. /\ c \in Coherent
      /\ c.active = d.active /\ c.mode = d.mode /\ c.grab = d.grab /\ c.windows = d.windows
  BY <1>1 DEF Coherent, Desks
<1>3. HandleCursorMotion(d, point, under) = e BY DEF HandleCursorMotion
<1> HIDE DEF c
<1>4. /\ e \in Coherent
      /\ e.active = c.active \/ e.mode = "Passthrough"
      /\ OnlyHeldEdgesMove(c, e)
  BY <1>2, CursorMoves
<1> HIDE DEF e
<1> QED BY <1>2, <1>3, <1>4 DEF OnlyHeldEdgesMove

----------------------------------------------------------------------------
(* The steps of the pointer.                                               *)

\* What is kept by a handler: the desk is coherent, a workspace is left only
\* with the grab ended, and no edge moves that is not held.
Handled(d, e) == /\ e \in Coherent
                 /\ e.active = d.active \/ e.mode = "Passthrough"
                 /\ OnlyHeldEdgesMove(d, e)

LEMMA NothingMoved ==
  ASSUME NEW d, NEW e, e.windows = d.windows PROVE OnlyHeldEdgesMove(d, e)
BY DEF OnlyHeldEdgesMove

LEMMA BindingGrabs ==
  ASSUME NEW d \in Coherent, NEW v \in Views, NEW mode \in {"Move", "Resize"}
  PROVE  Handled(d, ProcessCursorbinding(d, mode, v))
<1> DEFINE c == CursorInteractive(d, mode, v)
           e == FocusView(c, v)
<1>1. c \in Coherent /\ c.active = d.active /\ c.windows = d.windows BY InteractiveBegins
<1> HIDE DEF c
<1>2. /\ e \in Coherent
      /\ e.windows = c.windows
      /\ e.active = c.active \/ e.mode = "Passthrough"
  BY <1>1, ViewFocused
<1>3. ProcessCursorbinding(d, mode, v) = e BY DEF ProcessCursorbinding, c
<1> HIDE DEF e
<1> QED BY <1>1, <1>2, <1>3, NothingMoved DEF Handled

LEMMA ResizeRequested ==
  ASSUME NEW d \in Coherent, NEW v \in Views, NEW edges \in Corners
  PROVE  Handled(d, RequestResize(d, v, edges))
<1>1. edges \in [Axes -> {"low", "high", "none"}] BY CursorAssumption
<1>2. \A e : e \in Coherent /\ e.active = d.active /\ e.windows = d.windows => Handled(d, e)
  BY NothingMoved DEF Handled
<1> HIDE DEF Coherent
<1> QED BY <1>1, <1>2, GrabBegins DEF RequestResize

LEMMA MoveRequested ==
  ASSUME NEW d \in Coherent, NEW v \in Views PROVE Handled(d, RequestMove(d, v))
<1>2. \A e \in {InitiateCursorInteractive(d, "Move", v), CursorInteractive(d, "Move", v)} :
        e \in Coherent /\ e.active = d.active /\ e.windows = d.windows
  BY InteractiveBegins
<1> HIDE DEF Coherent
<1> QED BY <1>2, NothingMoved DEF RequestMove, Handled

LEMMA DragStarts ==
  ASSUME NEW d \in Coherent, NEW under \in Views \union {Null}
  PROVE  Handled(d, StartDrag(d, under))
<1> DEFINE c == ProcessCursorMotion(d, Null)
           e == CursorInteractive(c, "Move", under)
<1>1. /\ c \in Coherent
      /\ c.active = d.active \/ c.mode = "Passthrough"
      /\ OnlyHeldEdgesMove(d, c)
  BY CursorMoves
<1>2. d.mode = "Passthrough" => c = d BY DEF ProcessCursorMotion, MotionToClient
<1>3. c.mode = d.mode
  BY DEF ProcessCursorMotion, MotionToClient, ProcessCursorMove, ProcessCursorResize,
         SetFreePos, SetActivePos, SetFreeRegion, SetActiveRegion, Coherent, Desks
<1>4. StartDrag(d, under) = IF c.mode = "Passthrough" /\ under # Null THEN e ELSE c
  BY DEF StartDrag
<1>5. CASE c.mode = "Passthrough" /\ under # Null
  <2>1. c = d /\ under \in Views BY <1>2, <1>3, <1>5
  <2>2. e \in Coherent /\ e.active = d.active /\ e.windows = d.windows
    BY <2>1, InteractiveBegins
  <2> HIDE DEF c, e
  <2> QED BY <1>4, <1>5, <2>2, NothingMoved DEF Handled
<1>6. CASE ~(c.mode = "Passthrough" /\ under # Null)
  <2> HIDE DEF c, e
  <2> QED BY <1>1, <1>4, <1>6 DEF Handled
<1> QED BY <1>5, <1>6

LEMMA WindowCloses ==
  ASSUME NEW d \in Coherent, NEW v \in Views, NEW next \in Views \union {Null}
  PROVE  Handled(d, Close(d, v, next))
<1> DEFINE w == [d.windows[v] EXCEPT !.open = FALSE]
           ws == [d.windows EXCEPT ![v] = w]
<1>1. d \in Desks /\ d.windows \in [Views -> Windows] /\ d.focused \in Views \union {Null}
  BY DeskParts DEF Coherent
<1>2. w \in Windows /\ w.free = d.windows[v].free BY <1>1 DEF Windows
<1>3. Close(d, v, next) = [d EXCEPT !.windows = ws, !.focused = IF @ = v THEN next ELSE @]
  BY <1>1 DEF Close, Desks
<1> HIDE DEF w
<1>4. ws \in [Views -> Windows] /\ \A u \in Views : ws[u].free = d.windows[u].free BY <1>1, <1>2
<1> HIDE DEF ws
<1>5. /\ Close(d, v, next) \in Coherent
      /\ Close(d, v, next).windows = ws /\ Close(d, v, next).active = d.active
  BY <1>1, <1>3, <1>4 DEF Coherent, Desks
<1>6. OnlyHeldEdgesMove(d, Close(d, v, next)) BY <1>4, <1>5 DEF OnlyHeldEdgesMove
<1> QED BY <1>5, <1>6 DEF Handled

LEMMA PointerSteps ==
  ASSUME desk \in Coherent, CursorNext PROVE Handled(desk, desk')
<1> HIDE DEF Coherent
<1>1. Opened \subseteq Views BY DEF Opened
<1>2. CASE Motion BY <1>1, <1>2, MotionHandled DEF Motion, Handled
<1>3. CASE Grab
  <2>1. ASSUME NEW v \in Opened, NEW mode \in {"Move", "Resize"},
               desk' = ProcessCursorbinding(desk, mode, v)
        PROVE  Handled(desk, desk')
    BY <1>1, <2>1, BindingGrabs
  <2>2. ASSUME NEW v \in Opened, desk' = RequestMove(desk, v) PROVE Handled(desk, desk')
    BY <1>1, <2>2, MoveRequested
  <2>3. ASSUME NEW v \in Opened, NEW edges \in Corners, desk' = RequestResize(desk, v, edges)
        PROVE  Handled(desk, desk')
    BY <1>1, <2>3, ResizeRequested
  <2>4. ASSUME NEW v \in Opened \union {Null}, desk' = StartDrag(desk, v) PROVE Handled(desk, desk')
    BY <1>1, <2>4, DragStarts
  <2> QED BY <1>3, <2>1, <2>2, <2>3, <2>4 DEF Grab
<1>4. CASE PressButton
  <2>1. PICK v \in Views : desk' = FocusView(desk, v) BY <1>1, <1>4 DEF PressButton
  <2> QED BY <2>1, ViewFocused, NothingMoved DEF Handled
<1>5. CASE LetGo
  <2>1. desk' = [desk EXCEPT !.mode = "Passthrough"] BY <1>5 DEF LetGo, ReleaseButton
  <2>2. desk' \in Coherent /\ desk'.active = desk.active /\ desk'.windows = desk.windows
    BY <2>1 DEF Coherent, Desks
  <2> QED BY <2>2, NothingMoved DEF Handled
<1>6. CASE CloseWindow BY <1>1, <1>6, WindowCloses DEF CloseWindow
<1> QED BY <1>2, <1>3, <1>4, <1>5, <1>6 DEF CursorNext

----------------------------------------------------------------------------
(* The steps of the keyboard.                                              *)

\* A stretch moves one edge, and leaves the one opposite where it was.
LEMMA StretchMovesOneEdge ==
  ASSUME NEW r \in Regions, NEW action \in DOMAIN Stretches
  PROVE  LET is == ApplyExtents(Stretched(RemoveExtents(r), Stretches[action])) IN
         /\ is \in Regions
         /\ \A a \in Axes : is.pos[a] = r.pos[a] \/ High(is, a) = High(r, a)
<1> DEFINE s == Stretches[action]
           f == RemoveExtents(r)
           g == Stretched(f, s)
           is == ApplyExtents(g)
           dim == StretchedDim(f, s)
<1>1. s.axis \in Axes /\ s.edge \in {"low", "high"} /\ s.change \in Int BY InputAssumption
<1>2. r.pos \in [Axes -> Int] /\ r.dim \in [Axes -> Int] BY DEF Regions
<1>3. \A a \in Axes : Frame[a].low \in Int /\ Frame[a].high \in Int BY CursorAssumption
<1>4. /\ f \in Regions
      /\ \A a \in Axes : f.pos[a] = r.pos[a] + Frame[a].low
                        /\ f.dim[a] = r.dim[a] - Frame[a].low - Frame[a].high
  BY <1>2, <1>3 DEF RemoveExtents, Regions
<1>5. dim \in Int
  <2>1. f.dim[s.axis] \in Int BY <1>1, <1>4 DEF Regions
  <2>2. MinViewDim[s.axis] \in Int BY <1>1 DEF MinViewDim, Axes
  <2> QED BY <1>1, <2>1, <2>2 DEF StretchedDim, AtLeast
<1>6. /\ g \in Regions
      /\ \A a \in Axes : g.pos[a] = f.pos[a] \/ g.pos[a] + g.dim[a] = f.pos[a] + f.dim[a]
  <2> HIDE DEF f, s, dim
  <2>0. f.pos \in [Axes -> Int] /\ f.dim \in [Axes -> Int] BY <1>4 DEF Regions
  <2>1. CASE TooSmallToStretch(f, s) BY <1>4, <2>1 DEF Stretched
  <2>2. CASE ~TooSmallToStretch(f, s)
    <3> DEFINE p == IF s.edge = "low" THEN f.pos[s.axis] - (dim - f.dim[s.axis]) ELSE f.pos[s.axis]
    <3>1. f.pos[s.axis] \in Int /\ f.dim[s.axis] \in Int BY <1>1, <2>0
    <3>2. p \in Int /\ (p = f.pos[s.axis] \/ p + dim = f.pos[s.axis] + f.dim[s.axis])
      BY <1>5, <3>1
    <3>3. g = [f EXCEPT !.dim = [@ EXCEPT ![s.axis] = dim], !.pos = [@ EXCEPT ![s.axis] = p]]
      BY <2>2, <1>1, <2>0, <1>4 DEF Stretched, Regions, dim
    <3> HIDE DEF p, g
    <3> QED BY <1>1, <1>4, <1>5, <2>0, <3>2, <3>3 DEF Regions
  <2> QED BY <2>1, <2>2
<1> HIDE DEF f, g
<1>7. g.pos \in [Axes -> Int] /\ g.dim \in [Axes -> Int] BY <1>6 DEF Regions
<1>8. /\ is \in Regions
      /\ \A a \in Axes : is.pos[a] = g.pos[a] - Frame[a].low
                        /\ is.dim[a] = g.dim[a] + Frame[a].low + Frame[a].high
  BY <1>3, <1>7 DEF ApplyExtents, Regions
<1> HIDE DEF is
<1>9. ASSUME NEW a \in Axes PROVE is.pos[a] = r.pos[a] \/ High(is, a) = High(r, a)
  <2>1. /\ r.pos[a] \in Int /\ r.dim[a] \in Int /\ g.pos[a] \in Int /\ g.dim[a] \in Int
        /\ Frame[a].low \in Int /\ Frame[a].high \in Int
    BY <1>2, <1>3, <1>7
  <2> QED BY <1>4, <1>6, <1>8, <2>1 DEF High
<1> QED BY <1>8, <1>9 DEF is, g, f

\* From d to e no view has had both edges of an axis moved.
OneEdge(d, e) ==
  \A v \in Views, a \in Axes :
    LET was == d.windows[v].free
        is  == e.windows[v].free
    IN  is.pos[a] = was.pos[a] \/ High(is, a) = High(was, a)

LEMMA StretchPerformed ==
  ASSUME NEW d \in Coherent, NEW v \in Views \union {Null}, NEW action \in DOMAIN Stretches
  PROVE  /\ StretchView(d, v, Stretches[action]) \in Coherent
         /\ StretchView(d, v, Stretches[action]).active = d.active
         /\ StretchView(d, v, Stretches[action]).mode = d.mode
         /\ OneEdge(d, StretchView(d, v, Stretches[action]))
<1> DEFINE s == Stretches[action]
           e == StretchView(d, v, s)
           r == ApplyExtents(Stretched(RemoveExtents(d.windows[v].free), s))
<1>1. CASE e = d BY <1>1 DEF OneEdge
<1>2. CASE e # d
  <2>1. v \in Views /\ e = SetFreeRegion(d, v, r) BY <1>2 DEF StretchView
  <2>2. d.windows[v].free \in Regions BY <2>1, DeskParts DEF Coherent, Windows
  <2>3. /\ r \in Regions
        /\ \A a \in Axes : \/ r.pos[a] = d.windows[v].free.pos[a]
                           \/ High(r, a) = High(d.windows[v].free, a)
    BY <2>2, StretchMovesOneEdge
  <2> HIDE DEF r, e
  <2>4. /\ e \in Coherent /\ e.active = d.active /\ e.mode = d.mode
        /\ \A u \in Views : e.windows[u].free = IF u = v THEN r ELSE d.windows[u].free
    BY <2>1, <2>3, RegionSet
  <2>5. OneEdge(d, e) BY <2>3, <2>4 DEF OneEdge
  <2> QED BY <2>4, <2>5 DEF e
<1> QED BY <1>1, <1>2

LEMMA ActionPerformed ==
  ASSUME NEW d \in Coherent, NEW action
  PROVE  /\ Perform(d, action) \in Coherent
         /\ \/ Perform(d, action) = d
            \/ Perform(d, action).mode = "Passthrough"
            \/ Perform(d, action).active = d.active /\ Perform(d, action).mode = d.mode
         /\ OneEdge(d, Perform(d, action))
         /\ action \notin DOMAIN Stretches => Perform(d, action).windows = d.windows
<1> DEFINE e == Perform(d, action)
<1>0. d.focused \in Views \union {Null} BY DeskParts DEF Coherent
<1>1. CASE action \in DOMAIN Activations /\ e = ActivateWorkspace(d, Activations[action])
  <2>1. Activations[action] \in Workspaces BY <1>1, InputAssumption
  <2> HIDE DEF e
  <2>2. e \in Coherent /\ e.windows = d.windows /\ (e = d \/ e.mode = "Passthrough")
    BY <1>1, <2>1, WorkspaceActivates
  <2> QED BY <2>2 DEF OneEdge, e
<1>2. CASE action \in DOMAIN Stretches /\ e = StretchView(d, d.focused, Stretches[action])
  <2> HIDE DEF e
  <2>1. e \in Coherent /\ e.active = d.active /\ e.mode = d.mode /\ OneEdge(d, e)
    BY <1>0, <1>2, StretchPerformed
  <2> QED BY <1>2, <2>1 DEF e
<1>3. CASE e = d BY <1>3 DEF OneEdge
<1>4. \/ action \in DOMAIN Activations /\ e = ActivateWorkspace(d, Activations[action])
      \/ action \in DOMAIN Stretches /\ e = StretchView(d, d.focused, Stretches[action])
      \/ e = d
  BY DEF Perform
<1> QED BY <1>1, <1>2, <1>3, <1>4

\* Actions performed in turn leave a workspace only with the grab ended.
LEMMA AllPerformed ==
  ASSUME NEW d \in Coherent, NEW s, NEW n \in Nat, DOMAIN s = 1..n
  PROVE  /\ FoldLeft(Perform, d, s) \in Coherent
         /\ \/ FoldLeft(Perform, d, s).active = d.active
            \/ FoldLeft(Perform, d, s).mode = "Passthrough"
<1> DEFINE G == {e \in Coherent : e.active = d.active \/ e.mode = "Passthrough"}
<1>1. \A e \in G, i \in 1..n : Perform(e, s[i]) \in G
  <2> SUFFICES ASSUME NEW e \in G, NEW i \in 1..n PROVE Perform(e, s[i]) \in G OBVIOUS
  <2> HIDE DEF Coherent
  <2>1. e \in Coherent /\ (e.active = d.active \/ e.mode = "Passthrough") OBVIOUS
  <2> QED BY <2>1, ActionPerformed
<1>2. d \in G OBVIOUS
<1> HIDE DEF G
<1>3. FoldLeft(Perform, d, s) \in G BY <1>1, <1>2, PerformFold
<1> QED BY <1>3 DEF G

\* Of actions performed in turn of which one at most is a stretch.
LEMMA OneStretchPerformed ==
  ASSUME NEW d \in Coherent, NEW s, NEW n \in Nat, DOMAIN s = 1..n,
         \A i, j \in 1..n : s[i] \in DOMAIN Stretches /\ s[j] \in DOMAIN Stretches => i = j
  PROVE  OneEdge(d, FoldLeft(Perform, d, s))
<1> DEFINE h == Performs!Trace(d, s, n)
           Before(i) == \A j \in 1..i : s[j] \notin DOMAIN Stretches
           Good(i) == /\ h[i] \in Coherent /\ OneEdge(d, h[i])
                      /\ Before(i) => h[i].windows = d.windows
           G == {i \in 0..n : Good(i)}
<1>1. Performs!IsTrace(h, d, s, n) BY Performs!FoldSteps
<1>2. FoldLeft(Perform, d, s) = Performs!Folded(d, s)
  BY DEF Performs!Folded, FoldLeft, Performs!FoldLeft, MapThenFoldSet,
         Performs!MapThenFoldSet, Max, Performs!Max
<1>3. /\ h[0] = d /\ h[n] = FoldLeft(Perform, d, s)
      /\ \A i \in 1..n : h[i] = Perform(h[i - 1], s[i])
  BY <1>1, <1>2 DEF Performs!IsTrace
<1> HIDE DEF h, Coherent
<1>4. 0 \in G BY <1>3 DEF OneEdge
<1>5. ASSUME NEW i \in 1..n, i - 1 \in G PROVE i \in G
  <2> DEFINE was == h[i - 1]
             is == h[i]
  <2>1. is = Perform(was, s[i]) /\ was \in Coherent /\ OneEdge(d, was)
        /\ (Before(i - 1) => was.windows = d.windows)
    BY <1>3, <1>5
  <2> HIDE DEF was, is
  <2>2. /\ is \in Coherent
        /\ OneEdge(was, is)
        /\ s[i] \notin DOMAIN Stretches => is.windows = was.windows
    BY <2>1, ActionPerformed
  <2>3. CASE s[i] \in DOMAIN Stretches
    <3>1. Before(i - 1) BY <2>3
    <3>2. was.windows = d.windows BY <2>1, <3>1
    <3>3. OneEdge(d, is) BY <2>2, <3>2 DEF OneEdge
    <3>4. ~Before(i) BY <2>3
    <3> HIDE DEF Before
    <3> QED BY <2>2, <3>3, <3>4 DEF is
  <2>4. CASE s[i] \notin DOMAIN Stretches
    <3>1. is.windows = was.windows BY <2>2, <2>4
    <3>2. OneEdge(d, is) BY <2>1, <3>1 DEF OneEdge
    <3>3. Before(i) => Before(i - 1) OBVIOUS
    <3> HIDE DEF Before
    <3> QED BY <2>1, <2>2, <3>1, <3>2, <3>3 DEF is
  <2> QED BY <2>3, <2>4
<1>6. n \in G
  <2> HIDE DEF G
  <2> QED BY <1>4, <1>5, Performs!IndexInduction
<1> QED BY <1>3, <1>6

----------------------------------------------------------------------------
(* The system.                                                             *)

SystemInv == KeyboardInv /\ desk \in Coherent

\* No key is bound to two stretches at once. A key that was would move one edge
\* after the other, and both of a window's in one step.
OneStretch ==
  \A k \in Keys, m \in Modifiers :
    \A i, j \in DOMAIN Yields[k] :
      /\ Bound[<< Yields[k][i], m >>] \in DOMAIN Stretches
      /\ Bound[<< Yields[k][j], m >>] \in DOMAIN Stretches
      => i = j

LEMMA InitSystem == Init => SystemInv
<1> SUFFICES ASSUME Init PROVE desk \in Coherent BY InitKeyboard DEF SystemInv
<1>1. PICK point \in Points : desk = InitialDesk(point) BY DEF Init
<1> DEFINE g == [view |-> Null, at |-> point, region |-> Null, edges |-> NoEdge]
           ws == [v \in Views |-> [open |-> TRUE, free |-> FirstRegion[v],
                                   active |-> FirstRegion[v], prev |-> FirstRegion[v]]]
           w == CHOOSE w \in Workspaces : TRUE
<1>2. point \in [Axes -> Int] BY CursorAssumption
<1>3. g \in Grabs BY <1>2 DEF Grabs, NoEdge
<1>4. \A v \in Views : FirstRegion[v] \in Regions BY CursorAssumption DEF Regions
<1>5. ws \in [Views -> Windows] BY <1>4 DEF Windows
<1>6. w \in Workspaces BY CursorAssumption
<1>7. desk = [pointer |-> point, mode |-> "Passthrough", grab |-> g, windows |-> ws,
              focused |-> Null, active |-> w, grabs |-> 0]
  BY <1>1 DEF InitialDesk
<1> HIDE DEF g, ws, w
<1> QED BY <1>2, <1>3, <1>5, <1>6, <1>7 DEF Coherent, Desks

\* What the keyboard performs is a sequence.
LEMMA PerformedIsSequence ==
  ASSUME KeyboardTypeOK' PROVE Len(performed') \in Nat /\ DOMAIN performed' = 1..Len(performed')
BY DEF KeyboardTypeOK

LEMMA SystemStep ==
  ASSUME SystemInv, [Next]_vars
  PROVE  /\ SystemInv'
         /\ desk'.active = desk.active \/ desk'.mode = "Passthrough"
<1> HIDE DEF Coherent
<1>1. KeyboardInv' BY Steps, NextKeyboard DEF SystemInv
<1>2. CASE KeyboardStep
  <2>1. Len(performed') \in Nat /\ DOMAIN performed' = 1..Len(performed')
    BY <1>1, PerformedIsSequence DEF KeyboardInv
  <2>2. desk' = FoldLeft(Perform, desk, performed') BY <1>2 DEF KeyboardStep
  <2>3. desk \in Coherent BY DEF SystemInv
  <2>4. /\ desk' \in Coherent
        /\ desk'.active = desk.active \/ desk'.mode = "Passthrough"
    BY <2>1, <2>2, <2>3, AllPerformed
  <2> QED BY <1>1, <2>4 DEF SystemInv
<1>3. CASE CursorStep BY <1>1, <1>3, PointerSteps DEF CursorStep, SystemInv, Handled
<1>4. CASE UNCHANGED vars BY <1>1, <1>4 DEF vars, SystemInv
<1> QED BY <1>2, <1>3, <1>4 DEF Next

LEMMA StepEdges ==
  ASSUME OneStretch, SystemInv, KeyboardInv', [Next]_vars PROVE OnlyHeldEdgesMove(desk, desk')
<1> HIDE DEF Coherent
<1>1. desk \in Coherent BY DEF SystemInv
<1>2. CASE KeyboardStep
  <2>1. Len(performed') \in Nat /\ DOMAIN performed' = 1..Len(performed')
    BY PerformedIsSequence DEF KeyboardInv
  <2>2. desk' = FoldLeft(Perform, desk, performed') /\ KeyboardNext BY <1>2 DEF KeyboardStep
  <2>3. \A i, j \in 1..Len(performed') :
          performed'[i] \in DOMAIN Stretches /\ performed'[j] \in DOMAIN Stretches => i = j
    <3>1. CASE Len(performed') \in {0, 1} BY <3>1
    <3>2. CASE Len(performed') \notin {0, 1}
      <4>1. PICK k \in Keys, m \in Modifiers : performed' = ProcessKeyBindings(k, m)
        <5>1. ASSUME performed' = << >> \/ performed' = << repeat >> PROVE FALSE BY <3>2, <5>1
        <5>2. ~(Expire \/ Dispatch \/ Unplug \/ Plug \/ \E k \in Keys : Release(k))
          BY <5>1 DEF Expire, Dispatch, Unplug, Plug, Release
        <5>3. PICK k \in Keys, m \in Modifiers, inhibited \in BOOLEAN : Press(k, m, inhibited)
          BY <2>2, <5>2 DEF KeyboardNext
        <5> QED BY <5>1, <5>3 DEF Press
      <4>2. /\ DOMAIN performed' = DOMAIN Yields[k]
            /\ \A i \in DOMAIN Yields[k] : performed'[i] = Bound[<< Yields[k][i], m >>]
        BY <4>1 DEF ProcessKeyBindings
      <4> QED BY <2>1, <4>2 DEF OneStretch
    <3> QED BY <3>1, <3>2
  <2>4. OneEdge(desk, desk') BY <1>1, <2>1, <2>2, <2>3, OneStretchPerformed
  <2> QED BY <2>4 DEF OneEdge, OnlyHeldEdgesMove
<1>3. CASE CursorStep BY <1>1, <1>3, PointerSteps DEF CursorStep, Handled
<1>4. CASE UNCHANGED vars BY <1>4 DEF vars, OnlyHeldEdgesMove
<1> QED BY <1>2, <1>3, <1>4 DEF Next

\* The state of keyboard and pointer keeps its type, and whatever is being moved
\* or resized is a view, with the region it began with: no handler of the
\* pointer meets a grab without one.
THEOREM GrabsAreViews == Spec => []InputTypeOK
<1>1. SystemInv /\ [Next]_vars => SystemInv' BY SystemStep
<1>2. SystemInv => InputTypeOK BY DEF SystemInv, KeyboardInv, InputTypeOK
<1> QED BY <1>1, <1>2, InitSystem, PTL DEF Spec

\* A workspace is left with the grab ended, whatever activates the other one:
\* a key, any of its repetitions, any binding of a button, a click, or the
\* pointer entering a view.
THEOREM SwitchesEndGrabs == Spec => SwitchEndsGrab
<1>1. SystemInv /\ [Next]_vars => SystemInv' BY SystemStep
<1>2. SystemInv /\ [Next]_vars => (desk'.active # desk.active => desk'.mode = "Passthrough")
  BY SystemStep
<1> QED BY <1>1, <1>2, InitSystem, PTL DEF Spec, SwitchEndsGrab

\* Moving, resizing and stretching at once never move an edge nobody holds, as
\* long as no key is bound to two stretches.
THEOREM EdgesStay == OneStretch /\ Spec => EdgeStays
<1> SUFFICES ASSUME OneStretch PROVE Spec => EdgeStays OBVIOUS
<1>1. SystemInv /\ [Next]_vars => SystemInv' BY SystemStep
<1>2. SystemInv /\ SystemInv' /\ [Next]_vars => OnlyHeldEdgesMove(desk, desk')
  BY StepEdges DEF SystemInv
<1> QED BY <1>1, <1>2, InitSystem, PTL DEF Spec, EdgeStays
=============================================================================
