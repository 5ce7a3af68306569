---------------------------- MODULE FocusHistory ----------------------------
(***************************************************************************)
(* What a cycle promises its clients, without positions or indices: a set  *)
(* of members, one of them active while there are any, and a history of    *)
(* members that were active before, each at most once. A member that       *)
(* leaves never disturbs the active one unless it is the active one; then  *)
(* the most recent surviving entry of the history takes over.              *)
(***************************************************************************)
EXTENDS Integers, Sequences

CONSTANTS Elements,   \* what can become a member
          Null        \* no member is active

VARIABLES members, active, history,
          recording   \* whether the history is kept

fhVars == << members, active, history, recording >>

\* h without e, which is there once at most.
Without(h, e) ==
  LET at == {i \in DOMAIN h : h[i] = e}
      k  == CHOOSE i \in at : TRUE
  IN  IF at = {} THEN h
      ELSE [i \in 1..(Len(h) - 1) |-> IF i < k THEN h[i] ELSE h[i + 1]]

MovedToTop(h, e) == IF recording /\ e # Null THEN Append(Without(h, e), e) ELSE h

FHInit == /\ members = {} /\ active = Null /\ history = << >>
          /\ recording \in BOOLEAN

Enter(e) ==
  /\ e \in Elements \ members
  /\ members' = members \cup {e}
  /\ active' = e
  /\ history' = MovedToTop(history, active)
  /\ UNCHANGED recording

\* The focus moves from the active member, which the history records.
Focus(e) ==
  /\ e \in members
  /\ active' = e
  /\ history' = MovedToTop(history, active)
  /\ UNCHANGED << members, recording >>

\* The order of the members changes under the focus: whichever member comes to
\* stand at the active place is active, and nothing is recorded.
Slide(e) ==
  /\ e \in members
  /\ active' = e
  /\ UNCHANGED << members, history, recording >>

\* The active member is dragged past e.
Pass(e) ==
  /\ e \in members
  /\ history' = MovedToTop(history, e)
  /\ UNCHANGED << members, active, recording >>

LeaveInactive(e) ==
  /\ e \in members \ {active}
  /\ members' = members \ {e}
  /\ history' = Without(history, e)
  /\ UNCHANGED << active, recording >>

LeaveActive ==
  /\ active # Null
  /\ members' = members \ {active}
  /\ LET rest == Without(history, active)
     IN  IF rest # << >>
         THEN /\ active' = rest[Len(rest)]
              /\ history' = SubSeq(rest, 1, Len(rest) - 1)
         ELSE /\ active' \in IF members' = {} THEN {Null} ELSE members'
              /\ history' = << >>
  /\ UNCHANGED recording

Rename(e, r) ==
  /\ e \in members
  /\ r \in Elements \ members
  /\ members' = (members \ {e}) \cup {r}
  /\ active' = IF active = e THEN r ELSE active
  /\ history' = [i \in DOMAIN history |-> IF history[i] = e THEN r ELSE history[i]]
  /\ UNCHANGED recording

\* Everything is forgotten and e enters.
Restart(e) == /\ members' = {e} /\ active' = e /\ history' = << >>
              /\ UNCHANGED recording

FHNext ==
  \/ \E e \in Elements : Enter(e) \/ Focus(e) \/ Slide(e) \/ Pass(e) \/ LeaveInactive(e) \/ Restart(e)
  \/ LeaveActive
  \/ \E e, r \in Elements : Rename(e, r)

FHSpec == FHInit /\ [][FHNext]_fhVars
=============================================================================
