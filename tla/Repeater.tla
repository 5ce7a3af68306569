----------------------------- MODULE Repeater ------------------------------
(***************************************************************************)
(* What key repetition promises the user, without timers: at any time at   *)
(* most one action is chosen to be repeated, which is the last one that    *)
(* was performed when it was chosen; as long as it stays chosen it is      *)
(* performed, alone, again and again.                                      *)
(*                                                                         *)
(*   chosen  the action being repeated, or None                            *)
(*   doing   the actions performed by the last step                        *)
(***************************************************************************)
EXTENDS Sequences, Naturals

CONSTANTS Performable, None

VARIABLES chosen, doing

Init == chosen = None /\ doing = << >>

\* Some actions are performed, and the last of them may be chosen.
Choose == /\ doing' \in Seq(Performable) \ {<< >>}
          /\ chosen' \in {None, doing'[Len(doing')]}

Stop == chosen' = None /\ doing' = << >>

\* The chosen action is performed, and stays chosen.
Repeat == /\ chosen # None /\ doing = << >>
          /\ doing' = << chosen >>
          /\ UNCHANGED chosen

Rest == doing' = << >> /\ UNCHANGED chosen

Next == Choose \/ Stop \/ Repeat \/ Rest

Spec == Init /\ [][Next]_<< chosen, doing >> /\ WF_<< chosen, doing >>(Repeat)
=============================================================================
