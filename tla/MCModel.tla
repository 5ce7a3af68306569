------------------------------ MODULE MCModel ------------------------------
(* Instances of the model for TLC.                                         *)
EXTENDS RoundTrips, TLC

Symmetry == Permutations(Views) \cup Permutations(Outputs)
============================================================================
