------------------------------ MODULE MCCycle ------------------------------
(* Instance of CycleSpec for TLC: every cycle over a few elements.         *)
EXTENDS CycleSpec
============================================================================
