---------------------------- MODULE MCScheduler ----------------------------
(***************************************************************************)
(* Instances of Scheduler for TLC.  Calls of start_run are interchangeable *)
(* as long as no temporal property tells them apart.                       *)
(***************************************************************************)
EXTENDS Scheduler, TLC

Symmetry == Permutations(Run)
=============================================================================
