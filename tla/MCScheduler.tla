---------------------------- MODULE MCScheduler ----------------------------
(* Scheduler for TLC: processes are interchangeable. *)
EXTENDS Scheduler, TLC

Symmetry == Permutations(Runners)
=============================================================================
