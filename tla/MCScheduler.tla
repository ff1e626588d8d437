--------------------------- MODULE MCScheduler ---------------------------
(***************************************************************************)
(* Small instances of Scheduler: task addresses are model values.          *)
(***************************************************************************)
EXTENDS Scheduler, TLC

Addresses == Permutations(Task)
=============================================================================
