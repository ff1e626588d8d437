----------------------------- MODULE MCKernel -----------------------------
(***************************************************************************)
(* Small instances of Kernel.                                              *)
(***************************************************************************)
EXTENDS Kernel, TLC

Addresses == Permutations(Task)
=============================================================================
