-------------------------- MODULE MCProcessMemory --------------------------
(***************************************************************************)
(* A small instance of ProcessMemory.                                      *)
(***************************************************************************)
EXTENDS ProcessMemory, TLC

Slots == Permutations(Process)
=============================================================================
