---------------------------- MODULE MCKeyboard ----------------------------
(***************************************************************************)
(* A small instance of Keyboard: a table with one entry of each kind.      *)
(***************************************************************************)
EXTENDS Keyboard, TLC

\* No character, the letter A, caps lock.
SmallScanSet == (0 :> 0) @@ (1 :> 65) @@ (2 :> 0)

\* Bound: behaviours are not followed beyond the overrun of a second process.
OneOverrun == Cardinality(overrun) <= 1

Addresses == Permutations(Task)
=============================================================================
