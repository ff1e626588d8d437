----------------------------- MODULE MCContext -----------------------------
(***************************************************************************)
(* A small instance of Context.                                            *)
(***************************************************************************)
EXTENDS Context, TLC

\* Below and behind the table, and a number that no function is registered for;
\* 0 is a command that the library has no function for.
OtherCommands == {-1, 0, 10, 1024}

Tasks == Permutations(Task)
=============================================================================
