------------------------------ MODULE MCShell ------------------------------
(***************************************************************************)
(* A small instance of Shell.                                              *)
(***************************************************************************)
EXTENDS Shell

Prompts == <<">">>

\* The least int; zero behind a percent sign; a string.
SmallPrintfs ==
  {[fmt |-> <<"%", "i">>, args |-> <<LeastInt>>],
   [fmt |-> <<"%", "%", "%", "i">>, args |-> <<0>>],
   [fmt |-> <<"%", "s">>, args |-> <<<<"y", "z">>>>]}
=============================================================================
