---------------------------- MODULE KernelString ----------------------------
(***************************************************************************)
(* The functions of src/string/string.c that decide something: a string is *)
(* the sequence of its characters up to the zero byte, and a character is  *)
(* a string of length 1.                                                   *)
(***************************************************************************)
EXTENDS Integers, Sequences, SequencesExt

Zero == "\\0"
Space == " "

\* tolower, of the letters that the models use.
Capitals == <<"A", "B", "C", "D", "T">>
Smalls == <<"a", "b", "c", "d", "t">>

ToLower(c) ==
  IF Contains(Capitals, c) THEN Smalls[SelectInSeq(Capitals, LAMBDA x : x = c)] ELSE c

Strnlen(s, max) == IF Len(s) < max THEN Len(s) ELSE max

\* istrncmp(s, t, n) = 0.
\* Variant: capital letters count.
SameUpToCase_Strict(s, t, n) ==
  SubSeq(s, 1, Strnlen(s, n)) = SubSeq(t, 1, Strnlen(t, n))

SameUpToCase(s, t, n) ==
  LET Lower(x) == [i \in 1 .. Strnlen(x, n) |-> ToLower(x[i])]
  IN  Lower(s) = Lower(t)

Digits == <<"0", "1", "2", "3", "4", "5", "6", "7", "8", "9">>
IsDigit(c) == Contains(Digits, c)
ToNumericDigit(c) == SelectInSeq(Digits, LAMBDA d : d = c) - 1
=============================================================================
