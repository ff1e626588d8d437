----------------------------- MODULE UserString -----------------------------
(***************************************************************************)
(* Strings of the user library (programs/stdlib/src/string.c).  A string   *)
(* lies in an array of characters, a function from 0 .. n-1, and ends with *)
(* the first NUL in it; its contents are a sequence.                       *)
(***************************************************************************)
EXTENDS Integers, Sequences, FiniteSetsExt, SequencesExt

NUL == "nul"
NULL == -1   \* the pointer, where a place in an array is expected
Delimiter == " "

\* The first place from i on whose character is in S.
FirstFrom(m, i, S) == Min({k \in DOMAIN m : k >= i /\ m[k] \in S})

\* The first place from i on whose character is not in S.
FirstNotFrom(m, i, S) == Min({k \in DOMAIN m : k >= i /\ m[k] \notin S})

\* The characters of an array from i up to and without j.
Between(m, i, j) == [k \in 1 .. j - i |-> m[i + k - 1]]

Contents(m) == Between(m, 0, FirstFrom(m, 0, {NUL}))

\* strncpy: at most count - 1 characters and always a NUL; what is behind it
\* stays as it was.
Strncpy(dest, str, count) ==
  LET n == Min({Len(str), count - 1})
  IN [k \in DOMAIN dest |-> IF k < n THEN str[k + 1] ELSE IF k = n THEN NUL ELSE dest[k]]

Truncated(str, count) == SubSeq(str, 1, Min({Len(str), count - 1}))

\* strtok with the delimiter " ", on an array that the pointer sp, a place in it
\* or NULL, goes through. A string is given with the first call only, and is
\* taken only when sp is null. The token is a sequence, or <<>> for null.
\* Variant: the place behind the last token is kept at the end of the string.
Strtok_Kept(m, sp, given) ==
  LET from == IF sp = NULL THEN 0 ELSE sp
      start == FirstNotFrom(m, from, {Delimiter})
      end == FirstFrom(m, start, {Delimiter, NUL})
  IN IF sp = NULL /\ ~given THEN [mem |-> m, sp |-> NULL, token |-> <<>>]
     ELSE IF m[start] = NUL   THEN [mem |-> m, sp |-> start, token |-> <<>>]
     ELSE [mem |-> [m EXCEPT ![end] = NUL],
           sp |-> IF m[end] = NUL THEN end ELSE end + 1,
           token |-> Between(m, start, end)]

Strtok(m, sp, given) ==
  LET from == IF sp = NULL THEN 0 ELSE sp
      start == FirstNotFrom(m, from, {Delimiter})
      end == FirstFrom(m, start, {Delimiter, NUL})
  IN IF sp = NULL /\ ~given THEN [mem |-> m, sp |-> NULL, token |-> <<>>]
     ELSE IF m[start] = NUL   THEN [mem |-> m, sp |-> NULL, token |-> <<>>]
     ELSE [mem |-> [m EXCEPT ![end] = NUL],
           sp |-> IF m[end] = NUL THEN end ELSE end + 1,
           token |-> Between(m, start, end)]

-----------------------------------------------------------------------------
\* Reference: the words of a line, character by character. One that is no
\* delimiter continues the word of the character before it, or is a new one.
MoreWords(words, line, n) ==
  CASE line[n] = Delimiter                               -> words
    [] line[n] # Delimiter /\ n > 1 /\ line[n - 1] # Delimiter ->
         [words EXCEPT ![Len(words)] = Append(@, line[n])]
    [] OTHER                                             -> Append(words, <<line[n]>>)

Words(line) ==
  LET words[n \in 0 .. Len(line)] == IF n = 0 THEN <<>> ELSE MoreWords(words[n - 1], line, n)
  IN  words[Len(line)]
=============================================================================
