------------------------------- MODULE Stdio -------------------------------
(***************************************************************************)
(* Numbers and formats of the user library: itoa                           *)
(* (programs/stdlib/src/stdlib.c) and printf (programs/stdlib/src/stdio.c).*)
(* Each piece that printf puts out is a command of its own.                *)
(***************************************************************************)
EXTENDS Integers, Sequences, SequencesExt

TextSize == 12   \* the array of itoa

\* The numbers of type int.
LeastInt == -2147483647 - 1
GreatestInt == 2147483647

DigitCharacter == <<"0", "1", "2", "3", "4", "5", "6", "7", "8", "9">>

\* Division and remainder of C, which round toward zero.
Quotient(i) == IF i < 0 /\ i % 10 # 0 THEN i \div 10 + 1 ELSE i \div 10
Remainder(i) == IF i < 0 /\ i % 10 # 0 THEN (i % 10) - 10 ELSE i % 10

\* The loop of itoa, on numbers that are not positive.
DigitsOf[i \in LeastInt .. 0] ==
  IF i = 0 THEN <<>> ELSE Append(DigitsOf[Quotient(i)], DigitCharacter[1 - Remainder(i)])

\* itoa.
\* Variant: the digits stop at the last one, also if that is none.
Itoa_NoZero(i) ==
  (IF i < 0 THEN <<"-">> ELSE <<>>) \o DigitsOf[IF i >= 0 THEN -i ELSE i]

Itoa(i) ==
  LET digits == DigitsOf[IF i >= 0 THEN -i ELSE i]
  IN  (IF i < 0 THEN <<"-">> ELSE <<>>) \o IF digits = <<>> THEN <<"0">> ELSE digits

\* One round of the loop of printf, at place p of the format with the arguments
\* that are left: what it puts out and where it goes on. A format that ends
\* with a percent sign is read past its end and is not modelled.
PrintfRound(fmt, p, args) ==
  LET c == fmt[p + 1]
  IN  IF fmt[p] # "%" THEN [text |-> <<fmt[p]>>, p |-> p + 1, args |-> args]
      ELSE CASE c = "i" -> [text |-> Itoa(Head(args)), p |-> p + 2, args |-> Tail(args)]
             [] c = "s" -> [text |-> Head(args), p |-> p + 2, args |-> Tail(args)]
             [] OTHER   -> [text |-> <<c>>, p |-> p + 2, args |-> args]

-----------------------------------------------------------------------------
\* Reference: the pieces that a format stands for, character by character; each
\* is a function that tells if a text shows it.
DigitValue(c) == SelectInSeq(DigitCharacter, LAMBDA d : d = c) - 1

Minus(digits) ==
  LET minus[n \in 0 .. Len(digits)] ==
        IF n = 0 THEN 0 ELSE 10 * minus[n - 1] - DigitValue(digits[n])
  IN  minus[Len(digits)]

Value(text) ==
  IF text[1] = "-" THEN Minus(Tail(text)) ELSE -Minus(text)

IsNumeral(text, i) ==
  /\ Len(text) \in 1 .. TextSize - 1
  /\ \A k \in DOMAIN text : Contains(DigitCharacter, text[k]) \/ (k = 1 /\ text[k] = "-")
  /\ Value(text) = i
  /\ (text[1] = "0" => text = <<"0">>) /\ (text[1] = "-" => text[2] # "0")

Read(r, c) ==
  CASE r.mode = "plain" /\ c = "%" ->
         [mode |-> "percent", args |-> r.args, pieces |-> r.pieces]
    [] r.mode = "percent" /\ c \in {"i", "s"} ->
         [mode |-> "plain", args |-> Tail(r.args),
          pieces |-> Append(r.pieces, [kind |-> c, arg |-> Head(r.args)])]
    [] OTHER ->
         [mode |-> "plain", args |-> r.args,
          pieces |-> Append(r.pieces, [kind |-> "s", arg |-> <<c>>])]

Pieces(fmt, args) ==
  LET read[n \in 0 .. Len(fmt)] ==
        IF n = 0 THEN [mode |-> "plain", args |-> args, pieces |-> <<>>]
        ELSE Read(read[n - 1], fmt[n])
  IN  read[Len(fmt)].pieces

Shows(text, piece) ==
  IF piece.kind = "i" THEN IsNumeral(text, piece.arg) ELSE text = piece.arg
=============================================================================
