------------------------------- MODULE Shell -------------------------------
(***************************************************************************)
(* A program that reads lines and runs them as commands: the loop of the   *)
(* shell (programs/shell/src/shell.c) with the reading and the parsing of  *)
(* the user library (programs/stdlib/src/multitaskos.c), on the terminal   *)
(* of the kernel, on which another program writes too, with printf.        *)
(*                                                                         *)
(* Programs print, get keys, and allocate with commands of the kernel, so  *)
(* that the other program can run between any two of them; each is a       *)
(* step.  What it does to its own buffers is part of the step before.      *)
(***************************************************************************)
EXTENDS Terminal, UserString, Stdio

CONSTANTS
  Letter,          \* characters that are typed, blanks and backspace apart
  PromptText,      \* what the shell prints before it reads a line
  LineSize,        \* the size of the shell's buffer
  ArgumentSize,    \* the size of command_argument.argument
  MaxAllocations,  \* allocations that the process table of the shell holds
  MaxKeys,         \* how many keys are typed, a bound of the model
  Printfs          \* what the other program calls printf with, as records [fmt, args]

\* What is printed with one command.
Text == {text \in Seq(STRING) : Len(text) < PrintSize}

ASSUME ShellAssumption ==
  /\ LineSize \in Nat \ {0} /\ ArgumentSize \in Nat \ {0, 1} /\ NUL \notin Letter
  /\ Newline \notin Letter /\ PromptText \in Text
  /\ MaxAllocations \in Nat /\ MaxKeys \in Nat
  /\ \A c \in Printfs :
       /\ c.fmt \in Seq(STRING) /\ (c.fmt # <<>> => Last(c.fmt) # "%")
       /\ \A k \in DOMAIN Pieces(c.fmt, c.args) :
            LET piece == Pieces(c.fmt, c.args)[k]
            IN  IF piece.kind = "i" THEN piece.arg \in LeastInt .. GreatestInt
                ELSE piece.arg \in Text

Enter == "enter"
Key == Letter \cup {Blank, Backspace, Enter}
Character == Letter \cup {Blank, Backspace, NUL}

VARIABLES
  terminal,     \* terminal_row, terminal_col and the video memory
  pc,           \* where the shell is
  key, i, out,  \* the local variables of readline
  scommand,     \* the array of that name in the stack frame of parse_command
  sp,           \* the static variable of strtok
  args,         \* the list that parse_command builds
  allocations,  \* how many allocations the shell has
  keys,         \* History: the keys of this line
  shown,        \* History: how many characters of the line end at the cursor
  refused,      \* History: has an allocation of an argument failed
  typed,        \* a bound of the model: how many keys so far
  fmt, p, ap,   \* the other program's printf: format, place, arguments left
  called, put   \* History: what it was called with, and the pieces put out

line == <<key, i, out, keys, shown, typed>>
parse == <<scommand, sp, args, allocations, refused>>
other == <<fmt, p, ap, called, put>>
vars == <<terminal, pc, line, parse, other>>

Init ==
  /\ \E start \in 0 .. VGA_WIDTH - 1 :   \* what was printed before leaves any column
       terminal = [TerminalInitialize EXCEPT !.col = start]
  /\ pc = "prompt"
  /\ key = Enter /\ i = 0 /\ out = [k \in 0 .. LineSize - 1 |-> NUL]
  /\ scommand = [k \in 0 .. LineSize |-> NUL]
  /\ sp = NULL /\ args = <<>> /\ allocations = 0
  /\ keys = <<>> /\ shown = 0 /\ refused = "no" /\ typed = 0
  /\ called \in Printfs /\ fmt = called.fmt /\ p = 1 /\ ap = called.args /\ put = <<>>

\* The condition that ends the loop of readline.
\* Variant: no place is kept for the NUL.
Full_NoPlaceForNul(n) == n >= LineSize

Full(n) == n >= LineSize - 1

\* print("> "), and the start of readline. The buffer is not cleared: what it
\* held is not read again, so that it is NUL here.
Prompt ==
  /\ pc = "prompt"
  /\ terminal' = Prints(terminal, PromptText)
  /\ i' = 0 /\ out' = [k \in 0 .. LineSize - 1 |-> NUL]
  /\ keys' = <<>> /\ shown' = 0
  /\ pc' = IF Full(0) THEN "entered" ELSE "reading"
  /\ UNCHANGED <<key, typed, parse, other>>

\* pmultitaskos_getkeyblock: command 2 has answered with a key. The line ends
\* with Enter.
GetKey ==
  /\ pc = "reading" /\ typed < MaxKeys
  /\ \E k \in Key :
       /\ key' = k
       /\ IF k = Enter
          THEN out' = [out EXCEPT ![i] = NUL] /\ pc' = "entered" /\ keys' = keys
          ELSE out' = out /\ pc' = "echo" /\ keys' = Append(keys, k)
  /\ typed' = typed + 1
  /\ UNCHANGED <<terminal, i, shown, parse, other>>

\* What readline does to its buffer with a key that is not Enter.
\* Variant: one step back, the increment of the loop is forgotten.
Edit_OneBack(buffer, n, k) ==
  IF k = Backspace /\ n >= 1
  THEN [out |-> [buffer EXCEPT ![n - 1] = NUL], i |-> n]
  ELSE [out |-> [buffer EXCEPT ![n] = k], i |-> n + 1]

Edit(buffer, n, k) ==
  IF k = Backspace /\ n >= 1
  THEN [out |-> [buffer EXCEPT ![n - 1] = NUL], i |-> n - 1]
  ELSE [out |-> [buffer EXCEPT ![n] = k], i |-> n + 1]

\* How many characters of the line end at the cursor after the key was written:
\* a character that went off the screen, or a backspace from its first column,
\* leaves none.
ShownAfter(k) ==
  IF k = Backspace
  THEN IF shown = 0 \/ terminal.col \notin 1 .. VGA_WIDTH THEN 0 ELSE shown - 1
  ELSE IF terminal.col >= VGA_WIDTH THEN 0 ELSE shown + 1

\* The key is written with command 3 and then stored.
Echo ==
  LET edited == Edit(out, i, key)
      full == Full(edited.i)
  IN /\ pc = "echo"
     /\ terminal' = Writechar(terminal, key)
     /\ i' = edited.i
     /\ out' = IF full THEN [edited.out EXCEPT ![edited.i] = NUL] ELSE edited.out
     /\ shown' = ShownAfter(key)
     /\ pc' = IF full THEN "entered" ELSE "reading"
     /\ UNCHANGED <<key, keys, typed, parse, other>>

\* The end of the loop of main: print("\n"), behind the call that runs the line
\* if there is one.
EndOfLine ==
  /\ pc \in {"entered", "ran"}
  /\ terminal' = Prints(terminal, <<Newline>>)
  /\ pc' = "prompt"
  /\ UNCHANGED <<line, parse, other>>

-----------------------------------------------------------------------------
\* multitaskos_system_run, and the start of peachos_parse_command: the line is
\* copied to an array on the stack, which lies where it lay the last time. At
\* this commit the call is commented out (shell.c:17-19), so that both is
\* modelled: the line is run or it is not.
SystemRun ==
  /\ pc = "entered"
  /\ scommand' = Strncpy(scommand, Contents(out), LineSize + 1)
  /\ args' = <<>>
  /\ pc' = "first"
  /\ UNCHANGED <<terminal, line, sp, allocations, refused, other>>

\* One call of strtok and the allocation of the argument, which is command 4.
\* Whatever the kernel answers, the list so far is what the parser returns.
NextArgument ==
  LET r == Strtok(scommand, sp, pc = "first")
  IN /\ pc \in {"first", "next"}
     /\ scommand' = r.mem /\ sp' = r.sp
     /\ \/ /\ r.token = <<>>
           /\ pc' = "system"
           /\ UNCHANGED <<args, allocations, refused>>
        \/ /\ r.token # <<>> /\ allocations < MaxAllocations
           /\ args' = Append(args, Truncated(r.token, ArgumentSize))
           /\ allocations' = allocations + 1
           /\ pc' = "next"
           /\ UNCHANGED refused
        \/ /\ r.token # <<>>
           /\ refused' = IF refused = "no" THEN "now" ELSE refused
           /\ pc' = "system"
           /\ UNCHANGED <<args, allocations>>
     /\ UNCHANGED <<terminal, line, other>>

\* Command 7 with the list, unless it is empty. Nothing frees the arguments.
System ==
  /\ pc = "system"
  /\ args' = <<>>
  /\ refused' = IF refused = "no" THEN "no" ELSE "earlier"
  /\ pc' = "ran"
  /\ UNCHANGED <<terminal, line, scommand, sp, allocations, other>>

\* The other program puts out the next piece: print or putchar, command 1 or 3.
OtherPrints ==
  LET round == PrintfRound(fmt, p, ap)
  IN  /\ p <= Len(fmt)
      /\ terminal' = Prints(terminal, round.text)
      /\ p' = round.p /\ ap' = round.args
      /\ put' = Append(put, round.text)
      /\ shown' = 0
      /\ UNCHANGED <<pc, key, i, out, keys, typed, parse, fmt, called>>

Next ==
  \/ Prompt \/ GetKey \/ Echo \/ EndOfLine
  \/ SystemRun \/ NextArgument \/ System
  \/ OtherPrints

Spec == Init /\ [][Next]_vars

-----------------------------------------------------------------------------
\* Reference: the line that a sequence of keys leaves. A backspace takes the last
\* character away; on an empty line it is kept as a character.
EditLine(text, k) == IF k = Backspace /\ text # <<>> THEN Front(text) ELSE Append(text, k)

Edited(ks) ==
  LET text[n \in 0 .. Len(ks)] == IF n = 0 THEN <<>> ELSE EditLine(text[n - 1], ks[n])
  IN  text[Len(ks)]

\* Reference: the words of the line, as far as an argument holds them.
TypedWords ==
  LET words == Words(Contents(out))
  IN [w \in DOMAIN words |-> Truncated(words[w], ArgumentSize)]

TypeOK ==
  /\ terminal.row \in Nat /\ terminal.row < 65536
  /\ terminal.col \in Nat /\ terminal.col < 65536
  /\ pc \in {"prompt", "reading", "echo", "entered", "first", "next", "system", "ran"}
  /\ key \in Key /\ i \in 0 .. LineSize - 1
  /\ out \in [0 .. LineSize - 1 -> Character]
  /\ scommand \in [0 .. LineSize -> Character]
  /\ sp \in 0 .. LineSize \cup {NULL}
  /\ allocations \in 0 .. MaxAllocations
  /\ shown \in 0 .. i

\* readline (multitaskos.c:65-97): whatever is typed and taken back, also on an
\* empty line and up to the end of the buffer, the line that is handed on is the
\* one that the keys leave. The index of its loop goes back by two and forward
\* by one for a backspace, and may not fall below the array.
LineIsEdited == pc = "entered" => Contents(out) = Edited(keys)

\* The screen and the buffer are edited by two programs that do not see each
\* other, the kernel (kernel.c:36-76) and readline: what stands in front of the
\* cursor is the end of the line, across the edge of a row and between the
\* output of another program, and nothing that was taken back is left behind
\* the cursor. A backspace from the first column is where they part, and so are
\* 65536 rows, behind which terminal_row begins again at 0.
ScreenShowsLine ==
  pc \in {"reading", "entered"} =>
    /\ \A k \in 1 .. shown : Cell(terminal, Cursor(terminal) - k) = out[i - k]
    /\ \A c \in Cursor(terminal) .. VGA_WIDTH * VGA_HEIGHT - 1 :
         Cell(terminal, c) = Blank

\* peachos_parse_command with strtok (multitaskos.c:4-49, string.c:124-179): the
\* arguments are the words of the line that was typed, in order and complete,
\* for as long as memory lasts; the first command whose memory runs out gets
\* the first of its words. From then on the static pointer of strtok stands in
\* the middle of that line, the next string that strtok is given is not taken,
\* and even an empty line runs the words that were left over.
ArgumentsAreWords ==
  pc = "system" /\ refused # "earlier" =>
    /\ IsPrefix(args, TypedWords)
    /\ refused = "no" => args = TypedWords

\* printf and itoa (stdio.c:10-48, stdlib.c:4-28): the other program puts out
\* what its format stands for, in order and whatever the shell prints between
\* two pieces; every number from the least int up comes back from its digits,
\* which fit their array.
PrintfPrints ==
  p > Len(fmt) =>
    LET pieces == Pieces(called.fmt, called.args)
    IN  /\ Len(put) = Len(pieces)
        /\ \A k \in DOMAIN put : Shows(put[k], pieces[k])
=============================================================================
