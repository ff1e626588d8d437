------------------------------ MODULE Terminal ------------------------------
(***************************************************************************)
(* The terminal of the kernel (src/kernel.c): the place of the cursor and  *)
(* the video memory, as operators on a record                              *)
(*    [row, col, video]                                                    *)
(* whose row and column are unsigned 16-bit numbers and whose video maps   *)
(* the cells that were written to their characters.  Nothing keeps a cell  *)
(* inside the screen.                                                      *)
(***************************************************************************)
EXTENDS Integers, Sequences, SequencesExt

CONSTANTS VGA_WIDTH, VGA_HEIGHT

ASSUME ScreenAssumption ==
  /\ VGA_WIDTH \in 2 .. 65535
  /\ VGA_HEIGHT \in Nat \ {0}
  /\ VGA_WIDTH * VGA_HEIGHT < 65536

PrintSize == 1024   \* the buffer that command 1 copies a string to

Blank == " "
Newline == "\n"
Backspace == "backspace"

Uint16(n) == n % 65536

\* The cell of the cursor. A column behind the width is a cell of a later row.
Cursor(t) == t.row * VGA_WIDTH + t.col

\* The character in a cell; nothing is claimed of cells that were never written.
Cell(t, i) == IF i \in DOMAIN t.video THEN t.video[i] ELSE Blank

\* terminal_initialize.
TerminalInitialize ==
  [row |-> 0, col |-> 0, video |-> [i \in 0 .. VGA_WIDTH * VGA_HEIGHT - 1 |-> Blank]]

\* terminal_putchar at the cursor, which then moves on, perhaps to the next row.
Put(t, c) ==
  LET col == Uint16(t.col + 1)
      wraps == col >= VGA_WIDTH
  IN [row |-> Uint16(t.row + IF wraps THEN 1 ELSE 0),
      col |-> IF wraps THEN 0 ELSE col,
      video |-> [i \in {Cursor(t)} \cup DOMAIN t.video |->
                   IF i = Cursor(t) THEN c ELSE t.video[i]]]

\* terminal_backspace. From the first column the blank is put in the last cell
\* of the row before, Put moves on to the next row, and the column that is then
\* taken down is 0.
\* Variant: the character before the cursor is not blanked.
Erase_NoBlank(t) ==
  IF t.row = 0 /\ t.col = 0
  THEN t
  ELSE [t EXCEPT !.row = IF t.col = 0 THEN @ - 1 ELSE @,
                 !.col = (IF @ = 0 THEN VGA_WIDTH ELSE @) - 1]

Erase(t) ==
  IF t.row = 0 /\ t.col = 0
  THEN t
  ELSE LET before == [row |-> IF t.col = 0 THEN t.row - 1 ELSE t.row,
                      col |-> (IF t.col = 0 THEN VGA_WIDTH ELSE t.col) - 1,
                      video |-> t.video]
           after == Put(before, Blank)
       IN  [row |-> after.row, col |-> Uint16(after.col - 1), video |-> after.video]

\* terminal_writechar.
Writechar(t, c) ==
  CASE c = Newline   -> [row |-> Uint16(t.row + 1), col |-> 0, video |-> t.video]
    [] c = Backspace -> Erase(t)
    [] OTHER         -> Put(t, c)

\* print of the kernel, which is command 1 for a program.
Prints(t, str) == FoldLeft(Writechar, t, str)
=============================================================================
