-------------------------- MODULE KeyboardRing --------------------------
(***************************************************************************)
(* The keyboard buffer of a process (struct keyboard_buffer in             *)
(* src/task/process.h, src/keyboard/keyboard.c): a ring of characters in   *)
(* which 0 marks a free cell, and two counters of type int that only grow. *)
(* A counter is converted to unsigned where it selects a cell, so it is    *)
(* kept modulo the number of int values, of which the buffer size is a     *)
(* divisor.                                                                *)
(***************************************************************************)
EXTENDS Integers

CONSTANTS
  BufferSize,   \* MULTITASK_OS_KERNELSHELL_KEYBOARD_BUFFER_SIZE, 1024
  IntRange      \* the number of values of an int, 2^32

ASSUME RingAssumption ==
  /\ BufferSize \in Nat \ {0} /\ IntRange \in Nat
  /\ IntRange % BufferSize = 0 /\ IntRange > BufferSize

Cells == 0 .. BufferSize - 1

\* The buffer of a new process: process_init clears the whole structure.
EmptyRing == [buffer |-> [i \in Cells |-> 0], head |-> 0, tail |-> 0]

\* keyboard_get_tail_index.
TailIndex(r) == r.tail % BufferSize

\* keyboard_push, for a character that is not 0.
Push(r, c) ==
  [r EXCEPT !.buffer[TailIndex(r)] = c, !.tail = (@ + 1) % IntRange]

HeadIndex(r) == r.head % BufferSize

\* keyboard_pop: the character it returns, 0 for nothing to pop ...
Popped(r) == r.buffer[HeadIndex(r)]

\* ... and the buffer that it leaves.
\* Variant: the cell is not cleared.
Pop_NotCleared(r) ==
  IF Popped(r) = 0 THEN r ELSE [r EXCEPT !.head = (@ + 1) % IntRange]

Pop(r) ==
  IF Popped(r) = 0 THEN r
  ELSE [r EXCEPT !.buffer[HeadIndex(r)] = 0, !.head = (@ + 1) % IntRange]

\* How many characters have been pushed and not popped.
Unread(r) == (r.tail - r.head) % IntRange

\* The characters from head to tail, in the order of their arrival.
Contents(r) == [i \in 1 .. Unread(r) |-> r.buffer[(r.head + i - 1) % BufferSize]]
=============================================================================
