--------------------------- MODULE MCProcessLoad ---------------------------
(***************************************************************************)
(* A small instance of ProcessLoad: pages of four bytes, six to a table.   *)
(***************************************************************************)
EXTENDS ProcessLoad

\* The first pages of programs, behind the heap and the stack.
Base == 96

Header(type, offset, vaddr, filesz, memsz, flags) ==
  [type |-> type, offset |-> offset, vaddr |-> vaddr, filesz |-> filesz, memsz |-> memsz,
   flags |-> flags]

Elf32(size, phdrs) ==
  [signature |-> TRUE, class |-> "32", encoding |-> "lsb", phoff |-> 1,
   size |-> size, phdrs |-> phdrs]

\* Two segments of a page each, the higher one first.
Plain == Elf32(8, <<Header("load", 4, Base + 4, 4, 4, {"w"}), Header("load", 0, Base, 4, 4, {})>>)

\* A segment whose p_memsz goes on behind the file, and one that shares its page
\* of the file; behind them a header that takes the right to write away.
Bss == Elf32(6, <<Header("load", 0, Base, 5, 5, {}), Header("load", 5, Base + 9, 1, 6, {"w"}),
                  Header("relro", 5, Base + 9, 1, 1, {})>>)

\* A p_memsz with which the end of the segment is less than its start.
Wraps == Elf32(4, <<Header("load", 0, Base, 4, 138, {})>>)

\* A 64-bit file.
Invalid == [Plain EXCEPT !.class = "64"]

Files == {Plain, Bss, Wraps, Invalid}
=============================================================================
