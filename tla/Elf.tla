-------------------------------- MODULE Elf --------------------------------
(***************************************************************************)
(* ELF files (src/loader/format/elf.h, elfloader.c): the fields of the     *)
(* headers that the loader looks at, in a record                           *)
(*    [signature, class, encoding, phoff, size, phdrs]                     *)
(* where size is that of the file and phdrs is the sequence of program     *)
(* headers [type, offset, vaddr, filesz, memsz, flags].                    *)
(***************************************************************************)
EXTENDS PageTables

PT_LOAD == "load"
PF_W == "w"

\* struct elf32_phdr, whose numbers are unsigned.
ProgramHeader ==
  LET Unsigned == 0 .. AddressSpace - 1
  IN  [type : STRING, offset : Unsigned, vaddr : Unsigned, filesz : Unsigned,
       memsz : Unsigned, flags : SUBSET STRING]

\* elf_validate_loaded. The type of the file and its entry point are looked at
\* by elf_is_executable, which is not called.
ValidateLoaded(file) ==
  /\ file.signature
  /\ file.class \in {"none", "32"}
  /\ file.encoding \in {"none", "lsb"}
  /\ file.phoff # 0

\* elf_phdr_phys_address.
PhdrAddress(memory, h) == Word(memory + h.offset)

NoRange == [vbase |-> 0, vend |-> 0, pbase |-> 0, pend |-> 0]

\* elf_process_phdr_pt_load: is a segment that starts at vaddr lower than all
\* before it, and does it end after them? 0 stands for a bound not known yet.
\* Variant: the first segment is taken for the lowest.
IsLower_First(range, vaddr) == range.vbase = 0

IsLower(range, vaddr) == range.vbase >= vaddr \/ range.vbase = 0

IsHigher(range, end) == range.vend <= end \/ range.vend = 0

ProcessPhdr(memory, range, h) ==
  LET end == Word(h.vaddr + h.filesz)
      base == IF IsLower(range, h.vaddr)
              THEN <<h.vaddr, PhdrAddress(memory, h)>>
              ELSE <<range.vbase, range.pbase>>
      ends == IF IsHigher(range, end)
              THEN <<end, Word(PhdrAddress(memory, h) + h.filesz)>>
              ELSE <<range.vend, range.pend>>
  IN [vbase |-> base[1], pbase |-> base[2], vend |-> ends[1], pend |-> ends[2]]

\* elf_process_pheaders: the four addresses in struct elf_file, after each of the
\* headers.
ProcessPheaders(memory, file) ==
  LET range[n \in 0 .. Len(file.phdrs)] ==
        IF n = 0 THEN NoRange
        ELSE IF file.phdrs[n].type # PT_LOAD THEN range[n - 1]
        ELSE ProcessPhdr(memory, range[n - 1], file.phdrs[n])
  IN  range[Len(file.phdrs)]
=============================================================================
