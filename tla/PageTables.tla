----------------------------- MODULE PageTables -----------------------------
(***************************************************************************)
(* Page directories and tables (src/memory/paging/paging.c).  An address   *)
(* space has as many addresses as two levels of tables reach; addresses    *)
(* and their sums wrap around in it, as unsigned 32-bit numbers do.        *)
(*                                                                         *)
(* struct paging_4gb_chunk is a record of the flags that it was made with  *)
(* and the entries that differ from what paging_new_4gb stores, by the     *)
(* index of the table and the index in it.                                 *)
(***************************************************************************)
EXTENDS KernelHeap, SequencesExt

CONSTANT Entries   \* PAGING_TOTAL_ENTRIES_PER_TABLE

ASSUME PagingAssumption == Entries \in Nat \ {0}

AddressSpace == Entries * Entries * PageSize
Word(n) == n % AddressSpace

Aligned(a) == a % PageSize = 0
AlignToLowerPage(a) == a - (a % PageSize)

\* paging_align_address wraps around too.
AlignToUpperPage(a) == Word(AlignAddress(a))

\* paging_get_indexes of an aligned address.
GetIndexes(a) ==
  <<a \div (Entries * PageSize), (a % (Entries * PageSize)) \div PageSize>>

\* paging_new_4gb maps every page to itself.
New4gb(flags) == [flags |-> flags, set |-> [i \in {} |-> 0]]

Original(chunk, a) == [frame |-> a, flags |-> chunk.flags]

\* paging_get and paging_set of an aligned address.
PagingGet(chunk, a) ==
  IF GetIndexes(a) \in DOMAIN chunk.set
  THEN chunk.set[GetIndexes(a)]
  ELSE Original(chunk, a)

PagingSet(chunk, a, entry) ==
  LET others == Restrict(chunk.set, DOMAIN chunk.set \ {GetIndexes(a)})
  IN [chunk EXCEPT !.set =
        IF entry = Original(chunk, a)
        THEN others
        ELSE [i \in DOMAIN others \cup {GetIndexes(a)} |->
                IF i = GetIndexes(a) THEN entry ELSE others[i]]]

\* paging_map_range of aligned addresses, for which paging_map never fails: the
\* chunk after each page.
MapRange(chunk, virt, phys, count, flags) ==
  LET mapped[n \in 0 .. count] ==
        IF n = 0 THEN chunk
        ELSE PagingSet(mapped[n - 1], Word(virt + (n - 1) * PageSize),
                       [frame |-> Word(phys + (n - 1) * PageSize), flags |-> flags])
  IN  mapped[count]

\* paging_map_to: the number of pages is that of the physical range.
\* Variant: one page more.
MapTo_OneMore(chunk, virt, phys, end, flags) ==
  IF ~Aligned(virt) \/ ~Aligned(phys) \/ ~Aligned(end) \/ end < phys
  THEN [ok |-> FALSE, chunk |-> chunk]
  ELSE [ok |-> TRUE,
        chunk |-> MapRange(chunk, virt, phys, (end - phys) \div PageSize + 1, flags)]

MapTo(chunk, virt, phys, end, flags) ==
  IF ~Aligned(virt) \/ ~Aligned(phys) \/ ~Aligned(end) \/ end < phys
  THEN [ok |-> FALSE, chunk |-> chunk]
  ELSE [ok |-> TRUE,
        chunk |-> MapRange(chunk, virt, phys, (end - phys) \div PageSize, flags)]

\* paging_get_physical_address.
PhysicalAddress(chunk, a) ==
  PagingGet(chunk, AlignToLowerPage(a)).frame + (a - AlignToLowerPage(a))
=============================================================================
