------------------------------- MODULE Fat16 -------------------------------
(***************************************************************************)
(* Finding and reading files of a FAT16 disk (src/fs/fat/fat16.c) through  *)
(* the disk streams.  Every use of a stream begins with a seek, and a call *)
(* of the file system is never interrupted, so the positions of the three  *)
(* streams are not kept from one call to the next.                         *)
(*                                                                         *)
(* Its structures come from the kernel heap, each with a call of kzalloc   *)
(* that may fail.  Memory is a record of the heap, which is the set of the *)
(* structures that somebody can still reach, and of how many calls of      *)
(* kzalloc can still succeed.  What the code loses is not in the heap, and *)
(* never comes back.                                                       *)
(***************************************************************************)
EXTENDS DiskStream, PathParser, FiniteSets, FiniteSetsExt, Functions

CONSTANTS
  (* struct fat_header. *)
  ReservedSectors, FatCopies, SectorsPerFat, RootDirEntries, SectorsPerCluster,
  ItemSize,       \* sizeof(struct fat_directory_item), 32
  NameLength      \* the bytes of filename in one, 8

ASSUME HeaderAssumption ==
  /\ {ReservedSectors, FatCopies, SectorsPerFat, SectorsPerCluster, ItemSize,
     NameLength} \subseteq Nat \ {0}
  /\ RootDirEntries \in Nat

VARIABLES
  item,     \* root_directory.item: the items in use and the deleted ones
  chain,    \* the disk: the clusters of the files, by their first cluster
  junk      \* the disk: the words outside the file allocation table

disk == <<item, chain, junk>>

ClusterSize == SectorsPerCluster * SectorSize

\* fat16_get_root_directory: sector_pos and ending_sector_pos.
RootSector == FatCopies * SectorsPerFat + ReservedSectors
EndingSector == RootSector + (RootDirEntries * ItemSize) \div SectorSize

\* fat16_cluster_to_sector.
ClusterToSector(cluster) == EndingSector + (cluster - 2) * SectorsPerCluster

-----------------------------------------------------------------------------
(* The file allocation table, as the disk has it. *)

FatStart == ReservedSectors * SectorSize
FatEnd == FatStart + SectorsPerFat * SectorSize
EndOfChain == 65535

Successor(c) ==
  LET files == {f \in DOMAIN chain : \E i \in DOMAIN chain[f] : chain[f][i] = c}
  IN  IF files = {} THEN 0
      ELSE LET s == chain[Min(files)]
               i == Min({j \in DOMAIN s : s[j] = c})
           IN  IF i = Len(s) THEN EndOfChain ELSE s[i + 1]

\* The 16-bit word at a byte position of the disk.
WordAt(p) ==
  IF p \in FatStart .. FatEnd - 1 /\ (p - FatStart) % 2 = 0
    THEN Successor((p - FatStart) \div 2) ELSE junk

-----------------------------------------------------------------------------
\* header.shared.extended_header.signature of a disk that fat16_resolve takes.
FAT16Signature == 41

\* fat16_get_fat_entry: the two factors of the position are multiplied.
FatEntry(cluster) == WordAt(FatStart * (cluster * 2))

\* The entries that fat16_get_cluster_for_offset takes for an error: 0, 0xFF0,
\* 0xFF6, 0xFF7, 0xFF8 and 0xFFF.
ErrorEntries == {0, 4080, 4086, 4087, 4088, 4095}
NoCluster == -1

\* fat16_get_cluster_for_offset: the entries are followed from the first cluster.
ClusterForOffset(first, offset) ==
  LET cluster[n \in 0 .. offset \div ClusterSize] ==
        IF n = 0 THEN first
        ELSE LET before == cluster[n - 1]
             IN  IF before = NoCluster \/ FatEntry(before) \in ErrorEntries
                   THEN NoCluster ELSE FatEntry(before)
  IN  cluster[offset \div ClusterSize]

\* Variant: the offset in the cluster is forgotten.
StartingPosition_NoOffset(cluster, offset) == ClusterToSector(cluster) * SectorSize

StartingPosition(cluster, offset) ==
  ClusterToSector(cluster) * SectorSize + (offset % ClusterSize)

\* fat16_read_internal_from_stream: a cluster's length at a time, wherever in
\* the cluster it starts.
ReadInternal(first, from, count) ==
  LET Read[total \in 0 .. count] ==
        [offset \in Nat |->
           LET cluster == ClusterForOffset(first, offset)
               total_to_read == IF total > ClusterSize THEN ClusterSize ELSE total
               out == DiskstreamerRead[total_to_read][StartingPosition(cluster, offset)]
               rest == Read[total - total_to_read][offset + total_to_read]
           IN  IF cluster = NoCluster THEN [ok |-> FALSE, out |-> <<>>]
               ELSE IF total_to_read = total THEN [ok |-> TRUE, out |-> out]
               ELSE [ok |-> rest.ok, out |-> out \o rest.out]]
  IN  Read[count][from]

\* fat16_read: nmemb times size bytes from the position of the descriptor.
Fat16Read(first, pos, size, nmemb) ==
  LET read[n \in 0 .. nmemb] ==
        IF n = 0 THEN [ok |-> TRUE, out |-> <<>>]
        ELSE LET before == read[n - 1]
                 next == ReadInternal(first, pos + (n - 1) * size, size)
             IN  IF before.ok THEN [ok |-> next.ok, out |-> before.out \o next.out] ELSE before
  IN  read[nmemb]

-----------------------------------------------------------------------------
\* The first byte of the name of a deleted item.
DeletedMark == "\\xE5"

\* The attributes of a file and of a directory, 0x20 and 0x10, as the
\* characters that they are when a name is read past its end.
Archived == Space
Subdirectory == "\\x10"

Live(i) == i \in DOMAIN item /\ item[i].filename[1] # DeletedMark

\* fat16_get_total_items_for_directory does not count the items that are deleted.
Total == Cardinality({i \in DOMAIN item : Live(i)})

\* fat16_to_proper_string, of the bytes of an item from a field on: nothing but
\* a blank or a zero ends it, so that a field that is full runs into the next.
ToProperString(bytes) ==
  SubSeq(bytes, 1, SelectInSeq(bytes, LAMBDA c : c \in {Space, Zero}) - 1)

\* fat16_get_full_relative_filename.
FullRelativeFilename(i) ==
  LET ext == item[i].ext \o <<item[i].attribute, Zero>>
  IN  ToProperString(item[i].filename \o ext)
      \o IF ext[1] \in {Space, Zero} THEN <<>> ELSE <<".">> \o ToProperString(ext)

\* fat16_find_item_in_directory searches the first Total items of the array,
\* in which the deleted ones still have their places; the last match counts.
HasName(i, name) == SameUpToCase(FullRelativeFilename(i), name, MaxPath)
Matches(name) == {i \in 1 .. Total : HasName(i, name)}

-----------------------------------------------------------------------------
(* What the calls allocate.  Their results are records: the memory that is  *)
(* left, the index of the item that was found or 0, and its structures.     *)

\* A structure that nobody has.
Fresh(heap) == Min(1 .. Cardinality(heap) + 1 \ heap)

\* kzalloc: the memory afterwards, and what is returned.
Kzalloc(m) ==
  IF m.left = 0 THEN [m |-> m, ptr |-> 0]
  ELSE [m |-> [heap |-> m.heap \cup {Fresh(m.heap)}, left |-> m.left - 1], ptr |-> Fresh(m.heap)]

\* Memory in which n structures have been lost.
Lost(m, n) == [m EXCEPT !.left = @ - n]

Nothing(m) == [m |-> m, entry |-> 0, private |-> 0, fat_item |-> 0, clone |-> 0]

\* fat16_new_fat_item_for_directory_item: a file, also of a directory, which
\* fat16_load_fat_directory has loaded, with two structures or none, and which
\* is lost. A clone for which there is no memory is null.
NewFatItem(m, i) ==
  LET f == Kzalloc(m)
      loaded == IF item[i].attribute = Subdirectory /\ f.m.left >= 2 THEN Lost(f.m, 2) ELSE f.m
      copy == Kzalloc(loaded)
  IN  IF f.ptr = 0 THEN Nothing(m)
      ELSE [m |-> copy.m, entry |-> i, private |-> 0, fat_item |-> f.ptr, clone |-> copy.ptr]

\* fat16_find_item_in_directory: an item for each match, of which the last
\* counts; what has been found after each item of the array.
FindItem(m, name) ==
  LET total == Total
      found[n \in 0 .. total] ==
        IF n = 0 THEN Nothing(m)
        ELSE IF HasName(n, name) THEN NewFatItem([m EXCEPT !.left = found[n - 1].m.left], n)
        ELSE found[n - 1]
  IN  found[total]

\* fat16_get_directory_entry. Since every item is a file, a path with a second
\* part leads nowhere.
\* Variant: the item behind the one that was found.
DirectoryEntry_Next(m, parts) ==
  LET found == FindItem(m, parts[1])
  IN  IF Len(parts) > 1 THEN Nothing(m) ELSE [found EXCEPT !.entry = IF @ = 0 THEN 0 ELSE @ + 1]

DirectoryEntry(m, parts) ==
  IF Len(parts) > 1 THEN Nothing(m) ELSE FindItem(m, parts[1])

\* fat16_open: the descriptor is lost when the file is not found.
\* Variant: it is given back on every way out, also with the file found.
Fat16Open_Freed(m, parts) ==
  LET d == Kzalloc(m)
      found == DirectoryEntry(d.m, parts)
  IN  IF d.ptr = 0 \/ found.entry = 0 THEN Nothing(m)
      ELSE [found EXCEPT !.private = d.ptr, !.m.heap = @ \ {d.ptr}]

Fat16Open(m, parts) ==
  LET d == Kzalloc(m)
      found == DirectoryEntry(d.m, parts)
  IN  IF d.ptr = 0 \/ found.entry = 0 THEN Nothing(m) ELSE [found EXCEPT !.private = d.ptr]

\* fat16_close: what its descriptor holds, and the descriptor.
Fat16Close(heap, d) == heap \ {d.clone, d.fat_item, d.private}
=============================================================================
