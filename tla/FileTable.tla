----------------------------- MODULE FileTable -----------------------------
(***************************************************************************)
(* The files of the kernel (src/fs/file.c): the table of descriptors and   *)
(* the calls fopen, fstat, fseek, fread and fclose, each one step, on a    *)
(* FAT16 disk.                                                             *)
(*                                                                         *)
(* fs_static_load inserts no file system at this commit, so that fopen     *)
(* refuses every path; the module is about a kernel that has called        *)
(* fs_insert_filesystem(fat16_init()) there, as the line in the comment    *)
(* does.  A path is parsed into memory that nobody frees, and memory may   *)
(* end anywhere in a call; where the code then writes through null, the    *)
(* behaviour ends (wild).                                                  *)
(***************************************************************************)
EXTENDS Fat16

CONSTANTS
  MaxDescriptors,   \* MULTITASK_OS_KERNELSHELL_FILE_DESCRIPTOR, 512
  Opens,            \* the paths and modes that fopen is called with
  Memory,           \* how much memory there may be when it is called
  Lengths,          \* the sizes and offsets in bytes that callers use
  MaxPosition,      \* how far fseek goes, a bound of the model
  Images            \* the disks, as records [signature, item, chain, junk]

ASSUME TableAssumption ==
  /\ MaxDescriptors \in Nat \ {0} /\ MaxPosition \in Nat
  /\ Memory \subseteq Nat /\ Lengths \subseteq Nat
  /\ Opens \subseteq Seq(STRING) \X STRING

\* struct fat_directory_item. Clusters are counted from 2; an empty file, which
\* has none, is not on these disks.
DirectoryItem ==
  [filename : [1 .. NameLength -> STRING], ext : Seq(STRING) \ {<<>>}, attribute : STRING,
   cluster : Nat \ {0, 1}, filesize : Nat]

\* The chain of a file begins with the cluster in its item, and the root
\* directory fills its sectors, as the one in boot.asm does (lines 13 and 17).
ASSUME DiskAssumption ==
  /\ \A i \in Images :
       /\ i.item \in Seq(DirectoryItem)
       /\ \A k \in DOMAIN i.item : i.chain[i.item[k].cluster][1] = i.item[k].cluster
  /\ (RootDirEntries * ItemSize) % SectorSize = 0

VARIABLES
  filesystem,         \* disk.filesystem
  file_descriptors,   \* file_descriptors[], by the index of the descriptor
  heap,               \* the structures of the open files
  wild,               \* where null was written to, or "no"
  call                \* the last call: its arguments and what it returned

vars == <<disk, filesystem, file_descriptors, heap, wild, call>>

Index == 1 .. MaxDescriptors
\* struct file_descriptor and struct fat_file_descriptor: the item and the
\* position, and the addresses of the two, of the fat_item and of the clone.
Descriptor(opened, pos, desc) ==
  [item |-> opened.entry, pos |-> pos, desc |-> desc, private |-> opened.private,
   fat_item |-> opened.fat_item, clone |-> opened.clone]
Closed == Descriptor(Nothing([heap |-> {}, left |-> 0]), 0, 0)

\* A call with its arguments, the number that it returns, and what it stores
\* where its caller wants it.
Call(name, args, value, out) == [name |-> name, args |-> args, value |-> value, out |-> out]
NoCall == Call("none", <<>>, 0, <<>>)   \* before the first one, or one that has no end
Failure == -1

-----------------------------------------------------------------------------
\* Null is written to; what follows from that is not modelled.
Ends(place) == wild' = place /\ call' = NoCall /\ UNCHANGED <<file_descriptors, heap>>

\* file_new_descriptor takes the first free entry.
\* Variant: an entry behind the last one in use.
FreeIndices_AtEnd ==
  {i \in Index : \A j \in i .. MaxDescriptors : file_descriptors[j] = Closed}

FreeIndices == {i \in Index : file_descriptors[i] = Closed}

\* file_get_descriptor refuses the last descriptor that file_new_descriptor makes.
Handles == 1 .. MaxDescriptors - 1
IsOpen(fd) == fd \in Handles /\ file_descriptors[fd] # Closed

Opened(fd) == item[file_descriptors[fd].item]

\* disk_search_and_init, fs_resolve and fat16_resolve with memory that suffices:
\* the file system takes a disk with its signature.
Resolve(signature) == IF signature = FAT16Signature THEN "fat16" ELSE "none"

\* fopen: the path is parsed, the drive is the one disk, its file system is
\* known, the mode is good, the file is there, and an entry is free; every
\* failure becomes 0. Neither the path nor what a failure leaves is given back.
Fopen(path, mode, left) ==
  LET root == Parse(path)
      path_structures == IF root = NoRoot THEN 0 ELSE 1 + 2 * Len(root.parts)
      m == [heap |-> heap, left |-> left - path_structures]
      good == root.parts # <<>> /\ root.drive_no = 0 /\ filesystem # "none" /\ mode = "r"
      opened == IF good THEN Fat16Open(m, root.parts) ELSE Nothing(m)
      desc == Kzalloc(opened.m)
      found == opened.entry # 0 /\ FreeIndices # {}
  IN  /\ CASE left < path_structures                    -> Ends("pathparser_parse")
           [] left >= path_structures /\ ~found         ->
                /\ call' = Call("fopen", <<path, mode, left>>, 0, <<>>)
                /\ UNCHANGED <<file_descriptors, heap, wild>>
           [] left >= path_structures /\ found /\ desc.ptr = 0 -> Ends("file_new_descriptor")
           [] OTHER                                     ->
                /\ call' = Call("fopen", <<path, mode, left>>, Min(FreeIndices), <<>>)
                /\ file_descriptors' =
                     [file_descriptors EXCEPT ![Min(FreeIndices)] = Descriptor(opened, 0, desc.ptr)]
                /\ heap' = desc.m.heap
                /\ UNCHANGED wild
      /\ UNCHANGED <<disk, filesystem>>

\* fstat and fat16_stat.
Fstat(fd) ==
  /\ call' = IF IsOpen(fd) THEN Call("fstat", <<fd>>, 0, <<Opened(fd).filesize>>)
             ELSE Call("fstat", <<fd>>, Failure, <<>>)
  /\ UNCHANGED <<disk, filesystem, file_descriptors, heap, wild>>

\* fseek and fat16_seek: the offset is compared with the size of the file, and
\* the position that results from SEEK_CUR is not.
Seeks(fd, offset, whence) ==
  IsOpen(fd) /\ offset < Opened(fd).filesize /\ whence # "SEEK_END"

Fseek(fd, offset, whence) ==
  /\ \/ /\ ~Seeks(fd, offset, whence)
        /\ call' = Call("fseek", <<fd, offset, whence>>, Failure, <<>>)
        /\ UNCHANGED file_descriptors
     \/ /\ Seeks(fd, offset, whence)
        /\ file_descriptors' = [file_descriptors EXCEPT ![fd].pos =
                                  IF whence = "SEEK_SET" THEN offset ELSE @ + offset]
        /\ file_descriptors'[fd].pos <= MaxPosition
        /\ call' = Call("fseek", <<fd, offset, whence>>, 0, <<>>)
  /\ UNCHANGED <<disk, filesystem, heap, wild>>

\* fread, which leaves the position of the descriptor where it is.
Fread(fd, size, nmemb) ==
  /\ call' =
       IF size = 0 \/ nmemb = 0 \/ ~IsOpen(fd)
         THEN Call("fread", <<fd, size, nmemb>>, Failure, <<>>)
         ELSE LET r == Fat16Read(Opened(fd).cluster, file_descriptors[fd].pos, size, nmemb)
              IN  Call("fread", <<fd, size, nmemb>>, IF r.ok THEN nmemb ELSE Failure, r.out)
  /\ UNCHANGED <<disk, filesystem, file_descriptors, heap, wild>>

\* fclose and file_free_descriptor.
\* Variant: the entry is looked for at the index, which counts from 1.
Fclose_NextEntry(fd) ==
  /\ file_descriptors' = [i \in Index |-> IF IsOpen(fd) /\ i = fd + 1 THEN Closed
                                          ELSE file_descriptors[i]]
  /\ heap' = IF IsOpen(fd)
             THEN Fat16Close(heap, file_descriptors[fd]) \ {file_descriptors[fd].desc}
             ELSE heap
  /\ call' = Call("fclose", <<fd>>, IF IsOpen(fd) THEN 0 ELSE Failure, <<>>)
  /\ UNCHANGED <<disk, filesystem, wild>>

Fclose(fd) ==
  /\ file_descriptors' = [i \in Index |-> IF IsOpen(fd) /\ i = fd THEN Closed
                                          ELSE file_descriptors[i]]
  /\ heap' = IF IsOpen(fd)
             THEN Fat16Close(heap, file_descriptors[fd]) \ {file_descriptors[fd].desc}
             ELSE heap
  /\ call' = Call("fclose", <<fd>>, IF IsOpen(fd) THEN 0 ELSE Failure, <<>>)
  /\ UNCHANGED <<disk, filesystem, wild>>

\* fs_init and disk_search_and_init, on one of the disks.
Init ==
  /\ \E i \in Images :
       /\ item = i.item /\ chain = i.chain /\ junk = i.junk
       /\ filesystem = Resolve(i.signature)
  /\ file_descriptors = [i \in Index |-> Closed]
  /\ heap = {} /\ wild = "no"
  /\ call = NoCall

Next ==
  /\ wild = "no"
  /\ \/ \E open \in Opens, left \in Memory : Fopen(open[1], open[2], left)
     \/ \E fd \in 0 .. MaxDescriptors :
          \/ Fstat(fd) \/ Fclose(fd)
          \/ \E offset \in Lengths, whence \in {"SEEK_SET", "SEEK_CUR", "SEEK_END"} :
               Fseek(fd, offset, whence)
          \/ \E size \in Lengths, nmemb \in 0 .. 2 : Fread(fd, size, nmemb)

Spec == Init /\ [][Next]_vars

-----------------------------------------------------------------------------
(* What a file is, without the code: the bytes of its clusters in the order *)
(* of its chain, in a data area behind all sectors of the root directory.   *)

DataSector == RootSector + (RootDirEntries * ItemSize + SectorSize - 1) \div SectorSize

ByteOfFile(i, k) ==
  LET cluster == chain[item[i].cluster][k \div ClusterSize + 1]
  IN  (DataSector + (cluster - 2) * SectorsPerCluster) * SectorSize + (k % ClusterSize)

BytesOfFile(i, from, n) == [k \in 1 .. n |-> ByteOfFile(i, from + k - 1)]

\* A field of an item: a name, and blanks that fill it up.
IsPadded(field) ==
  \E n \in 0 .. Len(field) : \A k \in DOMAIN field :
    IF k <= n THEN field[k] \notin {Space, Zero, Slash} ELSE field[k] = Space

Unpadded(field) == SubSeq(field, 1, Cardinality({k \in DOMAIN field : field[k] # Space}))

\* The name that a user of the disk gave an item, with its extension.
OwnName(i) ==
  LET ext == Unpadded(item[i].ext)
  IN  Unpadded(item[i].filename) \o IF ext = <<>> THEN <<>> ELSE <<".">> \o ext

\* A name in small letters.
Small(name) == [i \in DOMAIN name |-> ToLower(name[i])]

\* The item has a name in its fields, and a blank ends it: a name or an extension
\* that fills its field runs into what is behind it.
FieldsEnd(i) ==
  /\ IsPadded(item[i].filename) /\ item[i].filename[1] # Space /\ IsPadded(item[i].ext)
  /\ Contains(item[i].filename, Space) \/ item[i].ext[1] = Space
  /\ Contains(item[i].ext \o <<item[i].attribute>>, Space)

\* Memory for the parsed path, for both descriptors, and for an item, its clone
\* and a directory for each item with the name.
Suffices(left, name) == left >= 3 + 2 + 4 * Cardinality(Matches(name))

\* The structures of an open file.
PartsOf(fd) ==
  LET d == file_descriptors[fd] IN <<d.desc, d.private, d.fat_item, d.clone>>

\* No path spells the mark of a deleted item, which would open one.
PathsAreNames == \A open \in Opens : ~Contains(open[1], DeletedMark)

TypeOK ==
  /\ \A fd \in Index : file_descriptors[fd] # Closed =>
       LET d == file_descriptors[fd]
       IN  d.item \in DOMAIN item /\ d.pos \in 0 .. MaxPosition /\ (PathsAreNames => Live(d.item))
  /\ filesystem \in {"fat16", "none"}
  /\ heap \subseteq 1 .. 4 * MaxDescriptors
  /\ wild \in {"no", "pathparser_parse", "file_new_descriptor"}
  /\ call.name \in {"none", "fopen", "fstat", "fseek", "fread", "fclose"}
  /\ call.value \in Failure .. MaxDescriptors

\* Every open file, also one behind a handle that is refused, has its own four
\* structures, which nobody has freed: whatever opens have failed half way for
\* want of a file, an entry or memory, and whatever was closed before (fopen,
\* fat16_open, fat16_new_fat_item_for_directory_item, fat16_close).
OpenFilesAreWhole ==
  LET open == {fd \in Index : file_descriptors[fd] # Closed}
  IN  /\ \A fd \in open : IsInjective(PartsOf(fd)) /\ Range(PartsOf(fd)) \subseteq heap
      /\ \A fd, other \in open :
           fd # other => Range(PartsOf(fd)) \cap Range(PartsOf(other)) = {}

\* A read that stays in the first cluster of the file, as the kernel's loading
\* of a whole program of up to one cluster does, returns the file's bytes from
\* the position on: all of them, in order, across the sectors of the cluster and
\* for any number of members (fread, fat16_read, fat16_read_internal_from_stream
\* and diskstreamer_read; fat16.c:405-501, 715-736, streamer.c:26-61).
ReadsFirstCluster ==
  call.name = "fread" /\ call.value # Failure =>
    LET d == file_descriptors[call.args[1]]
        n == call.args[2] * call.args[3]
    IN  d.pos + n <= ClusterSize => call.out = BytesOfFile(d.item, d.pos, n)

\* Whatever a path looks like, what fopen goes by are the names between its
\* slashes, in order, and the digit in front (pathparser_parse; pparser.c:14-135).
PathIsParsed ==
  call.name = "fopen" =>
    LET path == call.args[1]
        root == Parse(path)
    IN  root # NoRoot =>
          ArePartsOf(root.parts, path) /\ path[1] = Digits[root.drive_no + 1]

\* fopen hands out an entry that nobody has, for the file that was named in
\* small or capital letters, and it finds every file in front of the first
\* deleted item whose name ends in its fields, as long as an entry and memory
\* are free and the path is not too long (fopen, file_new_descriptor, pathparser_parse,
\* fat16_get_directory_entry, fat16_get_full_relative_filename, istrncmp).
OpenGivesTheFile ==
  [][ call'.name = "fopen" =>
        LET path == call'.args[1]
            fd == call'.value
            Drive == <<"0", ":", Slash>>
            rest == SubSeq(path, 4, Len(path))
            Names(i) == Small(rest) = Small(OwnName(i))
        IN  /\ fd # 0 =>
                 LET i == file_descriptors'[fd].item
                 IN  /\ file_descriptors[fd] = Closed
                     /\ IsPrefix(Drive, path)
                     /\ FieldsEnd(i) /\ ~Contains(rest, Slash) => Names(i)
            /\ /\ IsPrefix(Drive, path) /\ Len(path) <= MaxPath
               /\ call'.args[2] = "r"
               /\ \E i \in DOMAIN item :
                    Names(i) /\ FieldsEnd(i) /\ \A j \in 1 .. i : Live(j)
               /\ filesystem = "fat16" /\ Suffices(call'.args[3], rest)
               /\ \E i \in Index : file_descriptors[i] = Closed
               => fd # 0 ]_vars

\* A handle stands for the same file from the fopen that returned it up to its
\* own fclose, whatever else is opened, read and closed in between; and fclose
\* makes the entry free (file_get_descriptor, file_free_descriptor).
HandlesAreStable ==
  [][ \A fd \in Index :
        file_descriptors'[fd].item # file_descriptors[fd].item =>
          \/ call'.name = "fclose" /\ call'.args[1] = fd /\ file_descriptors'[fd] = Closed
          \/ call'.name = "fopen" /\ call'.value = fd /\ file_descriptors[fd] = Closed ]_vars

\* "Gets the correct cluster to use based on the starting cluster and the offset"
\* (fat16.c:404), which does not hold for any cluster but the first one: that a
\* read inside a file returns the bytes of the file.
ReadsTheFile ==
  call.name = "fread" /\ call.value # Failure =>
    LET d == file_descriptors[call.args[1]]
        n == call.args[2] * call.args[3]
    IN  d.pos + n <= item[d.item].filesize => call.out = BytesOfFile(d.item, d.pos, n)
=============================================================================
