---------------------------- MODULE ProcessLoad ----------------------------
(***************************************************************************)
(* Loading a program and taking it away again (src/task/process.c,         *)
(* src/loader/format/elfloader.c): which memory is allocated on the way,   *)
(* who points to it, what is given back when a step fails or the program   *)
(* exits, the file descriptor that is open in between, and what the pages  *)
(* of the program are mapped to.                                           *)
(*                                                                         *)
(* Nothing runs between the steps of a load: they are actions of their own *)
(* so that each can fail.  A task and its page directories are one block   *)
(* of memory.  Where the code goes on with a pointer that is null or that  *)
(* points to something else, what happens next is undefined: the model     *)
(* notes the place in "wild" and stops.                                    *)
(***************************************************************************)
EXTENDS Elf, FiniteSets

CONSTANTS
  MaxProcesses,   \* MULTITASK_OS_KERNELSHELL_MAX_PROCESSES, 12
  File,           \* the files that programs are loaded from
  StackSize,      \* MULTITASK_OS_KERNELSHELL_USER_PROGRAM_STACK_SIZE, 16384
  StackEnd,       \* ..._PROGRAM_VIRTUAL_STACK_ADDRESS_END, 0x3FB000
  MaxAllocations, \* MULTITASK_OS_KERNELSHELL_MAX_PROGRAM_ALLOCATIONS, 1024
  MallocSizes     \* the sizes that programs ask for, and those of their arguments

\* The heap and the stack of a program end before the address space does, and
\* the program has its stack where the kernel has no heap.
ASSUME LoadAssumption ==
  /\ MaxProcesses \in Nat \ {0} /\ StackSize \in Nat \ {0}
  /\ StackEnd \in Nat /\ Aligned(StackEnd) /\ AlignAddress(StackEnd + StackSize) <= AddressSpace
  /\ \A f \in File : f.size \in Nat \ {0} /\ f.phdrs \in Seq(ProgramHeader)
  /\ (Blocks + 1) * PageSize < AddressSpace
  /\ AlignAddress(StackEnd + StackSize) <= PageSize \/ (Blocks + 1) * PageSize <= StackEnd
  /\ MaxAllocations \in Nat /\ MallocSizes \subseteq Nat \ {0}

Slots == 0 .. MaxProcesses - 1
NULL == 0
Address == {AddressOf(b) : b \in Block}
Pointer == {NULL} \cup Address

VARIABLES
  heap,         \* the addresses that are allocated, with their numbers of blocks
  processes,    \* processes[]
  process,      \* the fields of the struct process at an address
  elf_memory,   \* the field of the struct elf_file at an address, NULL for any other block
  file,         \* the file whose bytes are in the memory of the process in a slot
  directory,    \* the page directory of the task of the process in a slot
  allocations,  \* the addresses in allocations[] of the process in a slot
  granted,      \* history: the blocks that process_malloc has mapped for it
  open,         \* open file descriptors
  pc,           \* the step of process_load_for_slot that comes next
  new,          \* _process and process_slot of that load, and the file it reads
  elf_file,     \* the local variable of elf_load
  copy,         \* the local variables of copy_string_from_task, and whose task it is
  wild          \* where the behaviour became undefined

memory == <<heap, process, elf_memory>>
malloced == <<allocations, granted>>
loaded == <<processes, file, directory, malloced>>
vars == <<memory, loaded, open, pc, new, elf_file, copy, wild>>

UserFlags == {"present", "user"}

NewProcess == [filetype |-> "elf", data |-> NULL, stack |-> NULL, task |-> NULL]
NoFile == [size |-> 0]
NoLoad == [address |-> NULL, slot |-> 0, file |-> NoFile]
NoCopy == [slot |-> 0, tmp |-> NULL, old |-> NULL]

\* task_init: the directory of a new task.
NewDirectory == New4gb(UserFlags)

Init ==
  /\ heap = EmptyHeap /\ open = {}
  /\ processes = [s \in Slots |-> NULL]
  /\ process = [a \in Address |-> NewProcess]
  /\ elf_memory = [a \in Address |-> NULL]
  /\ file = [s \in Slots |-> NoFile]
  /\ directory = [s \in Slots |-> NewDirectory]
  /\ allocations = [s \in Slots |-> {}] /\ granted = [s \in Slots |-> {}]
  /\ pc = "idle" /\ new = NoLoad /\ elf_file = NULL /\ copy = NoCopy /\ wild = "no"

\* The step is undefined from here on.
GoWild(place) ==
  /\ wild' = place /\ pc' = "wild"
  /\ UNCHANGED <<memory, loaded, open, new, elf_file, copy>>

\* The local variables of a load are gone when it returns.
Return ==
  /\ pc' = "idle" /\ new' = NoLoad /\ elf_file' = NULL

\* The exit of process_load_for_slot with an error, with the heap that its last
\* step has left: only the task is freed.
Fail(left) ==
  /\ heap' = Freed(left, process[new.address].task)
  /\ Return
  /\ UNCHANGED <<process, elf_memory, loaded, copy, wild>>

\* kzalloc of size bytes gives the block that Given(size) names, which is zeroed.
Given(size) == Kzalloc(heap, size)
With(size) == Allocated(heap, Given(size), size)
Obtained(size) == Given(size) # NULL /\ heap' = With(size)
NoElfFile(size) == elf_memory' = [elf_memory EXCEPT ![Given(size)] = NULL]

\* A structure of the kernel: its size is that of a block.
Struct == PageSize

-----------------------------------------------------------------------------
\* process_load, process_load_for_slot: a free slot and the structure.
Start ==
  /\ pc = "idle"
  /\ \E s \in Slots : processes[s] = NULL
  /\ Obtained(Struct) /\ NoElfFile(Struct)
  /\ \E f \in File :
       new' = [address |-> Given(Struct), slot |-> Min({s \in Slots : processes[s] = NULL}),
               file |-> f]
  /\ process' = [process EXCEPT ![Given(Struct)] = NewProcess]
  /\ pc' = "elf_load"
  /\ UNCHANGED <<loaded, open, elf_file, copy, wild>>

\* elf_load: the structure, whose address is checked by nobody, and fopen.
ElfOpen ==
  /\ pc = "elf_load"
  /\ Obtained(Struct) /\ NoElfFile(Struct)
  /\ elf_file' = Given(Struct)
  /\ open' = open \cup {1}
  /\ pc' = "elf_read"
  /\ UNCHANGED <<process, loaded, new, copy, wild>>

\* No such file: -EIO, for which no binary is tried.
ElfMissing ==
  /\ pc = "elf_load"
  /\ Fail(IF Given(Struct) = NULL THEN heap ELSE With(Struct))
  /\ UNCHANGED open

\* fstat, or fread after the memory was allocated, fails.
\* Variant: an error leaves elf_load without fclose.
ElfUnreadable_Open ==
  /\ pc = "elf_read"
  /\ Fail(heap) \/ (Given(new.file.size) # NULL /\ Fail(With(new.file.size)))
  /\ UNCHANGED open

ElfUnreadable ==
  /\ pc = "elf_read"
  /\ Fail(heap) \/ (Given(new.file.size) # NULL /\ Fail(With(new.file.size)))
  /\ open' = open \ {1}

\* The memory, whose address is not checked either, the reading, fclose.
ElfRead ==
  /\ pc = "elf_read"
  /\ Obtained(new.file.size)
  /\ elf_memory' = [elf_memory EXCEPT ![Given(new.file.size)] = NULL,
                                      ![elf_file] = Given(new.file.size)]
  /\ open' = open \ {1}
  /\ pc' = "validate"
  /\ UNCHANGED <<process, loaded, new, elf_file, copy, wild>>

OutOfMemoryInElf ==
  /\ \/ pc = "elf_load" /\ Given(Struct) = NULL
     \/ pc = "elf_read" /\ Given(new.file.size) = NULL
  /\ GoWild("elf_load")

\* elf_process_loaded, process_load_elf.
ElfValid ==
  /\ pc = "validate" /\ ValidateLoaded(new.file)
  /\ process' = [process EXCEPT ![new.address].filetype = "elf",
                               ![new.address].data = elf_file]
  /\ pc' = "stack"
  /\ UNCHANGED <<heap, elf_memory, loaded, open, new, elf_file, copy, wild>>

\* -EINFORMAT: process_load_data tries a binary, what was read is forgotten.
ElfInvalid ==
  /\ pc = "validate" /\ ~ValidateLoaded(new.file)
  /\ pc' = "binary" /\ elf_file' = NULL
  /\ UNCHANGED <<memory, loaded, open, new, copy, wild>>

\* process_load_binary: fopen.
BinaryOpen ==
  /\ pc = "binary"
  /\ open' = open \cup {1}
  /\ pc' = "binary_read"
  /\ UNCHANGED <<memory, loaded, new, elf_file, copy, wild>>

\* fopen, fstat, kzalloc or fread fails; fclose is called in any case.
BinaryFails ==
  /\ pc \in {"binary", "binary_read"}
  /\ \/ Fail(heap)
     \/ pc = "binary_read" /\ Given(new.file.size) # NULL /\ Fail(With(new.file.size))
  /\ open' = open \ {1}

\* ptr is set, and filetype stays as it is.
BinaryRead ==
  /\ pc = "binary_read"
  /\ Obtained(new.file.size) /\ NoElfFile(new.file.size)
  /\ process' = [process EXCEPT ![new.address].data = Given(new.file.size)]
  /\ open' = open \ {1}
  /\ pc' = "stack"
  /\ UNCHANGED <<loaded, new, elf_file, copy, wild>>

\* process_load_for_slot: the stack.
Stack ==
  /\ pc = "stack"
  /\ Obtained(StackSize) /\ NoElfFile(StackSize)
  /\ process' = [process EXCEPT ![new.address].stack = Given(StackSize)]
  /\ pc' = "task"
  /\ UNCHANGED <<loaded, open, new, elf_file, copy, wild>>

NoStack == pc = "stack" /\ Given(StackSize) = NULL /\ Fail(heap) /\ UNCHANGED open

\* What filetype says is what the union holds.
IsElf(p) == p.filetype = "elf"
HoldsElf(p) == elf_memory[p.data] # NULL

\* task_new, with task_init, which reads the entry point of an ELF file.
Task ==
  /\ pc = "task"
  /\ IsElf(process[new.address]) => HoldsElf(process[new.address])
  /\ Obtained(Struct) /\ NoElfFile(Struct)
  /\ process' = [process EXCEPT ![new.address].task = Given(Struct)]
  /\ pc' = "map"
  /\ UNCHANGED <<loaded, open, new, elf_file, copy, wild>>

\* The data of a binary are read as an ELF file.
TaskOfBinary ==
  /\ pc = "task" /\ Given(Struct) # NULL
  /\ IsElf(process[new.address]) /\ ~HoldsElf(process[new.address])
  /\ GoWild("task_init")

\* task_new frees the null pointer, and process_load_for_slot takes the error
\* that it returns for a task.
NoTask == pc = "task" /\ Given(Struct) = NULL /\ GoWild("task_new")

-----------------------------------------------------------------------------
\* The end of what process_map_elf maps for a program header whose contents are
\* at an address: all of p_memsz, of which the file holds only p_filesz.
\* Variant: only what the file holds.
MapEnd_FileSize(start, h) == AlignToUpperPage(Word(start + h.filesz))

MapEnd(start, h) == AlignToUpperPage(Word(start + h.memsz))

\* process_map_elf: every program header is mapped, whatever its type, and the
\* last one that covers a page decides. It stops at an error.
MapElf(chunk, base, f) ==
  LET mapped[n \in 0 .. Len(f.phdrs)] ==
        IF n = 0 THEN [ok |-> TRUE, chunk |-> chunk]
        ELSE IF ~mapped[n - 1].ok THEN mapped[n - 1]
        ELSE LET h == f.phdrs[n]
                 start == PhdrAddress(base, h)
             IN  MapTo(mapped[n - 1].chunk, AlignToLowerPage(h.vaddr), AlignToLowerPage(start),
                       MapEnd(start, h),
                       UserFlags \cup (IF PF_W \in h.flags THEN {"write"} ELSE {}))
  IN  mapped[Len(f.phdrs)]

\* process_map_memory of an ELF file, and what the stack's mapping leaves.
MapMemory(p, f) ==
  LET mapped == MapElf(NewDirectory, elf_memory[p.data], f)
      stack == MapTo(mapped.chunk, StackEnd, p.stack, AlignToUpperPage(p.stack + StackSize),
                     UserFlags \cup {"write"})
  IN IF mapped.ok THEN [ok |-> TRUE, chunk |-> stack.chunk] ELSE mapped

\* The mapping, and the entry in the table.
Map ==
  LET mapped == MapMemory(process[new.address], new.file)
  IN /\ pc = "map" /\ mapped.ok
     /\ processes' = [processes EXCEPT ![new.slot] = new.address]
     /\ file' = [file EXCEPT ![new.slot] = new.file]
     /\ directory' = [directory EXCEPT ![new.slot] = mapped.chunk]
     /\ Return
     /\ UNCHANGED <<memory, malloced, open, copy, wild>>

\* Variant: the entry is made before the mapping.
MapFails_Registered ==
  /\ pc = "map" /\ ~MapMemory(process[new.address], new.file).ok
  /\ heap' = Freed(heap, process[new.address].task)
  /\ processes' = [processes EXCEPT ![new.slot] = new.address]
  /\ Return
  /\ UNCHANGED <<process, elf_memory, file, directory, malloced, open, copy, wild>>

MapFails ==
  /\ pc = "map" /\ ~MapMemory(process[new.address], new.file).ok
  /\ Fail(heap)
  /\ UNCHANGED open

\* process_terminate: what malloc gave, the program data, the stack, the task,
\* the slot.
Exit(s) ==
  /\ pc = "idle" /\ processes[s] # NULL
  /\ LET p == process[processes[s]]
         left == FreedAll(heap, allocations[s])
     IN  heap' = Freed(Freed(Freed(Freed(left, elf_memory[p.data]), p.data), p.stack), p.task)
  /\ processes' = [processes EXCEPT ![s] = NULL]
  /\ file' = [file EXCEPT ![s] = NoFile]
  /\ directory' = [directory EXCEPT ![s] = NewDirectory]
  /\ allocations' = [allocations EXCEPT ![s] = {}]
  /\ granted' = [granted EXCEPT ![s] = {}]
  /\ UNCHANGED <<process, elf_memory, open, pc, new, elf_file, copy, wild>>

\* process_malloc, for the program in slot s or for an argument that is passed
\* to it: the memory is mapped to itself, and stays so in the directory. One
\* that fails, for lack of memory or of an entry, leaves everything as it was.
Malloc(s) ==
  /\ pc = "idle" /\ processes[s] # NULL
  /\ Cardinality(allocations[s]) < MaxAllocations
  /\ \E size \in MallocSizes :
       LET ptr == Given(size)
           end == AlignToUpperPage(ptr + size)
           mapped == MapTo(directory[s], ptr, ptr, end, UserFlags \cup {"write"})
       IN /\ Obtained(size) /\ NoElfFile(size)
          /\ mapped.ok
          /\ directory' = [directory EXCEPT ![s] = mapped.chunk]
          /\ allocations' = [allocations EXCEPT ![s] = @ \cup {ptr}]
          /\ granted' = [granted EXCEPT ![s] = @ \cup Pages(ptr, end)]
  /\ UNCHANGED <<process, processes, file, open, pc, new, elf_file, copy, wild>>

\* process_free of an address of its own: the entry is cleared before its address
\* and size are read, so that paging_map_to unmaps nothing.
FreeMemory(s) ==
  /\ pc = "idle" /\ processes[s] # NULL
  /\ \E ptr \in allocations[s] :
       /\ allocations' = [allocations EXCEPT ![s] = @ \ {ptr}]
       /\ heap' = Freed(heap, ptr)
  /\ UNCHANGED <<process, elf_memory, processes, file, directory, granted>>
  /\ UNCHANGED <<open, pc, new, elf_file, copy, wild>>

\* copy_string_from_task for a command of the program in slot s, up to the
\* copy itself: a block of the kernel is mapped to itself in the program's
\* directory, where the copy is made.
CopyString(s) ==
  LET tmp == Given(Struct)
  IN /\ pc = "idle" /\ processes[s] # NULL
     /\ Obtained(Struct) /\ NoElfFile(Struct)
     /\ copy' = [slot |-> s, tmp |-> tmp, old |-> PagingGet(directory[s], tmp)]
     /\ directory' = [directory EXCEPT ![s] =
                        PagingSet(@, tmp, [frame |-> tmp, flags |-> UserFlags \cup {"write"}])]
     /\ pc' = "copying"
     /\ UNCHANGED <<process, processes, file, malloced, open, new, elf_file, wild>>

\* The rest of it: the old entry is stored again and the block is freed.
\* Variant: the program keeps the mapping.
CopyBack_Mapped ==
  /\ pc = "copying"
  /\ heap' = Freed(heap, copy.tmp)
  /\ copy' = NoCopy
  /\ pc' = "idle"
  /\ UNCHANGED <<process, elf_memory, loaded, open, new, elf_file, wild>>

CopyBack ==
  /\ pc = "copying"
  /\ directory' = [directory EXCEPT ![copy.slot] = PagingSet(@, copy.tmp, copy.old)]
  /\ heap' = Freed(heap, copy.tmp)
  /\ copy' = NoCopy
  /\ pc' = "idle"
  /\ UNCHANGED <<process, elf_memory, processes, file, malloced, open, new, elf_file, wild>>

Next ==
  \/ Start
  \/ ElfOpen \/ ElfMissing \/ ElfUnreadable \/ ElfRead \/ OutOfMemoryInElf
  \/ ElfValid \/ ElfInvalid
  \/ BinaryOpen \/ BinaryFails \/ BinaryRead
  \/ Stack \/ NoStack
  \/ Task \/ TaskOfBinary \/ NoTask
  \/ Map \/ MapFails
  \/ \E s \in Slots : Exit(s) \/ Malloc(s) \/ FreeMemory(s) \/ CopyString(s)
  \/ CopyBack

Spec == Init /\ [][Next]_vars
-----------------------------------------------------------------------------
Loaded == {processes[s] : s \in Slots} \ {NULL}
Known == Loaded \cup ({new.address} \ {NULL})

\* The blocks that a process points to, and the process itself.
Parts(a) ==
  LET p == process[a]
  IN  <<a, p.data, IF p.data = NULL THEN NULL ELSE elf_memory[p.data], p.stack, p.task>>

TypeOK ==
  /\ DOMAIN heap \subseteq Address /\ Taken(heap) \subseteq Block /\ open \subseteq {1}
  /\ processes \in [Slots -> Pointer]
  /\ elf_memory \in [Address -> Pointer]
  /\ \A s \in Slots : file[s] \in File \cup {NoFile}
  /\ new.slot \in Slots /\ (pc \in {"idle", "copying"} <=> new.address = NULL)
  /\ wild \in {"no", "elf_load", "task_init", "task_new"} /\ (wild # "no" <=> pc = "wild")

\* Whatever failed before, everything that a loaded program or the program
\* being loaded points to is allocated, and no block has two owners or two
\* roles; the same goes for what malloc gave to a program.  A program in the
\* table has all its parts (process_load_for_slot, process_terminate;
\* process.c:199-226, 502-577).
PartsAreOwned ==
  /\ \A a, b \in Known : \A i, j \in 1 .. 5 :
       Parts(a)[i] # NULL =>
         /\ Parts(a)[i] \in DOMAIN heap
         /\ Parts(a)[i] = Parts(b)[j] => a = b /\ i = j
  /\ \A a \in Loaded : \A i \in 1 .. 5 : Parts(a)[i] # NULL
  /\ \A s \in Slots : \A ptr \in allocations[s] :
       /\ ptr \in DOMAIN heap
       /\ \A a \in Known : \A i \in 1 .. 5 : Parts(a)[i] # ptr
       /\ \A t \in Slots : ptr \in allocations[t] => t = s

\* No way out of a load, and no load that went through, leaves a file
\* descriptor open (elf_load and process_load_binary).
FilesAreClosed == pc = "idle" => open = {}

-----------------------------------------------------------------------------
Memory(s) == elf_memory[process[processes[s]].data]

\* The pages that belong to a program header reach from FirstPage up to EndPage.
FirstPage(h) == AlignToLowerPage(h.vaddr)
EndPage(h) == AlignAddress(h.vaddr + h.memsz)
Covers(h, a) == AlignToLowerPage(a) \in FirstPage(h) .. EndPage(h) - 1
Apart(h, from, to) == EndPage(h) <= from \/ to <= FirstPage(h)

\* All that the headers name is in the file.
IsContained(f) == \A h \in Range(f.phdrs) : h.offset + h.filesz <= f.size

\* A file as linkers make it (programs/*/linker.ld): its contents are at
\* their places in a page, there is room for them wherever the heap gives the
\* file its memory, they lie neither on the stack nor where the kernel has its
\* heap, segments are not empty and do not begin at 0, and headers that share a
\* page agree on what is there.
IsLinked(f) ==
  /\ IsContained(f)
  /\ \A h \in Range(f.phdrs) :
       /\ h.vaddr % PageSize = h.offset % PageSize
       /\ h.vaddr + h.memsz < AddressSpace
       /\ (Blocks + 1) * PageSize + h.offset + h.memsz <= AddressSpace
       /\ Apart(h, StackEnd, StackEnd + StackSize)
       /\ Apart(h, PageSize, (Blocks + 1) * PageSize)
       /\ h.type = PT_LOAD => h.vaddr > 0 /\ h.memsz > 0 /\ h.filesz <= h.memsz
  /\ \A g, h \in Range(f.phdrs) :
       g.vaddr - g.offset = h.vaddr - h.offset \/ Apart(h, FirstPage(g), EndPage(g))

\* The addresses of the segment i of a file, apart from those in pages that a
\* later header is mapped over.
SegmentAddresses(f, i) ==
  LET h == f.phdrs[i]
  IN {a \in h.vaddr .. h.vaddr + h.memsz - 1 :
        ~\E j \in i + 1 .. Len(f.phdrs) : Covers(f.phdrs[j], a)}

\* What a program finds at the addresses of its segments is its own copy of its
\* file at the offsets that the headers name, for as long as it is loaded, and
\* it may write there exactly if the header says so. The stack is where esp
\* points and can be written (elfloader.c:77-80, process.c:405-462,
\* paging.c:88-183, task.c:216-243).
ProgramIsMapped ==
  pc # "copying" =>
    \A s \in Slots : processes[s] # NULL =>
      /\ IsLinked(file[s]) =>
           \A i \in DOMAIN file[s].phdrs : \A a \in SegmentAddresses(file[s], i) :
             LET h == file[s].phdrs[i]
             IN /\ PhysicalAddress(directory[s], a) = Memory(s) + h.offset + (a - h.vaddr)
                /\ LET flags == PagingGet(directory[s], AlignToLowerPage(a)).flags
                   IN "user" \in flags /\ ("write" \in flags <=> PF_W \in h.flags)
      /\ \A k \in 0 .. StackSize - 1 :
           /\ PhysicalAddress(directory[s], StackEnd + k) = process[processes[s]].stack + k
           /\ "write" \in PagingGet(directory[s], AlignToLowerPage(StackEnd + k)).flags

\* The blocks of memory from a header's contents on that p_memsz takes in: what
\* is more than p_filesz lies behind the file, nothing is kept for such a rest.
Behind(s) ==
  UNION {(Memory(s) + h.offset) \div PageSize .. (Memory(s) + h.offset + h.memsz - 1) \div PageSize :
           h \in {g \in Range(file[s].phdrs) : g.memsz > 0}}

\* The pages that a program may write lead to its own memory and stack and to the
\* blocks that malloc gave to this program, whatever was loaded, copied from it
\* or freed before, if its headers ask for no more memory than its file has;
\* otherwise also to what lies right behind. A block that malloc gave stays
\* writable after its free, when it may be anybody's (process_free,
\* process.c:317): the bound is what the program has ever been given, not what
\* it still has.
WritesStayHome ==
  pc # "copying" =>
    \A s \in Slots : processes[s] # NULL /\ IsContained(file[s]) =>
      \A d, t \in 0 .. Entries - 1 :
        LET entry == PagingGet(directory[s], (d * Entries + t) * PageSize)
        IN "write" \in entry.flags =>
             entry.frame \div PageSize \in
               BlocksAt(heap, Memory(s)) \cup BlocksAt(heap, process[processes[s]].stack)
               \cup granted[s] \cup Behind(s)

\* struct elf_file gets the lowest address of the loadable segments and the end
\* of the last one, with the places in memory that belong to them, in whatever
\* order the headers are, also while a string is being copied
\* (elfloader.c:119-164).
RangeCoversSegments ==
  \A s \in Slots : processes[s] # NULL /\ IsLinked(file[s]) =>
    LET segments == {h \in Range(file[s].phdrs) : h.type = PT_LOAD}
        range == ProcessPheaders(Memory(s), file[s])
    IN segments # {} =>
         /\ \A h \in segments : range.vbase <= h.vaddr /\ h.vaddr + h.filesz <= range.vend
         /\ \E h \in segments : /\ range.vbase = h.vaddr
                              /\ range.pbase = PhysicalAddress(directory[s], h.vaddr)
         /\ \E h \in segments : /\ range.vend = h.vaddr + h.filesz
                              /\ range.pend = Memory(s) + h.offset + h.filesz
=============================================================================
