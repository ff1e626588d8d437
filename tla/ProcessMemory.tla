--------------------------- MODULE ProcessMemory ---------------------------
(***************************************************************************)
(* The memory that the kernel allocates on behalf of a program             *)
(* (src/task/process.c, commands 4, 5, 7 and 9): the table of allocations  *)
(* of the process, the page directory of its task, and the kernel heap     *)
(* that all processes share.                                               *)
(*                                                                         *)
(* One handler is one step.  What a handler does to one process is written *)
(* as an operator on the record [heap, table, page]: the heap, the table   *)
(* of the process and the flags of the heap's pages in its directory.      *)
(***************************************************************************)
EXTENDS KernelHeap, FiniteSets

CONSTANTS
  Process,          \* the processes, by slot
  MaxAllocations,   \* MULTITASK_OS_KERNELSHELL_MAX_PROGRAM_ALLOCATIONS, 1024
  Sizes,            \* the sizes in bytes that programs ask for
  PointerSize,      \* sizeof(const char*), 4
  ArgumentSize,     \* sizeof(current->argument), 512
  MaxArguments      \* the longest list of arguments, a bound of the model

ASSUME MemoryAssumption ==
  /\ MaxAllocations \in Nat \ {0} /\ Sizes \subseteq Nat \ {0}
  /\ PointerSize \in Nat \ {0} /\ ArgumentSize \in Nat \ {0}
  /\ MaxArguments \in Nat

VARIABLES
  loaded,        \* the processes in the process table
  heap,          \* the allocations made for programs
  allocations,   \* process->allocations
  page,          \* flags of the heap's pages in task->page_directory
  arguments      \* process->arguments

vars == <<loaded, heap, allocations, page, arguments>>

Index == 1 .. MaxAllocations
NoEntry == [ptr |-> 0, size |-> 0]
Flags == {"readable", "writable", "none"}

\* process_init, and paging_new_4gb with PRESENT and ACCESS_FROM_ALL.
NewTable == [i \in Index |-> NoEntry]
NewDirectory == [b \in Page |-> "readable"]
NoArguments == [argc |-> 0, argv |-> 0]

Init ==
  /\ loaded = {} /\ heap = EmptyHeap
  /\ allocations = [p \in Process |-> NewTable]
  /\ page = [p \in Process |-> NewDirectory]
  /\ arguments = [p \in Process |-> NoArguments]

-----------------------------------------------------------------------------
\* paging_map_to with virt = phys.  Here it cannot fail: heap addresses are
\* aligned, the end is aligned by the callers and not below the start.
MapTo(dir, phys, phys_end, flags) ==
  [b \in Page |-> IF b \in Pages(phys, phys_end) THEN flags ELSE dir[b]]

\* The indices at which the table holds an address; 0 stands in the free ones.
IndexesOf(table, ptr) == {i \in Index : table[i].ptr = ptr}

\* process_malloc once the block at ptr and the index i are found.
Store(m, ptr, size, i) ==
  [heap  |-> Allocated(m.heap, ptr, size),
   table |-> [m.table EXCEPT ![i] = [ptr |-> ptr, size |-> size]],
   page  |-> MapTo(m.page, ptr, AlignAddress(ptr + size), "writable")]

\* process_malloc: m is the memory afterwards, ptr what it returns.  A block for
\* which the table has no room is freed again.
\* Variant: it is not freed.
Malloc_NoFree(m, size) ==
  LET ptr == Kzalloc(m.heap, size)
      free == IndexesOf(m.table, 0)
  IN  IF ptr = 0 THEN [m |-> m, ptr |-> 0]
      ELSE IF free = {} THEN [m |-> [m EXCEPT !.heap = Allocated(@, ptr, size)], ptr |-> 0]
      ELSE [m |-> Store(m, ptr, size, Min(free)), ptr |-> ptr]

Malloc(m, size) ==
  LET ptr == Kzalloc(m.heap, size)
      free == IndexesOf(m.table, 0)
  IN  IF ptr = 0 \/ free = {} THEN [m |-> m, ptr |-> 0]
      ELSE [m |-> Store(m, ptr, size, Min(free)), ptr |-> ptr]

\* process_free.  A null pointer passes for a pointer of the process as long as
\* the table has a free entry.  The entry is cleared before its address and
\* size are used for the unmapping.
\* Variant: the entry is not cleared.
FreeOne_KeepsEntry(m, ptr) ==
  IF IndexesOf(m.table, ptr) = {} THEN m
  ELSE [m EXCEPT !.heap = Freed(@, ptr)]

FreeOne(m, ptr) ==
  LET found == IndexesOf(m.table, ptr)
      table == [i \in Index |-> IF i \in found THEN NoEntry ELSE m.table[i]]
      allocation == table[Min(found)]
  IN  IF found = {} THEN m
      ELSE [heap  |-> Freed(m.heap, ptr),
            table |-> table,
            page  |-> MapTo(m.page, allocation.ptr,
                            AlignAddress(allocation.ptr + allocation.size), "none")]

\* process_terminate_allocations: every index, whatever it holds; the memory
\* after each of them.
FreeEach(m) ==
  LET freed[n \in 0 .. MaxAllocations] ==
        IF n = 0 THEN m
        ELSE LET before == freed[n - 1] IN FreeOne(before, before.table[n].ptr)
  IN  freed

FreeAll(m) == FreeEach(m)[MaxAllocations]

\* process_inject_arguments for argc arguments: the array, then one string for
\* each argument until one cannot be allocated; what the last malloc was.
StringEach(array, argc) ==
  LET made[n \in 0 .. argc] ==
        IF n = 0 THEN array
        ELSE LET last == made[n - 1]
             IN  IF last.ptr = 0 THEN last ELSE Malloc(last.m, ArgumentSize)
  IN  made

Strings(array, argc) == StringEach(array, argc)[argc]

\* Variant: the arguments are published before the strings are there.
Inject_Early(m, argc) ==
  LET array == Malloc(m, PointerSize * argc)
  IN  [m |-> Strings(array, argc).m,
       arguments |-> IF array.ptr = 0 THEN NoArguments
                     ELSE [argc |-> argc, argv |-> array.ptr]]

Inject(m, argc) ==
  LET array == Malloc(m, PointerSize * argc)
      all == Strings(array, argc)
  IN  [m |-> all.m,
       arguments |-> IF all.ptr = 0 THEN NoArguments
                     ELSE [argc |-> argc, argv |-> array.ptr]]

Memory(p) == [heap |-> heap, table |-> allocations[p], page |-> page[p]]

Becomes(p, m) ==
  /\ heap' = m.heap
  /\ allocations' = [allocations EXCEPT ![p] = m.table]
  /\ page' = [page EXCEPT ![p] = m.page]

-----------------------------------------------------------------------------
\* process_load_for_slot: a new process, whose directory is all readable.
Load(p) ==
  /\ p \notin loaded
  /\ loaded' = loaded \cup {p}
  /\ UNCHANGED <<heap, allocations, page, arguments>>

\* Command 7: load and inject.  If injecting fails the process stays loaded.
LoadWith(p, argc) ==
  /\ p \notin loaded
  /\ loaded' = loaded \cup {p}
  /\ LET injected == Inject(Memory(p), argc)
     IN  /\ Becomes(p, injected.m)
         /\ arguments' = [arguments EXCEPT ![p] = injected.arguments]

\* Command 4.
UserMalloc(p, size) ==
  /\ p \in loaded
  /\ Becomes(p, Malloc(Memory(p), size).m)
  /\ UNCHANGED <<loaded, arguments>>

\* Command 5, with any pointer: null, its own, another process's, or none.
UserFree(p, ptr) ==
  /\ p \in loaded
  /\ Becomes(p, FreeOne(Memory(p), ptr))
  /\ UNCHANGED <<loaded, arguments>>

\* process_terminate; the next process of this slot has a new structure and a
\* new directory.
Terminate(p) ==
  /\ p \in loaded
  /\ loaded' = loaded \ {p}
  /\ heap' = FreeAll(Memory(p)).heap
  /\ allocations' = [allocations EXCEPT ![p] = NewTable]
  /\ page' = [page EXCEPT ![p] = NewDirectory]
  /\ arguments' = [arguments EXCEPT ![p] = NoArguments]

Pointers == {0, 1} \cup {AddressOf(b) : b \in Block}

Next ==
  \E p \in Process :
    \/ Load(p) \/ Terminate(p)
    \/ \E n \in 1 .. MaxArguments : LoadWith(p, n)
    \/ \E size \in Sizes : UserMalloc(p, size)
    \/ \E ptr \in Pointers : UserFree(p, ptr)

Spec == Init /\ [][Next]_vars

-----------------------------------------------------------------------------
\* The entries in use of the tables of all loaded processes.
Entries == {e \in Process \X Index : allocations[e[1]][e[2]].ptr # 0}
EntryOf(e) == allocations[e[1]][e[2]]

TypeOK ==
  /\ loaded \subseteq Process
  /\ DOMAIN heap \subseteq {AddressOf(b) : b \in Block}
  /\ \A a \in DOMAIN heap : heap[a] \in Block
  /\ \A p \in Process :
       /\ \A i \in Index : allocations[p][i].ptr \in {0} \cup DOMAIN heap
       /\ page[p] \in [Page -> Flags]
       /\ arguments[p].argc \in 0 .. MaxArguments

\* The heap holds exactly what the tables of the loaded processes say: nothing
\* is lost when a table is full, an argument list is cut short or a program
\* exits, nothing is freed that somebody still has, and no two entries, of one
\* process or of two, share a block (process_malloc, process_free,
\* process_terminate_allocations; process.c:61-140, 294-324).
TablesAreHeap ==
  /\ {EntryOf(e).ptr : e \in Entries} = DOMAIN heap
  /\ \A e \in Entries :
       e[1] \in loaded /\ heap[EntryOf(e).ptr] = NeededBlocks(EntryOf(e).size)
  /\ \A e, f \in Entries :
       e # f => BlocksAt(heap, EntryOf(e).ptr) \cap BlocksAt(heap, EntryOf(f).ptr) = {}

\* A program can write to every byte that malloc gave it, also on pages that it
\* or another program had before (process_malloc's paging_map_to, process.c:80).
OwnIsWritable ==
  \A e \in Entries : \A b \in BlocksAt(heap, EntryOf(e).ptr) : page[e[1]][b] = "writable"

\* A program that is started with arguments finds all of them: the array and a
\* string for each, in memory of its own.  When one allocation fails it finds
\* none (process_inject_arguments, process.c:251-292).
ArgumentsComplete ==
  [][ \A p \in Process : arguments'[p].argc > 0 /\ arguments[p].argc = 0 =>
        LET table == allocations'[p]
        IN  /\ \E i \in Index : /\ table[i].ptr = arguments'[p].argv
                                /\ table[i].size = PointerSize * arguments'[p].argc
            /\ Cardinality({i \in Index : /\ table[i].ptr # arguments'[p].argv
                                          /\ table[i].size = ArgumentSize})
                 = arguments'[p].argc ]_vars

\* "After allocation, upmap it." (process.c:313-316), which does not hold: that
\* a program can write to no page of the heap but its own.
WritableIsOwn ==
  \A p \in Process : \A b \in Page :
    page[p][b] = "writable" =>
      \E i \in Index : allocations[p][i].ptr # 0 /\ b \in BlocksAt(heap, allocations[p][i].ptr)
=============================================================================
