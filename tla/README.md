# Verification of multitask-os-kernelshell

TLA+ models of the kernel in `src/src`, checked with TLC on small instances, and
proofs about them checked with TLAPS. All source paths below are relative to the
repository.

## What kind of system this is

A 32-bit single-CPU kernel: a boot loader, a heap and paging, a FAT16 reader, an
ELF loader, processes with one task each, a round-robin scheduler driven by the
PIT, a keyboard driver, ten system commands behind `int 0x80`, and a small user
library with a shell.

*Concurrency.* Every vector is installed by `idt_set` with type `0xEE`, an
interrupt gate, so the CPU clears IF on entry, and nothing in the kernel sets it
again before `task_return` (which pushes flags with `0x200`) or `iret`. A handler
is therefore never interrupted, and one handler is one step of the models. What
is not determined is which handler comes next: the timer, the keyboard, a system
command of whichever program runs, an exception, a failure of an allocation.

*What the models take for granted.* Some of this commit cannot run as it stands:
`task_next` and `task_virtual_address_to_physical` are declared and called but
have no body, `idt.asm` names macros and symbols that do not exist, no filesystem
is inserted (`fs/file.c:41-44`), and `heap_get_start_block` refuses to start a
run at a free block (`memory/heap/heap.c:83`), so that the very first `kmalloc`
returns null. A model of the composition of everything would stop at its first
step. So each module models its own component exactly, and the components below
it by the contract that their header and their callers state:

- `kzalloc` returns null or zeroed memory that is not in use, perhaps at an
  address that was in use before; `kfree` is for what `kzalloc` returned;
- `task_next()` is `task_switch(task_get_next())` followed by `task_return`, the
  only reading under which its three callers (`idt_clock`, command 9, the
  exception handler) do what their comments say;
- in `ProcessLoad`, a path names a file or it does not; `FileTable` says which
  paths do.

## Inventory

| Component | Source | State | Operations | Interacts with | Hard behaviour |
|---|---|---|---|---|---|
| Task list | `task/task.c` | `task_head`, `task_tail`, `current_task`, `next`/`prev` in the tasks | `task_new`, `task_free`, `task_get_next`, `task_switch` | process table (loads, exits), timer | pointers into freed and reused memory, order of exits |
| Process table | `task/process.c` 14-59, 172-226, 464-577 | `processes[]`, `current_process` | load, load and switch, terminate | task list, keyboard | full table, last exit, failures half way |
| Process memory | `task/process.c` 46-140, 228-324, `isr80h/heap.c` | `allocations[]`, page directories, arguments | `process_malloc`, `process_free`, `process_inject_arguments`, terminate | heap, paging, commands 4, 5, 7, 8 | order of unjoin, unmap and free; limits; partial failure |
| Program loading | `task/process.c` 142-170, 327-577, `loader/format/elfloader.c` | process, stack, ELF file | `process_load_for_slot`, free of program data | heap, files, paging | error paths |
| Saved registers | `task/task.asm`, `task/task.c` 118-132, `idt/idt.asm` | `registers` of a task | save on entry, `task_return` | every handler | what a preempted program sees |
| Interrupts and commands | `idt/idt.c`, `idt/idt.asm`, `isr80h/*.c`, `programs/stdlib/mutitaskos.asm` | descriptor, callback and command tables | register, dispatch | everything | arguments of another call, numbers kept in two languages |
| Keyboard | `keyboard/*.c` | ring of 1024 characters per process, caps lock | push, pop, scan code translation | focus, running task | overrun, wrap-around, focus changes |
| Terminal | `kernel.c` 26-108 | row, column, video memory | putchar, backspace, print | commands 1 and 3 | edges of the screen, two programs on one screen |
| Kernel heap | `memory/heap/*.c` | block table | malloc, free | everything | runs of blocks, exhaustion |
| Paging | `memory/paging/*.c` | directories and tables | map, get, set | process memory, loader | alignment, sums that wrap around, pages of several segments |
| Files | `fs/file.c`, `fs/pparser.c`, `string/string.c` | descriptors, filesystems | parse, open, read, seek, stat, close | disk, FAT16, loader | limits of the table, paths at their limits, failures half way |
| FAT16 | `fs/fat/fat16.c` | directory items, cluster chains | resolve, open, read, seek | streamer | chains, offsets |
| Disk and streamer | `disk/*.c` | position | seek, read | FAT16 | sector boundaries |
| Boot, GDT, TSS, I/O ports | `boot/boot.asm`, `kernel.asm`, `gdt`, `task/tss.asm`, `io` | CPU tables | once at start | kernel_main | none that a model tells apart |
| User library and programs | `programs/**` | `strtok` state, line buffer | readline, parse, printf, system calls | commands 0-9 | a static pointer, edges of the buffer, output of two programs |

## Modules

| Module | What it is | Code |
|---|---|---|
| `RunQueue` | operators on queues of tasks | none, reference definitions |
| `TaskList` | `task_new`, `task_list_remove`, `task_get_next`, `task_switch` as operators on one record | `task/task.c` |
| `Scheduler` | state machine of the task list: boot, ticks, loads, failed loads, exits | `task/task.c`, `idt/idt.c`, `isr80h/process.c`, `kernel.c` |
| `RoundRobin` | abstract: the CPU goes round a queue | none, what the scheduler promises |
| `Kernel` | process table and keyboard focus on top of `Scheduler` | `task/process.c` |
| `KeyboardRing` | the ring of a process, as operators | `keyboard/keyboard.c` |
| `Keyboard` | scan codes, caps lock, command 2, on top of `Kernel` | `keyboard/*.c` |
| `KeyQueues` | abstract: a queue of keys per process | none, what the keyboard promises |
| `KernelHeap` | the contract of `kzalloc` and `kfree` | `memory/heap/kheap.c` |
| `ProcessMemory` | allocations, pages and arguments of programs | `task/process.c`, `isr80h/heap.c` |
| `PageTables` | directories and tables, as operators | `memory/paging/paging.c` |
| `Elf` | validation and the walk over the program headers | `loader/format/elf.h`, `elfloader.c` |
| `ProcessLoad` | the steps of a load and their failures, the pages of the program | `task/process.c`, `loader/format/elfloader.c` |
| `Interrupts` | descriptor, callback and command tables, and the numbers of the library | `idt/*`, `isr80h/isr80h.c`, `programs/stdlib/mutitaskos.asm` |
| `Context` | the registers of programs, and where interrupts and commands lead | `task/task.asm`, `idt/idt.asm`, `task/task.c` |
| `Heap` | the heap of this commit as it stands | `memory/heap/heap.c` |
| `DiskStream` | reads across sectors, as functions | `disk/*.c` |
| `KernelString` | comparison, digits and lengths | `string/string.c` |
| `PathParser` | a path and its parts | `fs/pparser.c` |
| `Fat16` | names, search, cluster chains and reads of a FAT16 disk, and the memory they take | `fs/fat/fat16.c` |
| `FileTable` | descriptors and the five calls on them, on top of `Fat16` | `fs/file.c` |
| `Terminal` | cursor and video memory, as operators | `kernel.c` |
| `UserString` | `strncpy`, `strtok` on arrays | `programs/stdlib/src/string.c` |
| `Stdio` | `itoa` and the pieces that `printf` puts out | `programs/stdlib/src/stdlib.c`, `stdio.c` |
| `Shell` | a program that reads, edits and splits lines while another one prints | `programs/shell`, `programs/stdlib/src/multitaskos.c` |
| `MC...` | small instances for TLC | |
| `KernelProofs` | what `task.c` does to a list that is a queue, and to one that no longer is; the refinement of `RoundRobin`; table and focus on top of them | |
| `KeyboardProofs` | rings with counters that wrap, on top of `KernelProofs` | |
| `ContextProofs` | registers through the layouts of C and assembly | |
| `KernelHeapProofs` | rounding, blocks, what `kzalloc` and `kfree` do to a heap | |
| `ProcessMemoryProofs` | tables and arguments of processes, on top of `KernelHeapProofs` | |
| `ProcessLoadProofs` | loading, page directories and the segments of files, on top of `KernelHeapProofs` | |
| `FileTableProofs` | the values of the recursive functions of path, disk and FAT16; the file descriptors | |
| `ShellProofs` | the line of `readline`, `strtok` and the words of a line, `itoa` and the pieces of `printf`, the screen | |

The layers of the file system and of loading are chains of EXTENDS:
`KernelString`, `PathParser` and `DiskStream` under `Fat16` under `FileTable`;
`KernelHeap`, `PageTables` and `Elf` under `ProcessLoad`. `Context` stands on
`Interrupts`, `Shell` on `Terminal`, `UserString` and `Stdio`.

`Scheduler` EXTENDS `TaskList`; `Kernel` EXTENDS `Scheduler`; `Keyboard` EXTENDS
`Kernel`: each layer conjoins its part of a handler to the part below, so that
one handler stays one step. `Scheduler` implements `RoundRobin` (`RR`) and
`Keyboard` implements `KeyQueues` (`KQ`) under refinement mappings that turn the
pointers into a queue and the rings into sequences; `Kernel` implements
`Scheduler` (`SchedulerSpec`), which is how the table's own decisions (when to
panic, when a program fits) are shown to be the ones that the scheduler assumes.

Definitions marked *Variant* are plausible mistakes in the definition that
follows them. No specification uses them; for each property `PROJECT.json` names
one that makes it fail.

### From code to state and actions

- **`Scheduler`.** `list` is `task_head`, `task_tail`, `current_task` and the
  `next` and `prev` fields *of every address*: a freed structure keeps its
  contents and stale pointers reach it. `live` is what the heap has given out.
  `queue`, `orphans` and `sound` are history: no action reads them. Tasks are
  loaded by `BootLoad` (kernel_main), `StartProgram` (commands 6 and 7, which run
  the program at once) and `StartFails` (command 7 whose arguments do not fit,
  and a load whose mapping fails after `task_new`). `Tick` is `idt_clock`. `Exit`
  is command 9 and every exception: `task_free`, then `task_next`, or the panic.
- **`Kernel`.** `processes`, `current_process` and `task->process`. Slots are
  found by `process_get_free_slot` (`FreeSlot`); `Unlink` is `process_unlink`
  with `process_switch_to_any`.
- **`Keyboard`.** `keyboard_push` (`Deliver`) writes the ring of
  `current_process`, `keyboard_pop` (`Getkey`) that of the running task. `head`
  and `tail` are ints that only grow; they are modelled as wrapping (`IntRange`),
  which is what the compiled increment does, and the cell is found with an
  unsigned `%`, because the size of the buffer is a `sizeof`.
- **`ProcessMemory`.** A handler is an operator on `[heap, table, page]` for one
  process. `FreeOne` keeps the order of the C function: entry cleared, then read.
- **`ProcessLoad`.** One action for each allocation, file operation or mapping of
  `process_load_for_slot` that can fail; `pc` is the place in it. `directory` maps
  each program's pages as `process_map_memory` does, header by header: every
  header is mapped, whatever its type, with the rights of its flags, and a later
  one overwrites what an earlier one said of a page. Sums wrap around
  (`PageTables!Word`). `CopyString` is `copy_string_from_task`, which maps a block
  of the kernel's heap in the program's directory for the length of a copy.
  `Malloc` is `process_malloc`, for a program or for an argument that is passed to
  it: the block is mapped to itself, writable, in the same directory. `FreeMemory`
  is `process_free`, which gives the block back and leaves it mapped.
  `allocations` is the array of that name; `granted` is history: the pages that
  `Malloc` has mapped for the program since it was loaded. Where the code
  dereferences null or reads a binary as an ELF file, `wild` names the place and
  the behaviour ends.
- **`Context`.** Registers in memory are sequences of words; two C layouts and
  three assembly routines index them. A value is tagged with its owner and age.
  What an interrupt or a command does is looked up in the tables of `Interrupts`;
  a call of the library pushes its arguments and puts the library's number in
  `eax`, other programs put there what they like (`Commands`). `served` is history:
  which function the last step's command ran, for whom, and the stack that it read
  its arguments from.
- **`Fat16`, `FileTable`.** A byte of the disk is represented by its position, so
  that "the right bytes" is "the right positions". The two factors multiplied in
  `fat16_get_fat_entry` lead outside the allocation table; what stands there is
  `junk`, any of a few words. Names are sequences of characters and are read out
  of their fields as `fat16_to_proper_string` does. `Fopen(path, mode, left)` runs
  with memory for `left` more allocations, so it can fail at any `kzalloc` on its
  way; `heap` is the set of the structures that open files have, and what a failed
  open leaves behind only takes from `left`, because nobody can reach it. Where the
  path parser or `file_new_descriptor` writes through null,
  `wild` is set and the behaviour ends.
- **`Terminal`, `Shell`.** The column is an unsigned 16-bit number and a column
  behind the width is a cell of a later row, as in the code. Every command of the
  kernel (a character, a key, an allocation) is a step, and `OtherPrints`, a
  `printf` of another program that also puts out piece by piece, may run between
  any two of them. `sp` is `strtok`'s static pointer, a place in the array
  `scommand` of `parse_command`'s frame, and `args` is the list that it builds.
  `keys`, `shown`, `refused`, `called` and `put` are history. The shell goes from
  `prompt` over `reading` and `echo`, key by key, to `entered`. `system_run` is
  commented out at this commit (`programs/shell/src/shell.c:17-19`). The model has
  both: the newline is printed at once (`EndOfLine`), as the shell does, or the line
  is run before it, in the place where the comment has it (`SystemRun`, one
  `NextArgument` for each word, `System`), up to its list of arguments.

## Runs

Passing runs explore all reachable states of their instance.

| Run | States | Properties and what they show |
|---|---|---|
| `scheduler` | 605 000 | `ListIsQueue`, `RunsATask`: while no task has been freed after its predecessor was, the pointers are the queue of live tasks and the CPU runs one of them. `TailIfHead`: `task_new` never writes through a null tail, also in a corrupted list. `RoundRobinSpec`: the abstract round robin is implemented. `NoStarvation`: once loads and exits have ended, every task runs again and again. |
| `kernel` | 94 000 | `TableIsLive`, `FocusIsLoaded`, `FocusMovesForAReason`, `SchedulerSpec`: table, tasks and focus agree through loads, failures and exits; the panic comes exactly at the last exit. |
| `keyboard` | 991 000 | `RingIsQueue`, `KeyQueuesSpec`: a process reads its own keys, in order, with none lost before its buffer is full, wherever focus and CPU go. |
| `process_memory` | 78 000 | `TablesAreHeap`: no block lost, shared or freed twice. `OwnIsWritable`: what `malloc` gave can be written. `ArgumentsComplete`: all arguments or none. |
| `process_load` | 296 000 | `PartsAreOwned`: loaded programs keep all parts and what `malloc` gave them, and share none of it, whatever failed before. `FilesAreClosed`: no path leaves a file open. `ProgramIsMapped`: each byte of a segment is at its address, with the right to write exactly if the last header that covers its page asks for it. `WritesStayHome`: what a program can write is its own file and stack, the blocks that `malloc` has ever given it, and what lies behind the file as far as a `p_memsz` asks for it. A block that it has freed is among them, and may be another program's by then: `free` does not unmap it, as the run `freed_pages` shows. `RangeCoversSegments`: the range that is kept of a file contains its segments, in whatever order they come. |
| `context` | 139 000 | `ResumesAsItWas`, `SavedAsItWas`: ten registers survive interrupts, commands, switches, starts and exits. `CallsArrive`: a call of the library runs the function of its name with the arguments of this call. |
| `files` | 17 700 | `ReadsFirstCluster`: reads in the first cluster are exact across sectors and members. `PathIsParsed`: the parts are the names between the slashes up to the first empty one. `OpenGivesTheFile`: a path leads to the file it names. `OpenFilesAreWhole`: open files keep all their structures and share none, whatever opens failed in between. `HandlesAreStable`: a handle is given to nobody else and stands for its file until it is closed. |
| `shell` | 4 934 000 | `LineIsEdited`: the buffer holds what was typed and not taken back, from an empty line (whose backspace is a character) to a full one. `ScreenShowsLine`: what stands in front of the cursor is the end of the line, also over the edge and with another program printing in between, until a backspace from the first column. `ArgumentsAreWords`: the arguments are the words of a line, cut to their size, for as long as memory lasts, and the first of them when it ends. `PrintfPrints`: what `printf` has put out is what its format stands for. |
| `freed_task` | | `ExecutesATask` fails, see below. |
| `freed_pages` | | `WritableIsOwn` fails. |
| `fat_chain` | | `ReadsTheFile` fails. |
| `heap_refuses` | | `NullMeansFull` fails. |

### Bounds

- `scheduler`: four addresses. A list needs a head, a tail and two inner tasks for
  every case of `task_list_remove`; four also let an address be used again while
  others live, and with two boot tasks the longest exit orders occur. The general
  result is proved.
- `kernel`: three slots and four addresses, so that the table, and not the heap,
  is what is full.
- `keyboard`: buffers of two characters and counters that wrap after four steps:
  a ring fills, wraps and overruns. `IntRange` is a multiple of `BufferSize`, as
  2^32 is of 1024. The constraint `OneOverrun` stops a behaviour at the overrun
  of a second process. The scan table has one code of each kind.
- `process_memory`: two programs, tables of two entries, a heap of four blocks,
  pages of four bytes, sizes of exactly one block and one byte more. Either of
  table and heap runs out first, also inside a list of arguments (`MaxArguments`).
- `process_load`: two slots, thirteen blocks (`Blocks`): memory runs out at every
  step of a load, with programs loaded and with blocks lost by loads before. A
  program has one entry for what `malloc` gives it (`MaxAllocations`) and asks for
  three bytes (`MallocSizes`), so that its table fills, it frees and asks
  again, and gets other blocks while what it freed goes to the other program; both
  constants are open in the proofs. Pages
  have four bytes and tables six entries, so that an address space has 144
  addresses and a sum can wrap. Of the four kinds of files one has its segments in
  descending order, one has two segments and a third header on one page and a
  `p_memsz` behind the file, one wraps around and one is refused.
- `context`: three programs, values of two ages (`MaxVersion`); the five `Vectors`
  are an exception that is handled and one that is not, the timer, the keyboard
  and one without a callback; `OtherCommands` are numbers below and behind the
  table and one inside it that nobody registered.
- `files`: sectors of four bytes, clusters of two, reads below, at and above both
  boundaries (`Lengths`); three descriptors of which, by `file_get_descriptor`,
  two can be used; `MaxPosition` bounds `SEEK_CUR`, which has no bound in the
  code. Sixteen kinds of paths, among them one of the greatest length (`MaxPath`)
  and one longer; names of one character and of a full field (`NameLength`);
  `Memory` ends in the path, in the item, in its clone, or nowhere. Three FAT16
  disks differ in the items that they have and in where a deleted one is (nowhere,
  in front, behind), and a fourth has another signature.
- `shell`: three columns, so that a line of four characters reaches over the edge
  and a backspace comes back to it; arguments one character shorter than the
  longest word; memory for three allocations, one fewer than the words of two
  lines can need; five keys, which fill a line with one taken back, or make two
  lines. The three calls of `printf` have the least int, a zero behind a doubled
  percent sign, and a string.

### Deadlock and fairness

`CHECK_DEADLOCK FALSE` is given where the system may stop: `panic` loops for ever
with interrupts off (`scheduler`, `kernel`, `keyboard`, `freed_task`), a
`"undefined"` or `wild` state has no defined successor (`context`, `process_load`,
`files`, `fat_chain`), programs whose memory is used up have nothing left to load,
in `Heap` only the first refusal matters, and in `shell` the keys of the instance
(`MaxKeys`) are used up.

The one fairness condition is `WF_vars(Tick)` in `FairSpec`. The timer raises
IRQ 0 again and again (at 100 Hz, says line 8 of the repository's README),
`task_return` sets IF for user mode and the handler acknowledges the interrupt,
so a running program is always interrupted again. Nothing is assumed of programs:
they may never exit or make a command.

## Where the code does not do what it says

Each of these is a run in which TLC finds the shortest behaviour.

- **Freed tasks stay in the ring** (`freed_task`, `task/task.c:78`).
  `task_list_remove` repairs `prev->next` and not `next->prev`. Of three tasks in
  a row, let the second exit and then the third: the third's `prev` still names
  the freed second, so `next = 0` is stored in freed memory, the first goes on
  pointing to the third, and `task_next` runs the third, which is freed. Until a
  task exits whose predecessor has exited, all is well: that is what `sound` says.
- **`free` unmaps nothing** (`freed_pages`, `task/process.c:317`). The entry is
  cleared before its address and size are read, so the range is empty and the
  page stays writable for the program that freed it.
- **Only the first cluster of a file is found** (`fat_chain`,
  `fs/fat/fat16.c:385`). The position of the table and that of the entry are
  multiplied. The disk of the repository has clusters of 64 KiB, which hides it.
- **The heap refuses everything** (`heap_refuses`, `memory/heap/heap.c:83`). The
  search skips free blocks and counts taken ones.

Other things are as they are in the models too, and no property contradicts them.

- *Tasks and interrupts.* `restore_general_purpose_registers` pops its caller's
  ebp over the one it has loaded and `task_return` pushes the kernel's flags, so a
  preempted program loses both (`task/task.asm:25`, `62`). Vector 0 goes to
  `idt_zero`, a C function that returns with `ret` (`idt/idt.c:96`). The limit
  given to `lidt` is the size of the descriptor and not of the table
  (`idt/idt.c:88`); the modules are about a kernel with the right limit.
- *Keyboard.* A ring that has been overrun can answer "no key" while keys are
  stored in it.
- *Memory.* The table of allocations answers "mine" to the null pointer, so that
  every exit calls `kfree(0)`. A load that fails gives back at most its task, and
  an exit does not give back the `struct process`, so memory shrinks with every
  program until loads fail. `task_new` frees a null pointer when it has no memory
  (`wild = "task_new"`).
- *Loading.* A program that is no ELF file keeps the file type of one, and
  `task_init` reads its bytes as a header (`wild = "task_init"`). Memory between
  `p_filesz` and `p_memsz` is not cleared, and behind the end of the file it is
  whatever lies there. Headers of every type are mapped, so that one which is no
  segment can take the right to write from a page. `elf_is_executable` is not
  called.
- *Files.* The 512th file handle is given out and refused. As many files as the
  root directory has deleted items are not found at its end. A name of eight
  characters, or an extension of three, is read on into the next field
  (`fs/fat/fat16.c:311`): `NAMEFULL.TXT` is only found as `NAMEFULLTXT.TXT`. An
  empty part ends a path: `0:/a//b` opens `a`. A directory is opened as a file,
  because its type is overwritten (`fs/fat/fat16.c:594`), which also loses the
  directory that was loaded, so that paths with two parts lead nowhere. Parsed
  paths are never freed, nor is the descriptor of an open that fails in FAT16; the
  path parser and `file_new_descriptor` write through null when memory ends.
  `fread` does not move the position. The sector behind the root directory is
  rounded down (`fs/fat/fat16.c:252`).
- *Terminal and library.* A backspace in the first column puts its blank at the
  end of the row before, comes back to its own row by that, and takes the column
  from 0 to 65535 (`kernel.c:51`). The row
  has no limit (`kernel.c:74`). `strtok` takes a new string only when its static
  pointer is null (`programs/stdlib/src/string.c:131`): after a parse that ran out
  of memory, the words that were left over are the next line's, even if that is
  empty. Arguments are never freed. A format that ends with a percent sign is read
  past its end (`programs/stdlib/src/stdio.c:27`).

## Proofs

The theorems hold for every value of the constants that the assumptions below
allow; the runs show the same properties on small instances.

| Module | Theorem | Statement |
|---|---|---|
| `KernelProofs` | `Typing`, `ListCorrect`, `CPUSafe` | `Spec => []TypeOK`, `[]ListIsQueue`, `[]RunsATask` |
| | `TailCorrect` | `Spec => []TailIfHead` |
| | `Refinement` | `Spec => RoundRobinSpec` |
| | `TableCorrect`, `FocusCorrect` | `KernelSpec => []TableIsLive`, `[]FocusIsLoaded` |
| | `FocusMoves` | `KernelSpec => FocusMovesForAReason` |
| | `KernelIsScheduler` | `KernelSpec => SchedulerSpec` |
| `KeyboardProofs` | `RingsCorrect` | `KeyboardSpec => []RingIsQueue` |
| | `KeyboardIsKernel` | `KeyboardSpec => KernelSpec` |
| | `QueuesImplemented` | `KeyboardSpec => KeyQueuesSpec` |
| `ContextProofs` | `ContextTyping`, `ResumeCorrect`, `SaveCorrect` | `Spec => []TypeOK`, `[]ResumesAsItWas`, `[]SavedAsItWas` |
| | `CallsCorrect` | `Spec => CallsArrive` |
| `ProcessMemoryProofs` | `MemoryTyping`, `TablesCorrect`, `WritableCorrect` | `Spec => []TypeOK`, `[]TablesAreHeap`, `[]OwnIsWritable` |
| | `ArgumentsCorrect` | `Spec => ArgumentsComplete` |
| `ProcessLoadProofs` | `LoadTyping`, `PartsCorrect`, `FilesCorrect` | `Spec => []TypeOK`, `[]PartsAreOwned`, `[]FilesAreClosed` |
| | `PagesCorrect`, `WritesCorrect` | `Spec => []ProgramIsMapped`, `[]WritesStayHome` |
| | `RangeCorrect` | `Spec => []RangeCoversSegments` |
| `FileTableProofs` | `FilesWhole`, `FirstClusterCorrect`, `PathCorrect` | `Spec => []OpenFilesAreWhole`, `[]ReadsFirstCluster`, `[]PathIsParsed` |
| | `FilesTyping`, `OpenCorrect` | `Spec => []TypeOK`, `Spec => OpenGivesTheFile` |
| | `HandlesStable` | `Spec => HandlesAreStable` |
| `ShellProofs` | `LineCorrect`, `ArgumentsCorrect` | `Spec => []LineIsEdited`, `[]ArgumentsAreWords` |
| | `PrintfCorrect` | `Spec => []PrintfPrints` |
| | `ScreenCorrect` | `Spec /\ [][terminal.row <= terminal'.row]_vars => []ScreenShowsLine` |
| | `ShellTyping` | `Spec => []TypeOK` |

The three layers are joined: `KeyboardIsKernel`, `KernelIsScheduler` and
`Refinement` say that a kernel with table and keyboard still goes round its tasks
as `RoundRobin` says, and that what is proved of a lower layer holds above it.

### Assumptions

Each is an `ASSUME` of the module that declares the constants, and TLC evaluates
it in the runs of that module.

| Assumption | What it says |
|---|---|
| `NullIsNoTask`, `BoundsAssumption`, `NoneIsNoSlot` | null is no address of a task and "none" no slot; one program at least is loaded at boot |
| `RingAssumption`, `ScanAssumption` | the buffer divides the range of the counters, as 1024 does 2^32; the scan table has as many entries as its size says |
| `ContextAssumption` | vectors and commands are numbers; which, is left open |
| `HeapAssumption`, `PagingAssumption`, `LoadAssumption` | pages, tables and stacks are not empty, no file is (`kzalloc(0)` has no contract); fields of a program header are addresses; the stack ends at a page, and it and the heap end before the address space does, as 0x003FF000 and the heap of 100 MB from 0x01000000 on do in 2^32; neither lies in the other's pages; sizes asked of `malloc` are not zero |
| `ScreenAssumption` | the cells of the screen can be counted with 16 bits, as 80 times 20 can |
| `ShellAssumption` | arrays have room for an end; the numbers that are printed are ints; zero is no letter, since `getkeyblock` waits while a key is 0 (`programs/stdlib/src/multitaskos.c:51-60`); no format ends with a percent sign (see below) |
| `SectorAssumption`, `HeaderAssumption` | sizes in the boot sector are not zero |
| `PathAssumption`, `TableAssumption` | limits are numbers; paths are texts, of any length |
| `DiskAssumption` | items in use have fields of the length of the structure's and a first cluster, whose chain begins with it; the root directory fills its sectors, as the one of `boot/boot.asm:13,17` does |

### Invariants and why they are needed

**Scheduler.** `RunsATask` alone is not inductive: to see that `task_next` ends
at an allocated task one must know where `next` leads, hence `ListIsQueue`; and
that is kept by an exit only if the `prev` that `task_list_remove` follows is
right. It is wrong for the tasks whose predecessor has left, so `Represents`
leaves those out (`orphans`), and `sound` records whether one of them has been
removed. `IInv` is `TypeOK`, `ListIsQueue`, `RunsATask` and what holds in the boot
phase. `TypeOK` contains that the queue has no duplicates, without which a
position in it means nothing. Lemmas first say what the queue operators return
(`RemoveAtValue`, `WithoutValue`, `BehindValue`...), then what each C function
does to a list that represents a queue (`NewRepresents`, `RemoveRepresents`,
`NextIsTurn`, `RemoveCurrent`), then that each action keeps `IInv`. The refinement
maps a load to `Load` or `LoadAndRun`, a failed load to a stutter (the task just
appended is removed again, `WithoutLast`), a tick to `Slice`, an exit to `Leave`
and everything after the loss of soundness to `Lost`.

`TailIfHead` must hold of the lists that `sound` gives up, too. `TailInv` says
what such a list still is. Either it is whole: its pointers are a queue `p` of
tasks, perhaps another one than the history's. Or only a first part `p` is still
right: its `prev` pointers name its tasks in order, those of the other tasks lead
neither into `p` nor to null, and `task_tail` is one of the others. Then an exit
in `p` cuts `p` off there, and an exit behind it moves `task_tail`, if at all, to
a `prev` that is not null, so that the tail stays behind `p` for good. All this
is about the addresses that the pointers can still reach (`e`), as those of freed
tasks keep what they had.

**Kernel.** `KInv` adds to `IInv` the two properties and `SlotsAreTheirs`:
`task->process` leads back to the slot. `TableIsLive` alone would allow two slots
with one task, of which an exit clears only one. `BootFocus` is what the jump to
the first task needs. That the table says "full" exactly when the scheduler's
bound is reached, and panics exactly at the last exit, is a count of used
slots and live tasks (`FreeSlotMeansRoom`, `NothingLeftIsLast`).

**Keyboard.** `KbInv` is `KInv`, the types, and `RingIsQueue` extended to free
slots (`RingsAreWhole`). The work is in the arithmetic: two counters that wrap
at `IntRange`, whose difference counts the keys and whose remainders name the
cells. Lemmas on remainders show that a wrap moves no cell, which is where
`IntRange % BufferSize = 0` is used.

**Context.** A program may lose ebp and the flags while it runs, so "the registers
are as expected" is not inductive as it stands. `CInv` says what those two may be
(`MayBe`: the program's or the kernel's), on the CPU (`HoldsCpu`) and in the task
(`HoldsSaved`).

**Process memory.** `MemoryOK` is about one process against the addresses of all
others: its entries are null or name a block of the heap of the size they say,
no two the same, with pages that are writable; heap and entries cover each other.
`MInv` is this for each process, that no two share an address, that no address is
nobody's and that a slot that is not loaded has an empty table. Each handler is
shown to keep `MemoryOK` and to leave the others' blocks alone (`Keeps`), which is
what makes the invariant of the other processes follow. An order matters here:
`free` clears an entry before it reads it, so no page is taken back, and
`OwnIsWritable` holds because a later `malloc` maps the pages again.

**Program loading.** `LInv` says, for each place in `process_load_for_slot`, what
has been allocated already and what is still null (`Progress`, `ElfLocals`), that
a program in the table is complete and there once, and that everything held, by
programs, by the load and by its local variables, is allocated and held once
(`Sound`). The local variables must be among the holders: between the `kzalloc`
and the assignment a block is nobody's else, and the next allocation must differ
from it. `Kept` says the same of what `malloc` gave: it is allocated, held in no role
of a process, and one program's.

`ProgramIsMapped` and `WritesStayHome` speak of what a directory leads to, which
was decided when `map_memory` wrote it, from the file and from the addresses the
process had then. The invariant `MInv` keeps that connection: the directory of a
loaded program is the one that `map_memory` makes of its file, its memory and its
stack, apart from the one page that `copy_string_from_task` has mapped over and is
about to restore, and apart from the pages that `process_malloc` has mapped to
themselves (`granted`), which are blocks of the heap and therefore neither in a
linked segment nor in the stack (`Granted`, `NotTheHeap`); and memory and stack
have as many blocks as their sizes need. What such a directory is, is then a
matter of operators only: `paging_map_to` over a range (`MapRangeIs`), the pages
of one header, and, by the least header at which it would fail, the pages of all
of them. `ProgramIsMapped` says of any program where its stack is, and of a linked
one (`IsLinked`) where its segments are: the place of a byte in its page is the same
in the file and in memory, no segment lies on the stack (0x003FB000 to 0x003FF000) or
on the heap (from 0x01000000 on), and headers that share a page agree about what is
there. `programs/*/linker.ld` make files of this kind, at 0x400000; the instance
also has files that are none and loads them. `WritesStayHome` needs less: that
the headers do not reach out of the file.

**Files.** `FInv` is `DiskIsRight` (boot does not leave a disk without its
items), `TableIsRight` (an open descriptor names an item of the directory) and
`HeapIsRight`: the four structures of a descriptor differ, are allocated, and are
no other descriptor's. The code tests the result of only some of its allocations
(`fat16_clone_directory_item` may give null): that a descriptor never has a null
structure follows from the order, as no memory for the clone means none for the
descriptor after it. `TInv` adds that the heap holds four structures for each open
entry and nothing else, so that it never outgrows the table however many opens
fail half way (`HeapIsFull`), and that an open item is not a deleted one. The last
needs that no path spells the mark of deleted items (`PathsAreNames`): the
search runs over the deleted items, too, and would open one by that mark.
That `fopen` gives the file that was named (`FopenOpensNamed`, `FopenFinds`)
depends on how a name is read out of the fields of an item (`NameIsRead`: exactly,
if a blank ends it), on a path without a second slash being its only part
(`OnePart`), and on a search that has memory for every match never losing the last
one (`MatchIsFound`).

**Shell.** `LineInv` relates the array of `readline` and its index to the keys, at
each place of its loop: what is in front of the index is what the keys leave, with
the key just read counted or not. That the line fits and ends in the array
needs the case in which the index goes back by two from 0. `ParseInv` adds the
static pointer of `strtok`: between two lines it is null until an allocation has
been refused; while a line is parsed it stands at a border between words, the arguments are
the words up to there (`Reached`), and the array has the rest of the line
unchanged, while the zeros that `strtok` has written lie in front of it.

`PrintInv` says what `printf` has put out at each place of its format: the pieces
of the part that it has read, and of its arguments the ones that are left. That a
number comes back from its digits is a fact about `itoa` alone, whose division
goes towards zero from below, so that it also holds of the least int. `PlaceInv`
and `ScreenInv` are about the screen: the cursor's fields have 16 bits, behind the
cursor all is blank, and the `shown` characters in front of it are the last ones
of the array, also while a key waits for its echo. They hold under the condition
`terminal.row <= terminal'.row`, that is until 65536 rows have been filled.
`EndInv` keeps the last zero of `strtok`'s array, without which its pointer could
leave it.

The file system computes with recursive functions (`DiskstreamerRead`,
`ReadInternal`, `Fat16Read`, `FindItem`, `PathParts`), and so do the loops over
page tables, program headers, keys, words, digits and formats (`PageTables`, `Elf`,
`Edited`, `Words`, `Stdio`). That a recursive function
exists and what it returns is shown without induction over an operator: of the
arguments at which it would fail there is a least one (`LeastElement`, from
`WellFoundedInduction`), and one unfolding there is a contradiction. So
`StreamRead` and `ReadInternalIs` hold for reads over any number of sectors,
`FindItemIs` for directories and `PathPartsIs` for paths of any length,
`MapMemoryIs` for any number of headers, and `LinesExist` and `WordsExist` for any
number of keys.

### Model-checked only

- `NoStarvation`: liveness.
- The four violations.
- What the screen shows after 65536 rows, when the row begins again at 0, is neither
  checked nor claimed: `ScreenCorrect` is for behaviours up to there.

## What the models assume and leave out

- `KernelHeap`, `Scheduler` and `FileTable` use the heap by its promise, not as it
  is at this commit (`Heap`). What is shown above it holds once
  `heap_get_start_block` does what its name says.
- `FileTable` assumes that `fs_static_load` inserts the FAT16 file system, as the
  line that is commented out would. With none inserted every open is refused.
- `task_next` has no body in the repository; see above.
- In the modules of the kernel a program is "any command, any exception, any key,
  at any time". `Shell` is the one module with a program of its own; the other
  program there only prints.

Not modelled:

- boot code, GDT, TSS and ports: they run once, before anything is concurrent, and
  their effects are on the CPU;
- the ports of the disk controller and the waiting for it, which never gives up;
- `fat16_resolve`'s failures at boot, after which there is no disk, and the
  insertion of file systems, which is commented out;
- `keyboard_backspace`, which nothing calls, and the list of keyboards, which has
  one entry; `pathparser_free`, `elf_is_executable` and the section headers, which
  nothing calls or reads;
- the memory libraries of kernel and programs (the models use their results),
  colours, the start code of programs, and the program `blank`, which prints its
  name for ever;
- `paging_switch`, of which only the result is used: which directory a program
  runs on.

## Plan

Done, in this order: task list and scheduler with their proofs; process table;
keyboard; process memory; program loading; registers; heap; files; interrupt and
command tables; paging structures and ELF segments under the loader; path parser
and the failures of an open; terminal, user library and shell.

Then the proofs: the scheduler and its refinement; the table, the focus and the
keyboard on top of it; the registers; the memory and the loading of processes;
the files; the lists that are no longer queues; page directories and segments;
the line and the words of the shell, what `printf` puts out and what the screen shows.

What is left: nothing above the assumptions of "What the models assume"; a `task_next`
with a body, a heap that finds free blocks and file systems that are inserted would
allow to join the components that are now on their own.
