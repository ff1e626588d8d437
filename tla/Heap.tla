------------------------------- MODULE Heap -------------------------------
(***************************************************************************)
(* The kernel heap of this commit (src/memory/heap/heap.c, kheap.c): the   *)
(* table of blocks, the search for a run of blocks and the marking, with   *)
(* the tests as they stand in the code.                                    *)
(***************************************************************************)
EXTENDS Integers, FiniteSetsExt

CONSTANTS
  total,       \* table->total
  BlockSize,   \* MULTITASK_OS_KERNELSHELL_HEAP_BLOCK_SIZE, 4096
  saddr,       \* heap->saddr
  Requests     \* sizes in bytes that are asked for

Block == 0 .. total - 1
NULL == 0
ENOMEM == 3

VARIABLES
  entries,   \* table->entries: the type and the two flags of every block
  answer     \* what the last kmalloc returned, and for how many blocks

vars == <<entries, answer>>

FREE == [taken |-> FALSE, first |-> FALSE, next |-> FALSE]

\* heap_create.
Init ==
  /\ entries = [b \in Block |-> FREE]
  /\ answer = [ptr |-> saddr, blocks |-> 0, before |-> entries]

-----------------------------------------------------------------------------
\* heap_align_value_to_upper and the division in heap_malloc.
TotalBlocks(size) ==
  (IF size % BlockSize = 0 THEN size ELSE size - (size % BlockSize) + BlockSize) \div BlockSize

\* heap_get_start_block counts the blocks that are not free.  Without a run
\* that is long enough it returns the start of the run at the end of the table.
Counted(b) == entries[b].taken
Run(b, n) == b + n <= total /\ \A c \in b .. b + n - 1 : Counted(c)
StartBlock(n) ==
  LET long == {b \in Block : n > 0 /\ Run(b, n)}
      last == {b \in Block : Run(b, total - b)}
  IN  IF long # {} THEN Min(long) ELSE IF last # {} THEN Min(last) ELSE - ENOMEM

BlockToAddress(b) == saddr + b * BlockSize

\* heap_mark_blocks_taken: the first entry has a next one if the last block is
\* not 0 or 1, and only the last one has a next one besides.
MarkTaken(start, n) ==
  LET end == start + n - 1
  IN  [b \in Block |->
         IF b \notin start .. end THEN entries[b]
         ELSE [taken |-> TRUE, first |-> b = start,
               next |-> IF b = start THEN end > 1 ELSE b = end]]

\* heap_mark_blocks_free: up to the first entry without a next one.
MarkFree(start) ==
  LET stops == {b \in Block : b >= start /\ ~entries[b].next}
      stop == IF stops = {} THEN total - 1 ELSE Min(stops)
  IN  [b \in Block |-> IF b \in start .. stop THEN FREE ELSE entries[b]]

Kmalloc(size) ==
  LET n == TotalBlocks(size)
      start == StartBlock(n)
  IN  IF start < 0
        THEN /\ answer' = [ptr |-> NULL, blocks |-> n, before |-> entries]
             /\ UNCHANGED entries
        ELSE /\ answer' = [ptr |-> BlockToAddress(start), blocks |-> n, before |-> entries]
             /\ entries' = MarkTaken(start, n)

\* kfree of an address that kmalloc returned.
Kfree ==
  /\ \E b \in Block : /\ entries[b].first
                      /\ entries' = MarkFree(b)
  /\ UNCHANGED answer

Next == Kfree \/ \E size \in Requests : Kmalloc(size)

Spec == Init /\ [][Next]_vars

-----------------------------------------------------------------------------
\* "done here for running out of memory" (process.c:518), which is not what a
\* null pointer means: that kmalloc refuses a request only when no run of free
\* blocks is long enough.
NullMeansFull ==
  answer.ptr = NULL =>
    ~ \E b \in Block : /\ b + answer.blocks <= total
                       /\ \A c \in b .. b + answer.blocks - 1 : answer.before[c] = FREE
=============================================================================
