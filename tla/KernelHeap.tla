---------------------------- MODULE KernelHeap ----------------------------
(***************************************************************************)
(* What the rest of the kernel relies on when it calls kzalloc and kfree   *)
(* (src/memory/heap/kheap.c): a request of at least one byte gets whole    *)
(* blocks that nobody has, the lowest ones that fit, or null.  This is an  *)
(* assumption of the modules that use it and not a model of the heap of    *)
(* this commit, which is in module Heap.                                   *)
(*                                                                         *)
(* A heap is a function from the addresses that were handed out and not    *)
(* freed to their numbers of blocks.  Address 0 is the null pointer.       *)
(***************************************************************************)
EXTENDS Integers, FiniteSetsExt, Functions

CONSTANTS
  PageSize,   \* bytes of a heap block and of a page, 4096
  Blocks      \* how many blocks the heap has

ASSUME HeapAssumption == PageSize \in Nat \ {0} /\ Blocks \in Nat

\* The block at address a is block a \div PageSize; block 0 is never in the heap.
Page == 0 .. Blocks
Block == 1 .. Blocks
AddressOf(b) == b * PageSize

EmptyHeap == [a \in {} |-> 0]

\* paging_align_address, which rounds up as heap_align_value_to_upper does.
\* Variant: rounds down.
AlignAddress_Down(a) == a - (a % PageSize)

AlignAddress(a) == IF a % PageSize = 0 THEN a ELSE a + PageSize - (a % PageSize)

\* The pages from address a up to address b.
Pages(a, b) == a \div PageSize .. b \div PageSize - 1

\* The blocks of the allocation at address a.
BlocksAt(heap, a) == a \div PageSize .. a \div PageSize + heap[a] - 1

Taken(heap) == UNION {BlocksAt(heap, a) : a \in DOMAIN heap}

NeededBlocks(size) == (size + PageSize - 1) \div PageSize

\* The first blocks of the runs of n blocks that are not taken.
Runs(heap, n) == {b \in Block : b .. b + n - 1 \subseteq Block \ Taken(heap)}

\* What kzalloc returns ...
\* Variant: the run may go on behind the end of the heap.
Kzalloc_BeyondEnd(heap, size) ==
  LET n == NeededBlocks(size)
      runs == {b \in Block : (b .. b + n - 1) \cap Taken(heap) = {}}
  IN  IF runs = {} THEN 0 ELSE AddressOf(Min(runs))

Kzalloc(heap, size) ==
  LET runs == Runs(heap, NeededBlocks(size))
  IN  IF runs = {} THEN 0 ELSE AddressOf(Min(runs))

\* ... and the heap afterwards; the heap after kfree.
Allocated(heap, a, size) == [x \in DOMAIN heap \cup {a} |->
                               IF x = a THEN NeededBlocks(size) ELSE heap[x]]
Freed(heap, a) == Restrict(heap, DOMAIN heap \ {a})

\* The heap after a kfree of each address in a set.
FreedAll(heap, set) == Restrict(heap, DOMAIN heap \ set)
=============================================================================
