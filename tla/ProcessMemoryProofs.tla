------------------------ MODULE ProcessMemoryProofs ------------------------
(***************************************************************************)
(* Proofs about ProcessMemory, for any processes, sizes of the table and   *)
(* of the heap, and sizes that programs ask for: the tables of allocations *)
(* and the heap say the same, and a program can write to what it got.      *)
(***************************************************************************)
EXTENDS ProcessMemory, KernelHeapProofs, FiniteSetTheorems

(***************************************************************************)
(* The handlers work on the memory m of one process, so the invariant is   *)
(* stated for that: "others" are the addresses in the heap that the other  *)
(* processes have, which a handler must leave as they are.                 *)
(***************************************************************************)

Entry == [ptr : Nat, size : Nat]
Pointed(table) == {table[i].ptr : i \in Index} \ {0}

\* An entry in use is an allocation of its size, on pages that can be written to.
EntryOK(m, i) ==
  LET ptr == m.table[i].ptr
  IN  /\ ptr = 0 => m.table[i] = NoEntry
      /\ ptr # 0 => /\ ptr \in DOMAIN m.heap /\ m.table[i].size # 0
                    /\ m.heap[ptr] = NeededBlocks(m.table[i].size)
                    /\ \A b \in BlocksAt(m.heap, ptr) : m.page[b] = "writable"

MemoryOK(m, others) ==
  /\ HeapOK(m.heap) /\ m.table \in [Index -> Entry] /\ m.page \in [Page -> Flags]
  /\ \A i \in Index : EntryOK(m, i)
  /\ \A i, j \in Index : m.table[i].ptr = m.table[j].ptr /\ m.table[i].ptr # 0 => i = j
  /\ DOMAIN m.heap = others \cup Pointed(m.table)
  /\ others \cap Pointed(m.table) = {}

\* What is not this process's stays.
Keeps(m, n, others) == \A a \in others : n.heap[a] = m.heap[a]

-----------------------------------------------------------------------------
(* One handler, one process. *)

LEMMA HeapAddress ==
  ASSUME NEW h, HeapOK(h), NEW a \in DOMAIN h
  PROVE  a \in BlockAddress /\ a \in Nat /\ a # 0
BY BlockAddresses DEF HeapOK

\* The first free index, if there is one.
LEMMA FirstIndex ==
  ASSUME NEW table, NEW ptr, IndexesOf(table, ptr) # {}
  PROVE  /\ Min(IndexesOf(table, ptr)) \in Index
         /\ table[Min(IndexesOf(table, ptr))].ptr = ptr
<1>1. IndexesOf(table, ptr) \in SUBSET Nat
  BY MemoryAssumption DEF IndexesOf, Index
<1>2. Min(IndexesOf(table, ptr)) \in IndexesOf(table, ptr)
  BY <1>1, MinValue
<1> QED  BY <1>2 DEF IndexesOf

\* What process_malloc does when it succeeds, and that it does nothing otherwise.
LEMMA MallocIs ==
  ASSUME NEW m, NEW others, MemoryOK(m, others), NEW size
  PROVE  \/ Malloc(m, size) = [m |-> m, ptr |-> 0]
         \/ \E i \in Index : \E ptr :
              /\ ptr = Kzalloc(m.heap, size) /\ ptr # 0 /\ m.table[i].ptr = 0
              /\ Malloc(m, size) = [m |-> Store(m, ptr, size, i), ptr |-> ptr]
<1>0. PICK ptr, free : ptr = Kzalloc(m.heap, size) /\ free = IndexesOf(m.table, 0)
  OBVIOUS
<1>1. CASE ptr = 0 \/ free = {}
  BY <1>0, <1>1 DEF Malloc
<1>2. CASE ptr # 0 /\ free # {}
  <2>1. Min(free) \in Index /\ m.table[Min(free)].ptr = 0
    BY <1>0, <1>2, FirstIndex
  <2>2. Malloc(m, size) = [m |-> Store(m, ptr, size, Min(free)), ptr |-> ptr]
    BY <1>0, <1>2 DEF Malloc
  <2> QED  BY <1>0, <1>2, <2>1, <2>2
<1> QED  BY <1>1, <1>2

LEMMA StoreIs ==
  ASSUME NEW m, NEW ptr, NEW size, NEW i
  PROVE  LET n == Store(m, ptr, size, i)
         IN  /\ n.heap = Allocated(m.heap, ptr, size)
             /\ n.table = [m.table EXCEPT ![i] = [ptr |-> ptr, size |-> size]]
             /\ n.page = MapTo(m.page, ptr, AlignAddress(ptr + size), "writable")
BY DEF Store

\* process_malloc keeps the memory sound.
LEMMA StoreOK ==
  ASSUME NEW m, NEW others, MemoryOK(m, others), NEW size \in Nat \ {0},
         NEW i \in Index, m.table[i].ptr = 0, NEW ptr, ptr = Kzalloc(m.heap, size), ptr # 0
  PROVE  LET n == Store(m, ptr, size, i)
         IN  /\ MemoryOK(n, others) /\ Keeps(m, n, others)
             /\ n.table = [m.table EXCEPT ![i] = [ptr |-> ptr, size |-> size]]
             /\ ptr \notin Pointed(m.table) /\ ptr \in Nat
<1>0. PICK n, blocks : /\ n = Store(m, ptr, size, i)
                       /\ blocks = ptr \div PageSize .. ptr \div PageSize + NeededBlocks(size) - 1
  OBVIOUS
<1>1. /\ n.table = [m.table EXCEPT ![i] = [ptr |-> ptr, size |-> size]]
      /\ n.page = MapTo(m.page, ptr, AlignAddress(ptr + size), "writable")
      /\ n.heap = Allocated(m.heap, ptr, size)
  BY <1>0, StoreIs DEF MemoryOK
<1>2. /\ ptr \in BlockAddress /\ ptr \notin DOMAIN m.heap
      /\ HeapOK(n.heap) /\ DOMAIN n.heap = DOMAIN m.heap \cup {ptr}
      /\ n.heap[ptr] = NeededBlocks(size)
      /\ \A x \in DOMAIN m.heap : n.heap[x] = m.heap[x]
  <2>1. PICK h : h = m.heap /\ HeapOK(h)
    BY DEF MemoryOK
  <2>2. Kzalloc(h, size) # 0 /\ n.heap = Allocated(h, Kzalloc(h, size), size)
    BY <1>1, <2>1
  <2>3. /\ Kzalloc(h, size) \in BlockAddress /\ Kzalloc(h, size) \notin DOMAIN h
        /\ HeapOK(n.heap) /\ DOMAIN n.heap = DOMAIN h \cup {Kzalloc(h, size)}
        /\ n.heap[Kzalloc(h, size)] = NeededBlocks(size)
        /\ \A x \in DOMAIN h : n.heap[x] = h[x]
    BY <2>1, <2>2, KzallocGives
  <2> QED  BY <2>1, <2>3
<1>3. BlocksAt(n.heap, ptr) = blocks
  BY <1>0, <1>2 DEF BlocksAt
<1>4. n.page = [b \in Page |-> IF b \in blocks THEN "writable" ELSE m.page[b]]
  <2>1. Pages(ptr, AlignAddress(ptr + size)) = blocks
    BY <1>0, <1>2, AllocationPages
  <2> QED  BY <1>1, <2>1 DEF MapTo
<1>5. ptr \in Nat /\ n.table \in [Index -> Entry] /\ n.page \in [Page -> Flags]
  <2>1. ptr \in Nat /\ size \in Nat
    BY <1>2, BlockAddresses
  <2> QED  BY <1>1, <1>4, <2>1 DEF MemoryOK, Entry, Flags
<1>6. n.table[i] = [ptr |-> ptr, size |-> size] /\ \A j \in Index \ {i} : n.table[j] = m.table[j]
  BY <1>1 DEF MemoryOK
<1>7. Pointed(n.table) = Pointed(m.table) \cup {ptr} /\ ptr \notin Pointed(m.table)
  <2>1. ptr \notin Pointed(m.table)
    BY <1>2 DEF MemoryOK
  <2> QED  BY <1>6, <2>1 DEF Pointed
<1>8. \A a \in DOMAIN m.heap : BlocksAt(n.heap, a) = BlocksAt(m.heap, a)
  BY <1>2 DEF BlocksAt
<1>9. BlocksAt(n.heap, ptr) \subseteq Page
  <2>1. BlocksAt(n.heap, ptr) \subseteq Block
    BY <1>2 DEF HeapOK
  <2> QED  BY <2>1 DEF Block, Page
<1>10. ASSUME NEW j \in Index PROVE EntryOK(n, j)
  <2>1. CASE j = i
    BY <1>2, <1>3, <1>4, <1>6, <1>9, <2>1 DEF EntryOK
  <2>2. CASE j # i
    <3>1. n.table[j] = m.table[j] /\ EntryOK(m, j)
      BY <1>6, <2>2 DEF MemoryOK
    <3>2. CASE m.table[j].ptr = 0
      BY <3>1, <3>2 DEF EntryOK
    <3>3. CASE m.table[j].ptr # 0
      <4>0. PICK p : p = m.table[j].ptr
        OBVIOUS
      <4>1. p \in DOMAIN m.heap /\ n.heap[p] = m.heap[p] /\ BlocksAt(n.heap, p) = BlocksAt(m.heap, p)
        BY <1>2, <1>8, <3>1, <3>3, <4>0 DEF EntryOK
      <4>2. BlocksAt(m.heap, p) \subseteq Page
        BY <4>1 DEF MemoryOK, HeapOK, Block, Page
      <4>3. \A b \in BlocksAt(n.heap, p) : n.page[b] = "writable"
        BY <1>4, <3>1, <3>3, <4>0, <4>1, <4>2 DEF EntryOK
      <4> QED  BY <1>2, <3>1, <3>3, <4>0, <4>1, <4>3 DEF EntryOK
    <3> QED  BY <3>2, <3>3
  <2> QED  BY <2>1, <2>2
<1>11. \A j, k \in Index : n.table[j].ptr = n.table[k].ptr /\ n.table[j].ptr # 0 => j = k
  <2>1. \A j \in Index : m.table[j].ptr # ptr
    BY <1>7 DEF Pointed
  <2> QED  BY <1>6, <2>1 DEF MemoryOK
<1>12. DOMAIN n.heap = others \cup Pointed(n.table) /\ others \cap Pointed(n.table) = {}
  BY <1>2, <1>7 DEF MemoryOK
<1>13. Keeps(m, n, others)
  BY <1>2 DEF Keeps, MemoryOK
<1> QED
  BY <1>0, <1>2, <1>1, <1>5, <1>7, <1>10, <1>11, <1>12, <1>13 DEF MemoryOK

LEMMA MallocOK ==
  ASSUME NEW m, NEW others, MemoryOK(m, others), NEW size \in Nat \ {0}
  PROVE  LET n == Malloc(m, size).m
         IN  MemoryOK(n, others) /\ Keeps(m, n, others)
<1>0. PICK n : n = Malloc(m, size).m
  OBVIOUS
<1>1. CASE Malloc(m, size) = [m |-> m, ptr |-> 0]
  BY <1>1 DEF Keeps
<1>2. CASE ~ (Malloc(m, size) = [m |-> m, ptr |-> 0])
  <2>1. PICK i \in Index : \E ptr :
          /\ ptr = Kzalloc(m.heap, size) /\ ptr # 0 /\ m.table[i].ptr = 0
          /\ Malloc(m, size) = [m |-> Store(m, ptr, size, i), ptr |-> ptr]
    BY <1>2, MallocIs
  <2>2. PICK ptr :
          /\ ptr = Kzalloc(m.heap, size) /\ ptr # 0 /\ m.table[i].ptr = 0
          /\ Malloc(m, size) = [m |-> Store(m, ptr, size, i), ptr |-> ptr]
    BY <2>1
  <2>3. n = Store(m, ptr, size, i)
    BY <1>0, <2>2
  <2>4. MemoryOK(n, others) /\ Keeps(m, n, others)
    BY <2>2, <2>3, StoreOK
  <2> QED  BY <1>0, <2>4
<1> QED  BY <1>1, <1>2

\* process_free clears the entries with that pointer and frees it, and leaves
\* every page as it is.
LEMMA FreeOK ==
  ASSUME NEW m, NEW others, MemoryOK(m, others), NEW ptr
  PROVE  LET n == FreeOne(m, ptr)
         IN  /\ MemoryOK(n, others) /\ Keeps(m, n, others)
             /\ \A i \in Index :
                  n.table[i] = IF m.table[i].ptr = ptr THEN NoEntry ELSE m.table[i]
<1>0. PICK n, found : n = FreeOne(m, ptr) /\ found = IndexesOf(m.table, ptr)
  OBVIOUS
<1>1. CASE found = {}
  <2>1. n = m
    BY <1>0, <1>1 DEF FreeOne
  <2>2. \A i \in Index : m.table[i].ptr # ptr
    BY <1>0, <1>1 DEF IndexesOf
  <2> QED  BY <1>0, <2>1, <2>2 DEF Keeps
<1>2. CASE found # {}
  <2>0. PICK table : table = [i \in Index |-> IF i \in found THEN NoEntry ELSE m.table[i]]
    OBVIOUS
  <2>1. Min(found) \in Index /\ Min(found) \in found /\ m.table[Min(found)].ptr = ptr
    BY <1>0, <1>2, FirstIndex DEF IndexesOf
  <2>2. table[Min(found)] = NoEntry /\ NoEntry.ptr = 0 /\ NoEntry.size = 0 /\ NoEntry \in Entry
    BY <2>0, <2>1 DEF NoEntry, Entry
  <2>3. n = [heap  |-> Freed(m.heap, ptr), table |-> table,
             page |-> MapTo(m.page, table[Min(found)].ptr,
                            AlignAddress(table[Min(found)].ptr + table[Min(found)].size), "none")]
    BY <1>0, <1>2, <2>0 DEF FreeOne
  <2>4. n.heap = Freed(m.heap, ptr) /\ n.table = table /\ n.page = m.page
    <3>1. n.page = MapTo(m.page, 0, AlignAddress(0 + 0), "none")
      BY <2>2, <2>3
    <3>2. n.page = [b \in Page |-> m.page[b]]
      BY <3>1, NoPages DEF MapTo
    <3>3. n.page = m.page
      BY <3>2 DEF MemoryOK
    <3> QED  BY <2>3, <3>3
  <2>5. \A i \in Index : n.table[i] = IF m.table[i].ptr = ptr THEN NoEntry ELSE m.table[i]
    BY <1>0, <2>0, <2>4 DEF IndexesOf
  <2>6. /\ HeapOK(n.heap) /\ DOMAIN n.heap = DOMAIN m.heap \ {ptr}
        /\ \A a \in DOMAIN m.heap \ {ptr} : n.heap[a] = m.heap[a]
    <3>1. PICK h : h = m.heap
      OBVIOUS
    <3>2. HeapOK(h)
      BY <3>1 DEF MemoryOK
    <3>3. /\ HeapOK(Freed(h, ptr)) /\ DOMAIN Freed(h, ptr) = DOMAIN h \ {ptr}
          /\ \A x \in DOMAIN h \ {ptr} : Freed(h, ptr)[x] = h[x]
      BY <3>2, FreedOK
    <3> QED  BY <2>4, <3>1, <3>3
  <2>7. n.table \in [Index -> Entry]
    BY <2>0, <2>2, <2>4 DEF MemoryOK
  <2>8. Pointed(n.table) = Pointed(m.table) \ {ptr}
    BY <2>2, <2>5 DEF Pointed
  <2>9. ptr \notin others
    <3>1. CASE ptr = 0
      <4>1. 0 \notin DOMAIN m.heap
        BY HeapAddress DEF MemoryOK
      <4> QED  BY <3>1, <4>1 DEF MemoryOK
    <3>2. CASE ptr # 0
      BY <2>1, <3>2 DEF MemoryOK, Pointed
    <3> QED  BY <3>1, <3>2
  <2>10. ASSUME NEW i \in Index PROVE EntryOK(n, i)
    <3>1. CASE m.table[i].ptr = ptr
      BY <2>2, <2>5, <3>1 DEF EntryOK
    <3>2. CASE m.table[i].ptr # ptr
      <4>1. n.table[i] = m.table[i] /\ EntryOK(m, i)
        BY <2>5, <3>2 DEF MemoryOK
      <4>2. CASE m.table[i].ptr = 0
        BY <4>1, <4>2 DEF EntryOK
      <4>3. CASE m.table[i].ptr # 0
        <5>0. PICK p : p = m.table[i].ptr
          OBVIOUS
        <5>1. /\ p \in DOMAIN n.heap /\ n.heap[p] = m.heap[p]
              /\ BlocksAt(n.heap, p) = BlocksAt(m.heap, p)
          BY <2>6, <3>2, <4>1, <4>3, <5>0 DEF EntryOK, BlocksAt
        <5> QED  BY <2>4, <4>1, <4>3, <5>0, <5>1 DEF EntryOK
      <4> QED  BY <4>2, <4>3
    <3> QED  BY <3>1, <3>2
  <2>11. \A i, j \in Index : n.table[i].ptr = n.table[j].ptr /\ n.table[i].ptr # 0 => i = j
    BY <2>2, <2>5 DEF MemoryOK
  <2>12. DOMAIN n.heap = others \cup Pointed(n.table) /\ others \cap Pointed(n.table) = {}
    BY <2>6, <2>8, <2>9 DEF MemoryOK
  <2>13. Keeps(m, n, others) /\ n.page \in [Page -> Flags]
    BY <2>4, <2>6, <2>9 DEF Keeps, MemoryOK
  <2> QED
    BY <1>0, <2>5, <2>6, <2>7, <2>10, <2>11, <2>12, <2>13 DEF MemoryOK
<1> QED  BY <1>1, <1>2

\* The recursion of process_terminate_allocations: there is a function that it
\* defines.
LEMMA FreeEachIs ==
  ASSUME NEW m
  PROVE  /\ FreeEach(m)[0] = m
         /\ \A n \in 1 .. MaxAllocations :
              FreeEach(m)[n] = FreeOne(FreeEach(m)[n - 1], FreeEach(m)[n - 1].table[n].ptr)
<1> DEFINE Step(g, n) ==
             IF n = 0 THEN m
             ELSE LET before == g[n - 1] IN FreeOne(before, before.table[n].ptr)
           bad == {k \in Nat : ~ \E g : g = [n \in 0 .. k |-> Step(g, n)]}
<1>1. \A g, h, n : n # 0 /\ g[n - 1] = h[n - 1] => Step(g, n) = Step(h, n)
  OBVIOUS
<1>2. \A g : Step(g, 0) = m
  OBVIOUS
<1>3. \A g, n : n # 0 => Step(g, n) = FreeOne(g[n - 1], g[n - 1].table[n].ptr)
  OBVIOUS
<1>4. FreeEach(m) = CHOOSE g : g = [n \in 0 .. MaxAllocations |-> Step(g, n)]
  BY DEF FreeEach
<1> HIDE DEF Step
<1>5. bad = {}
  <2> SUFFICES ASSUME bad # {} PROVE FALSE
    OBVIOUS
  <2>1. PICK k \in bad : \A y \in bad : k <= y
    BY LeastElement
  <2>2. k \in Nat /\ ~ \E g : g = [n \in 0 .. k |-> Step(g, n)]
    BY <2>1
  <2>3. k # 0
    <3> SUFFICES ASSUME k = 0 PROVE FALSE
      OBVIOUS
    <3> DEFINE g == [n \in 0 .. 0 |-> m]
    <3>1. g = [n \in 0 .. 0 |-> Step(g, n)]
      BY <1>2
    <3> QED  BY <2>2, <3>1
  <2>4. k - 1 \in Nat /\ k - 1 \notin bad
    BY <2>1, <2>2, <2>3
  <2>5. PICK g : g = [n \in 0 .. k - 1 |-> Step(g, n)]
    BY <2>4
  <2> DEFINE h == [n \in 0 .. k |-> IF n = k THEN Step(g, k) ELSE g[n]]
  <2>6. \A n \in 0 .. k - 1 : h[n] = g[n]
    BY <2>2, <2>3
  <2>7. \A n \in 0 .. k : Step(h, n) = Step(g, n)
    BY <1>1, <1>2, <2>2, <2>6
  <2>8. h = [n \in 0 .. k |-> Step(h, n)]
    <3>1. \A n \in 0 .. k : h[n] = Step(g, n)
      BY <2>2, <2>5
    <3> QED  BY <2>7, <3>1
  <2> QED  BY <2>2, <2>8
<1>6. FreeEach(m) = [n \in 0 .. MaxAllocations |-> Step(FreeEach(m), n)]
  <2>1. MaxAllocations \in Nat
    BY MemoryAssumption
  <2>2. \E g : g = [n \in 0 .. MaxAllocations |-> Step(g, n)]
    BY <1>5, <2>1
  <2> QED  BY <1>4, <2>2
<1>7. \A n \in 0 .. MaxAllocations : FreeEach(m)[n] = Step(FreeEach(m), n)
  BY <1>6, Zenon
<1> QED  BY <1>2, <1>3, <1>7, MemoryAssumption

\* process_terminate frees all that the process has, and nothing else.
LEMMA FreeAllOK ==
  ASSUME NEW m, NEW others, MemoryOK(m, others)
  PROVE  /\ HeapOK(FreeAll(m).heap) /\ DOMAIN FreeAll(m).heap = others
         /\ Keeps(m, FreeAll(m), others)
<1> DEFINE f == FreeEach(m)
           Done(n) == /\ MemoryOK(f[n], others) /\ Keeps(m, f[n], others)
                      /\ \A i \in 1 .. n : f[n].table[i] = NoEntry
           bad == {n \in 0 .. MaxAllocations : ~ Done(n)}
<1>1. /\ f[0] = m
      /\ \A n \in 1 .. MaxAllocations : f[n] = FreeOne(f[n - 1], f[n - 1].table[n].ptr)
  BY FreeEachIs
<1>2. MaxAllocations \in Nat /\ Index = 1 .. MaxAllocations
  BY MemoryAssumption DEF Index
<1> HIDE DEF f
<1>3. Done(0)
  BY <1>1 DEF Keeps
<1>4. ASSUME NEW n \in 1 .. MaxAllocations, Done(n - 1)
      PROVE  Done(n)
  <2>0. PICK before, ptr : before = f[n - 1] /\ ptr = before.table[n].ptr
    OBVIOUS
  <2>1. f[n] = FreeOne(before, ptr) /\ MemoryOK(before, others) /\ Keeps(m, before, others)
        /\ \A i \in 1 .. n - 1 : before.table[i] = NoEntry
    BY <1>1, <1>4, <2>0
  <2>2. /\ MemoryOK(f[n], others) /\ Keeps(before, f[n], others)
        /\ \A i \in Index :
             f[n].table[i] = IF before.table[i].ptr = ptr THEN NoEntry ELSE before.table[i]
    BY <2>1, FreeOK
  <2>3. \A i \in 1 .. n : i \in Index /\ (i = n \/ i \in 1 .. n - 1)
    BY <1>2
  <2>4. \A i \in 1 .. n : f[n].table[i] = NoEntry
    BY <2>0, <2>1, <2>2, <2>3
  <2> QED  BY <2>1, <2>2, <2>4 DEF Keeps
<1> HIDE DEF Done
<1>5. bad = {}
  <2> SUFFICES ASSUME bad # {} PROVE FALSE
    OBVIOUS
  <2>0. bad \in SUBSET Nat
    BY <1>2
  <2>1. PICK n \in bad : \A y \in bad : n <= y
    BY <2>0, LeastElement
  <2>2. n \in 0 .. MaxAllocations /\ ~ Done(n) /\ n # 0
    BY <1>3, <2>1
  <2>3. Done(n - 1)
    <3>1. n - 1 \in 0 .. MaxAllocations /\ ~ (n <= n - 1)
      BY <1>2, <2>2
    <3>2. n - 1 \notin bad
      BY <2>1, <3>1
    <3> QED  BY <3>1, <3>2
  <2> QED  BY <1>2, <1>4, <2>2, <2>3
<1>6. Done(MaxAllocations)
  BY <1>2, <1>5
<1>7. PICK n : n = FreeAll(m) /\ n = f[MaxAllocations]
  BY DEF FreeAll, f
<1>8. /\ MemoryOK(n, others) /\ Keeps(m, n, others)
      /\ \A i \in Index : n.table[i] = NoEntry
  BY <1>2, <1>6, <1>7 DEF Done
<1>9. Pointed(n.table) = {}
  BY <1>8 DEF Pointed, NoEntry
<1> QED  BY <1>7, <1>8, <1>9 DEF MemoryOK

LEMMA StringEachIs ==
  ASSUME NEW array, NEW argc \in Nat
  PROVE  /\ StringEach(array, argc)[0] = array
         /\ \A n \in 1 .. argc :
              StringEach(array, argc)[n] =
                IF StringEach(array, argc)[n - 1].ptr = 0 THEN StringEach(array, argc)[n - 1]
                ELSE Malloc(StringEach(array, argc)[n - 1].m, ArgumentSize)
<1> DEFINE Step(g, n) ==
             IF n = 0 THEN array
             ELSE LET last == g[n - 1]
                  IN  IF last.ptr = 0 THEN last ELSE Malloc(last.m, ArgumentSize)
           bad == {k \in Nat : ~ \E g : g = [n \in 0 .. k |-> Step(g, n)]}
<1>1. \A g, h, n : n # 0 /\ g[n - 1] = h[n - 1] => Step(g, n) = Step(h, n)
  OBVIOUS
<1>2. \A g : Step(g, 0) = array
  OBVIOUS
<1>3. \A g, n : n # 0 => Step(g, n) = IF g[n - 1].ptr = 0 THEN g[n - 1]
                                      ELSE Malloc(g[n - 1].m, ArgumentSize)
  OBVIOUS
<1>4. StringEach(array, argc) = CHOOSE g : g = [n \in 0 .. argc |-> Step(g, n)]
  BY DEF StringEach
<1> HIDE DEF Step
<1>5. bad = {}
  <2> SUFFICES ASSUME bad # {} PROVE FALSE
    OBVIOUS
  <2>1. PICK k \in bad : \A y \in bad : k <= y
    BY LeastElement
  <2>2. k \in Nat /\ ~ \E g : g = [n \in 0 .. k |-> Step(g, n)]
    BY <2>1
  <2>3. k # 0
    <3> SUFFICES ASSUME k = 0 PROVE FALSE
      OBVIOUS
    <3> DEFINE g == [n \in 0 .. 0 |-> array]
    <3>1. g = [n \in 0 .. 0 |-> Step(g, n)]
      BY <1>2
    <3> QED  BY <2>2, <3>1
  <2>4. k - 1 \in Nat /\ k - 1 \notin bad
    BY <2>1, <2>2, <2>3
  <2>5. PICK g : g = [n \in 0 .. k - 1 |-> Step(g, n)]
    BY <2>4
  <2> DEFINE h == [n \in 0 .. k |-> IF n = k THEN Step(g, k) ELSE g[n]]
  <2>6. \A n \in 0 .. k - 1 : h[n] = g[n]
    BY <2>2, <2>3
  <2>7. \A n \in 0 .. k : Step(h, n) = Step(g, n)
    BY <1>1, <1>2, <2>2, <2>6
  <2>8. h = [n \in 0 .. k |-> Step(h, n)]
    <3>1. \A n \in 0 .. k : h[n] = Step(g, n)
      BY <2>2, <2>5
    <3> QED  BY <2>7, <3>1
  <2> QED  BY <2>2, <2>8
<1>6. StringEach(array, argc) = [n \in 0 .. argc |-> Step(StringEach(array, argc), n)]
  <2>1. \E g : g = [n \in 0 .. argc |-> Step(g, n)]
    BY <1>5
  <2> QED  BY <1>4, <2>1
<1>7. \A n \in 0 .. argc : StringEach(array, argc)[n] = Step(StringEach(array, argc), n)
  BY <1>6, Zenon
<1> QED  BY <1>2, <1>3, <1>7

\* What process_malloc has got when it returns an address.
LEMMA MallocGets ==
  ASSUME NEW m, NEW others, MemoryOK(m, others), NEW size \in Nat \ {0},
         Malloc(m, size).ptr # 0
  PROVE  \E i \in Index :
           /\ m.table[i] = NoEntry
           /\ Malloc(m, size).m.table =
                [m.table EXCEPT ![i] = [ptr |-> Malloc(m, size).ptr, size |-> size]]
           /\ Malloc(m, size).ptr \notin Pointed(m.table) /\ Malloc(m, size).ptr \in Nat
<1>1. PICK i \in Index : \E ptr :
        /\ ptr = Kzalloc(m.heap, size) /\ ptr # 0 /\ m.table[i].ptr = 0
        /\ Malloc(m, size) = [m |-> Store(m, ptr, size, i), ptr |-> ptr]
  <2>1. Malloc(m, size) # [m |-> m, ptr |-> 0]
    OBVIOUS
  <2> QED  BY <2>1, MallocIs
<1>2. PICK ptr :
        /\ ptr = Kzalloc(m.heap, size) /\ ptr # 0 /\ m.table[i].ptr = 0
        /\ Malloc(m, size) = [m |-> Store(m, ptr, size, i), ptr |-> ptr]
  BY <1>1
<1>3. m.table[i] = NoEntry
  BY <1>2 DEF MemoryOK, EntryOK
<1>4. /\ Store(m, ptr, size, i).table = [m.table EXCEPT ![i] = [ptr |-> ptr, size |-> size]]
      /\ ptr \notin Pointed(m.table) /\ ptr \in Nat
  BY <1>2, StoreOK
<1> QED  BY <1>2, <1>3, <1>4

-----------------------------------------------------------------------------
(* The arguments. *)

\* The entries of the strings, if the array is at argv.
StringsIn(table, argv) == {i \in Index : table[i].ptr # argv /\ table[i].size = ArgumentSize}

Finds(table, argv, size, n) ==
  /\ argv # 0
  /\ \E i \in Index : table[i].ptr = argv /\ table[i].size = size
  /\ Cardinality(StringsIn(table, argv)) = n

LEMMA StringsFinite ==
  ASSUME NEW table, NEW argv
  PROVE  IsFiniteSet(StringsIn(table, argv))
<1>1. IsFiniteSet(Index)
  BY FS_Interval, MemoryAssumption DEF Index
<1> QED  BY <1>1, FS_Subset DEF StringsIn

\* The array.
LEMMA ArrayFound ==
  ASSUME NEW m, NEW others, MemoryOK(m, others), NEW size \in Nat \ {0},
         Malloc(m, size).ptr # 0, \A i \in Index : m.table[i] = NoEntry
  PROVE  Finds(Malloc(m, size).m.table, Malloc(m, size).ptr, size, 0)
<1>0. PICK table, argv : table = Malloc(m, size).m.table /\ argv = Malloc(m, size).ptr
  OBVIOUS
<1>1. PICK i \in Index : table = [m.table EXCEPT ![i] = [ptr |-> argv, size |-> size]]
  BY <1>0, MallocGets
<1>2. /\ table[i] = [ptr |-> argv, size |-> size]
      /\ \A j \in Index \ {i} : table[j] = NoEntry
  BY <1>1 DEF MemoryOK
<1>3. StringsIn(table, argv) = {}
  <2>1. \A j \in Index : table[j].ptr = argv \/ table[j].size # ArgumentSize
    BY <1>2, MemoryAssumption DEF NoEntry
  <2> QED  BY <2>1 DEF StringsIn
<1> QED  BY <1>0, <1>2, <1>3, FS_EmptySet DEF Finds

\* One more string.
LEMMA StringFound ==
  ASSUME NEW m, NEW others, MemoryOK(m, others), NEW argv, NEW size, NEW n \in Nat,
         Finds(m.table, argv, size, n), Malloc(m, ArgumentSize).ptr # 0
  PROVE  Finds(Malloc(m, ArgumentSize).m.table, argv, size, n + 1)
<1>0. PICK table, ptr : /\ table = Malloc(m, ArgumentSize).m.table
                        /\ ptr = Malloc(m, ArgumentSize).ptr
  OBVIOUS
<1>1. PICK i \in Index :
        /\ m.table[i] = NoEntry /\ table = [m.table EXCEPT ![i] = [ptr |-> ptr, size |-> ArgumentSize]]
        /\ ptr \notin Pointed(m.table)
  BY <1>0, MallocGets, MemoryAssumption
<1>2. /\ table[i] = [ptr |-> ptr, size |-> ArgumentSize]
      /\ \A j \in Index \ {i} : table[j] = m.table[j]
  BY <1>1 DEF MemoryOK
<1>3. PICK a \in Index : m.table[a].ptr = argv /\ m.table[a].size = size
  BY DEF Finds
<1>4. argv # 0 /\ argv \in Pointed(m.table) /\ ptr # argv /\ a # i
  BY <1>1, <1>3 DEF Finds, Pointed, NoEntry
<1>5. i \notin StringsIn(m.table, argv)
  BY <1>1, MemoryAssumption DEF StringsIn, NoEntry
<1>6. StringsIn(table, argv) = StringsIn(m.table, argv) \cup {i}
  BY <1>2, <1>4 DEF StringsIn
<1>7. Cardinality(StringsIn(table, argv)) = n + 1
  BY <1>5, <1>6, StringsFinite, FS_AddElement DEF Finds
<1> QED  BY <1>0, <1>2, <1>3, <1>4, <1>7 DEF Finds

\* process_inject_arguments: all of the arguments or none.
LEMMA InjectOK ==
  ASSUME NEW m, NEW others, MemoryOK(m, others), NEW argc \in Nat \ {0},
         \A i \in Index : m.table[i] = NoEntry
  PROVE  LET r == Inject(m, argc)
         IN  /\ MemoryOK(r.m, others) /\ Keeps(m, r.m, others)
             /\ \/ r.arguments = NoArguments
                \/ \E argv \in Nat :
                     /\ r.arguments = [argc |-> argc, argv |-> argv]
                     /\ Finds(r.m.table, argv, PointerSize * argc, argc)
<1>0. PICK size, array, f : /\ size = PointerSize * argc /\ array = Malloc(m, size)
                            /\ f = StringEach(array, argc)
  OBVIOUS
<1>1. size \in Nat \ {0} /\ argc \in Nat /\ ArgumentSize \in Nat \ {0}
  BY <1>0, MemoryAssumption
<1>2. /\ f[0] = array
      /\ \A n \in 1 .. argc :
           f[n] = IF f[n - 1].ptr = 0 THEN f[n - 1] ELSE Malloc(f[n - 1].m, ArgumentSize)
  BY <1>0, <1>1, StringEachIs
<1> DEFINE Good(n) == /\ MemoryOK(f[n].m, others) /\ Keeps(m, f[n].m, others)
                      /\ f[n].ptr # 0 => Finds(f[n].m.table, array.ptr, size, n)
           bad == {n \in 0 .. argc : ~ Good(n)}
<1>3. Good(0)
  BY <1>0, <1>1, <1>2, MallocOK, ArrayFound
<1>4. ASSUME NEW n \in 1 .. argc, Good(n - 1)
      PROVE  Good(n)
  <2>0. PICK k, last : k = n - 1 /\ last = f[k]
    OBVIOUS
  <2>1. /\ k \in Nat /\ n = k + 1
        /\ f[n] = IF last.ptr = 0 THEN last ELSE Malloc(last.m, ArgumentSize)
        /\ MemoryOK(last.m, others) /\ Keeps(m, last.m, others)
        /\ last.ptr # 0 => Finds(last.m.table, array.ptr, size, k)
    BY <1>2, <1>4, <2>0
  <2>2. CASE last.ptr = 0
    BY <2>1, <2>2
  <2>3. CASE last.ptr # 0
    <3>1. /\ MemoryOK(f[n].m, others) /\ Keeps(last.m, f[n].m, others)
          /\ f[n] = Malloc(last.m, ArgumentSize)
      BY <1>1, <2>1, <2>3, MallocOK
    <3>2. f[n].ptr # 0 => Finds(f[n].m.table, array.ptr, size, n)
      BY <2>1, <2>3, <3>1, StringFound
    <3> QED  BY <2>1, <3>1, <3>2 DEF Keeps
  <2> QED  BY <2>2, <2>3
<1> HIDE DEF Good
<1>5. bad = {}
  <2> SUFFICES ASSUME bad # {} PROVE FALSE
    OBVIOUS
  <2>0. bad \in SUBSET Nat
    BY <1>1
  <2>1. PICK n \in bad : \A y \in bad : n <= y
    BY <2>0, LeastElement
  <2>2. n \in 0 .. argc /\ ~ Good(n) /\ n # 0
    BY <1>3, <2>1
  <2>3. Good(n - 1)
    <3>1. n - 1 \in 0 .. argc /\ ~ (n <= n - 1)
      BY <1>1, <2>2
    <3>2. n - 1 \notin bad
      BY <2>1, <3>1
    <3> QED  BY <3>1, <3>2
  <2> QED  BY <1>1, <1>4, <2>2, <2>3
<1>6. Good(argc)
  BY <1>1, <1>5
<1>7. PICK all : all = f[argc] /\ all = Strings(array, argc)
  BY <1>0 DEF Strings
<1>8. /\ MemoryOK(all.m, others) /\ Keeps(m, all.m, others)
      /\ all.ptr # 0 => Finds(all.m.table, array.ptr, size, argc)
  BY <1>6, <1>7 DEF Good
<1>9. Inject(m, argc) = [m |-> all.m,
                         arguments |-> IF all.ptr = 0 THEN NoArguments
                                       ELSE [argc |-> argc, argv |-> array.ptr]]
  BY <1>0, <1>7 DEF Inject
<1>10. all.ptr # 0 => array.ptr \in Nat
  BY <1>0, <1>1, <1>8, MallocGets DEF Finds
<1> QED  BY <1>0, <1>8, <1>9, <1>10

-----------------------------------------------------------------------------
(* All processes. *)

Has(p) == Pointed(allocations[p])
OthersOf(p) == DOMAIN heap \ Has(p)
ArgumentsType == [argc : 0 .. MaxArguments, argv : Nat]

\* The memory of each process is sound, no address belongs to two of them and
\* none to nobody, and a process that is not in the process table has nothing.
MInv ==
  /\ loaded \subseteq Process /\ HeapOK(heap)
  /\ allocations \in [Process -> [Index -> Entry]] /\ page \in [Process -> [Page -> Flags]]
  /\ arguments \in [Process -> ArgumentsType]
  /\ \A p \in Process : MemoryOK(Memory(p), OthersOf(p))
  /\ \A p, q \in Process : p # q => Has(p) \cap Has(q) = {}
  /\ \A a \in DOMAIN heap : \E p \in Process : a \in Has(p)
  /\ \A p \in Process \ loaded : \A i \in Index : allocations[p][i] = NoEntry

LEMMA MemoryIs ==
  ASSUME NEW p
  PROVE  Memory(p).heap = heap /\ Memory(p).table = allocations[p] /\ Memory(p).page = page[p]
BY DEF Memory

LEMMA MemoryNext ==
  ASSUME NEW p
  PROVE  /\ Memory(p)'.heap = heap' /\ Memory(p)'.table = allocations'[p]
         /\ Memory(p)'.page = page'[p] /\ Has(p)' = Pointed(allocations'[p])
         /\ OthersOf(p)' = DOMAIN heap' \ Pointed(allocations'[p])
BY DEF Memory, Has, OthersOf

\* A handler that keeps the memory of p sound and leaves the others' alone.
LEMMA BecomesOK ==
  ASSUME MInv, NEW p \in Process, NEW n, MemoryOK(n, OthersOf(p)),
         Keeps(Memory(p), n, OthersOf(p)), Becomes(p, n),
         loaded' \subseteq Process, arguments' \in [Process -> ArgumentsType],
         \A q \in Process \ loaded' : q = p \/ q \notin loaded,
         p \in loaded' \/ \A i \in Index : n.table[i] = NoEntry
  PROVE  MInv'
<1>0. PICK others, h : others = OthersOf(p) /\ h = n.heap
  OBVIOUS
<1>1. /\ heap' = h
      /\ allocations' \in [Process -> [Index -> Entry]] /\ page' \in [Process -> [Page -> Flags]]
      /\ allocations'[p] = n.table /\ page'[p] = n.page
      /\ \A q \in Process \ {p} : allocations'[q] = allocations[q] /\ page'[q] = page[q]
  BY <1>0 DEF MInv, Becomes, MemoryOK
<1>2. /\ HeapOK(h) /\ DOMAIN h = others \cup Pointed(n.table)
      /\ others \cap Pointed(n.table) = {}
  BY <1>0 DEF MemoryOK
<1>3. \A a \in others : a \in DOMAIN heap /\ h[a] = heap[a] /\ BlocksAt(h, a) = BlocksAt(heap, a)
  BY <1>0, MemoryIs DEF Keeps, OthersOf, BlocksAt
<1>4. \A q \in Process \ {p} : Has(q) \subseteq others
  <2> SUFFICES ASSUME NEW q \in Process \ {p} PROVE Has(q) \subseteq others
    OBVIOUS
  <2>1. MemoryOK(Memory(q), OthersOf(q)) /\ Has(p) \cap Has(q) = {}
    BY DEF MInv
  <2>2. Has(q) \subseteq DOMAIN heap
    BY <2>1, MemoryIs DEF MemoryOK, Has
  <2> QED  BY <1>0, <2>1, <2>2 DEF OthersOf
<1>5. /\ Has(p)' = Pointed(n.table)
      /\ \A q \in Process \ {p} : Has(q)' = Has(q)
  BY <1>1, MemoryNext DEF Has
<1>6. MemoryOK(Memory(p)', OthersOf(p)')
  <2>1. OthersOf(p)' = others
    BY <1>1, <1>2, MemoryNext
  <2>2. Memory(p)'.heap = n.heap /\ Memory(p)'.table = n.table /\ Memory(p)'.page = n.page
    BY <1>0, <1>1, MemoryNext
  <2> QED  BY <1>0, <2>1, <2>2 DEF MemoryOK, EntryOK
<1>7. ASSUME NEW q \in Process \ {p}
      PROVE  MemoryOK(Memory(q)', OthersOf(q)')
  <2>0. PICK m, k : m = Memory(q) /\ k = Memory(q)'
    OBVIOUS
  <2>1. /\ k.heap = h /\ k.table = m.table /\ k.page = m.page
        /\ m.heap = heap /\ m.table = allocations[q]
    BY <1>1, <2>0, MemoryIs, MemoryNext
  <2>2. MemoryOK(m, OthersOf(q)) /\ Pointed(m.table) \subseteq others
    BY <1>4, <2>0, <2>1 DEF MInv, Has
  <2>3. ASSUME NEW i \in Index PROVE EntryOK(k, i)
    <3>1. EntryOK(m, i)
      BY <2>2 DEF MemoryOK
    <3>2. CASE m.table[i].ptr = 0
      BY <2>1, <3>1, <3>2 DEF EntryOK
    <3>3. CASE m.table[i].ptr # 0
      <4>0. PICK a : a = m.table[i].ptr
        OBVIOUS
      <4>1. a \in others
        BY <2>2, <3>3, <4>0 DEF Pointed
      <4>2. a \in DOMAIN h /\ h[a] = heap[a] /\ BlocksAt(h, a) = BlocksAt(heap, a)
        BY <1>2, <1>3, <4>1
      <4> QED  BY <2>1, <3>1, <3>3, <4>0, <4>2 DEF EntryOK
    <3> QED  BY <3>2, <3>3
  <2>4. OthersOf(q)' = DOMAIN h \ Pointed(m.table)
    BY <1>1, <2>1, MemoryNext
  <2>5. Pointed(m.table) \subseteq DOMAIN h
    BY <1>2, <2>2
  <2> QED
    BY <1>2, <2>0, <2>1, <2>2, <2>3, <2>4, <2>5 DEF MemoryOK
<1>8. \A q, r \in Process : q # r => Has(q)' \cap Has(r)' = {}
  BY <1>2, <1>4, <1>5 DEF MInv
<1>9. \A a \in DOMAIN h : \E q \in Process : a \in Has(q)'
  <2> SUFFICES ASSUME NEW a \in DOMAIN h, a \notin Has(p)'
               PROVE  \E q \in Process : a \in Has(q)'
    OBVIOUS
  <2>1. a \in DOMAIN heap /\ a \notin Has(p)
    BY <1>0, <1>2, <1>5 DEF OthersOf
  <2>2. PICK q \in Process : a \in Has(q)
    BY <2>1 DEF MInv
  <2> QED  BY <1>5, <2>1, <2>2
<1>10. \A q \in Process \ loaded' : \A i \in Index : allocations'[q][i] = NoEntry
  BY <1>1 DEF MInv
<1>11. \A q \in Process : MemoryOK(Memory(q)', OthersOf(q)')
  BY <1>6, <1>7
<1> QED
  BY <1>1, <1>2, <1>8, <1>9, <1>10, <1>11 DEF MInv, MemoryOK, EntryOK

LEMMA InitMemory == Init => MInv
<1> SUFFICES ASSUME Init PROVE MInv
  OBVIOUS
<1>1. /\ loaded = {} /\ heap = EmptyHeap
      /\ allocations = [p \in Process |-> NewTable] /\ page = [p \in Process |-> NewDirectory]
      /\ arguments = [p \in Process |-> NoArguments]
  BY DEF Init
<1>2. HeapOK(heap) /\ DOMAIN heap = {}
  BY <1>1, EmptyHeapOK
<1>3. /\ NewTable \in [Index -> Entry] /\ \A i \in Index : NewTable[i] = NoEntry
      /\ NewDirectory \in [Page -> Flags] /\ NoArguments \in ArgumentsType
  BY MemoryAssumption DEF NewTable, NoEntry, Entry, NewDirectory, Flags, NoArguments, ArgumentsType
<1>4. \A p \in Process : Has(p) = {}
  BY <1>1, <1>3 DEF Has, Pointed, NoEntry
<1>5. ASSUME NEW p \in Process PROVE MemoryOK(Memory(p), OthersOf(p))
  <2>1. /\ Memory(p).heap = heap /\ Memory(p).table = NewTable /\ Memory(p).page = NewDirectory
        /\ Pointed(NewTable) = {} /\ OthersOf(p) = {}
    BY <1>1, <1>2, <1>4, MemoryIs DEF Has, OthersOf
  <2> QED  BY <1>2, <1>3, <2>1 DEF MemoryOK, EntryOK, NoEntry
<1> QED  BY <1>1, <1>2, <1>3, <1>4, <1>5 DEF MInv

LEMMA LoadMemory == MInv /\ (\E p \in Process : Load(p)) => MInv'
<1> SUFFICES ASSUME MInv, NEW p \in Process, Load(p) PROVE MInv'
  OBVIOUS
<1>1. /\ loaded' = loaded \cup {p} /\ heap' = heap /\ allocations' = allocations /\ page' = page
      /\ arguments' = arguments
  BY DEF Load
<1>2. \A q \in Process : Memory(q)' = Memory(q) /\ OthersOf(q)' = OthersOf(q) /\ Has(q)' = Has(q)
  BY <1>1 DEF Memory, OthersOf, Has
<1> QED  BY <1>1, <1>2 DEF MInv, MemoryOK, EntryOK

LEMMA MallocMemory ==
  MInv /\ (\E p \in Process : \E size \in Sizes : UserMalloc(p, size)) => MInv'
<1> SUFFICES ASSUME MInv, NEW p \in Process, NEW size \in Sizes, UserMalloc(p, size) PROVE MInv'
  OBVIOUS
<1>0. PICK n : n = Malloc(Memory(p), size).m
  OBVIOUS
<1>1. Becomes(p, n) /\ p \in loaded /\ loaded' = loaded /\ arguments' = arguments
  BY <1>0 DEF UserMalloc
<1>2. size \in Nat \ {0} /\ MemoryOK(Memory(p), OthersOf(p))
  BY MemoryAssumption DEF MInv
<1>3. MemoryOK(n, OthersOf(p)) /\ Keeps(Memory(p), n, OthersOf(p))
  BY <1>0, <1>2, MallocOK
<1>4. loaded \subseteq Process /\ arguments \in [Process -> ArgumentsType]
  BY DEF MInv
<1> QED  BY <1>1, <1>3, <1>4, BecomesOK

LEMMA FreeMemory ==
  MInv /\ (\E p \in Process : \E ptr \in Pointers : UserFree(p, ptr)) => MInv'
<1> SUFFICES ASSUME MInv, NEW p \in Process, NEW ptr \in Pointers, UserFree(p, ptr) PROVE MInv'
  OBVIOUS
<1>0. PICK n : n = FreeOne(Memory(p), ptr)
  OBVIOUS
<1>1. Becomes(p, n) /\ p \in loaded /\ loaded' = loaded /\ arguments' = arguments
  BY <1>0 DEF UserFree
<1>2. MemoryOK(Memory(p), OthersOf(p))
  BY DEF MInv
<1>3. MemoryOK(n, OthersOf(p)) /\ Keeps(Memory(p), n, OthersOf(p))
  BY <1>0, <1>2, FreeOK
<1>4. loaded \subseteq Process /\ arguments \in [Process -> ArgumentsType]
  BY DEF MInv
<1> QED  BY <1>1, <1>3, <1>4, BecomesOK

LEMMA TerminateMemory == MInv /\ (\E p \in Process : Terminate(p)) => MInv'
<1> SUFFICES ASSUME MInv, NEW p \in Process, Terminate(p) PROVE MInv'
  OBVIOUS
<1>0. PICK all, n : /\ all = FreeAll(Memory(p))
                    /\ n = [heap |-> all.heap, table |-> NewTable, page |-> NewDirectory]
  OBVIOUS
<1>1. /\ p \in loaded /\ loaded' = loaded \ {p} /\ Becomes(p, n)
      /\ arguments' = [arguments EXCEPT ![p] = NoArguments]
  BY <1>0 DEF Terminate, Becomes
<1>2. HeapOK(all.heap) /\ DOMAIN all.heap = OthersOf(p) /\ Keeps(Memory(p), all, OthersOf(p))
  <2>1. MemoryOK(Memory(p), OthersOf(p))
    BY DEF MInv
  <2> QED  BY <1>0, <2>1, FreeAllOK
<1>3. /\ NewTable \in [Index -> Entry] /\ \A i \in Index : NewTable[i] = NoEntry
      /\ NewDirectory \in [Page -> Flags] /\ NoArguments \in ArgumentsType
      /\ Pointed(NewTable) = {}
  <2>1. \A i \in Index : NewTable[i] = NoEntry
    BY DEF NewTable
  <2>2. Pointed(NewTable) = {}
    BY <2>1 DEF Pointed, NoEntry
  <2> QED
    BY <2>1, <2>2, MemoryAssumption
    DEF NewTable, NoEntry, Entry, NewDirectory, Flags, NoArguments, ArgumentsType
<1>4. MemoryOK(n, OthersOf(p)) /\ Keeps(Memory(p), n, OthersOf(p))
  <2>1. n.heap = all.heap /\ n.table = NewTable /\ n.page = NewDirectory
    BY <1>0
  <2> QED  BY <1>2, <1>3, <2>1 DEF MemoryOK, EntryOK, NoEntry, Keeps
<1>5. loaded' \subseteq Process /\ arguments' \in [Process -> ArgumentsType]
  BY <1>1, <1>3 DEF MInv
<1>6. \A i \in Index : n.table[i] = NoEntry
  BY <1>0, <1>3
<1> QED  BY <1>1, <1>4, <1>5, <1>6, BecomesOK

\* What injecting the arguments does.
LEMMA Injected ==
  ASSUME MInv, NEW p \in Process, NEW argc \in 1 .. MaxArguments, LoadWith(p, argc)
  PROVE  /\ MInv'
         /\ \A q \in Process \ {p} : arguments'[q] = arguments[q]
         /\ arguments'[p].argc > 0 =>
              Finds(allocations'[p], arguments'[p].argv, PointerSize * arguments'[p].argc,
                    arguments'[p].argc)
<1>0. PICK r : r = Inject(Memory(p), argc)
  OBVIOUS
<1>1. /\ p \notin loaded /\ loaded' = loaded \cup {p} /\ Becomes(p, r.m)
      /\ arguments' = [arguments EXCEPT ![p] = r.arguments]
  BY <1>0 DEF LoadWith
<1>2. /\ MemoryOK(Memory(p), OthersOf(p)) /\ \A i \in Index : Memory(p).table[i] = NoEntry
      /\ argc \in Nat \ {0}
  BY <1>1, MemoryIs, MemoryAssumption DEF MInv
<1>3. /\ MemoryOK(r.m, OthersOf(p)) /\ Keeps(Memory(p), r.m, OthersOf(p))
      /\ \/ r.arguments = NoArguments
         \/ \E argv \in Nat :
              /\ r.arguments = [argc |-> argc, argv |-> argv]
              /\ Finds(r.m.table, argv, PointerSize * argc, argc)
  BY <1>0, <1>2, InjectOK
<1>4. /\ r.arguments \in ArgumentsType
      /\ r.arguments.argc > 0 =>
           Finds(r.m.table, r.arguments.argv, PointerSize * r.arguments.argc, r.arguments.argc)
  <2>1. CASE r.arguments = NoArguments
    BY <2>1, MemoryAssumption DEF ArgumentsType, NoArguments
  <2>2. CASE \E argv \in Nat :
               /\ r.arguments = [argc |-> argc, argv |-> argv]
               /\ Finds(r.m.table, argv, PointerSize * argc, argc)
    <3>1. PICK argv \in Nat :
            /\ r.arguments = [argc |-> argc, argv |-> argv]
            /\ Finds(r.m.table, argv, PointerSize * argc, argc)
      BY <2>2
    <3>2. r.arguments \in ArgumentsType
      BY <3>1, MemoryAssumption DEF ArgumentsType
    <3>3. r.arguments.argc = argc /\ r.arguments.argv = argv
      BY <3>1
    <3> QED  BY <3>1, <3>2, <3>3
  <2> QED  BY <1>3, <2>1, <2>2
<1>5. loaded' \subseteq Process /\ arguments' \in [Process -> ArgumentsType]
      /\ arguments'[p] = r.arguments
      /\ \A q \in Process \ {p} : arguments'[q] = arguments[q]
  BY <1>1, <1>4 DEF MInv
<1>6. MInv'
  BY <1>1, <1>3, <1>5, BecomesOK
<1>7. allocations'[p] = r.m.table
  BY <1>1 DEF Becomes, MInv
<1> QED  BY <1>4, <1>5, <1>6, <1>7

LEMMA NextMemory == MInv /\ [Next]_vars => MInv'
<1>1. ASSUME MInv, UNCHANGED vars PROVE MInv'
  <2>1. /\ loaded' = loaded /\ heap' = heap /\ allocations' = allocations /\ page' = page
        /\ arguments' = arguments
    BY <1>1 DEF vars
  <2>2. \A q \in Process : Memory(q)' = Memory(q) /\ OthersOf(q)' = OthersOf(q) /\ Has(q)' = Has(q)
    BY <2>1 DEF Memory, OthersOf, Has
  <2> QED  BY <1>1, <2>1, <2>2 DEF MInv, MemoryOK, EntryOK
<1>2. ASSUME MInv, Next PROVE MInv'
  BY <1>2, LoadMemory, MallocMemory, FreeMemory, TerminateMemory, Injected DEF Next
<1> QED  BY <1>1, <1>2

LEMMA MemoryInvariant == Spec => []MInv
BY InitMemory, NextMemory, PTL DEF Spec

-----------------------------------------------------------------------------
\* The heap and the tables of allocations stay well typed.
THEOREM MemoryTyping == Spec => []TypeOK
<1>1. MInv => TypeOK
  <2> SUFFICES ASSUME MInv PROVE TypeOK
    OBVIOUS
  <2>1. DOMAIN heap \subseteq {AddressOf(b) : b \in Block}
    BY DEF MInv, HeapOK, BlockAddress
  <2>2. ASSUME NEW a \in DOMAIN heap PROVE heap[a] \in Block
    <3>1. /\ a \in BlockAddress /\ heap[a] \in Nat \ {0} /\ BlocksAt(heap, a) \subseteq Block
      BY DEF MInv, HeapOK
    <3>2. PICK b, n : b = a \div PageSize /\ n = heap[a]
      OBVIOUS
    <3>3. b \in Nat \ {0} /\ n \in Nat \ {0} /\ b .. b + n - 1 \subseteq Block
      BY <3>1, <3>2, BlockAddresses, HeapAssumption DEF BlocksAt, Block
    <3>4. b + n - 1 \in Block
      BY <3>3
    <3> QED  BY <3>2, <3>3, <3>4, HeapAssumption DEF Block
  <2>3. ASSUME NEW p \in Process
        PROVE  /\ \A i \in Index : allocations[p][i].ptr \in {0} \cup DOMAIN heap
               /\ page[p] \in [Page -> Flags] /\ arguments[p].argc \in 0 .. MaxArguments
    <3>1. \A i \in Index : EntryOK(Memory(p), i)
      BY DEF MInv, MemoryOK
    <3>2. \A i \in Index : allocations[p][i].ptr \in {0} \cup DOMAIN heap
      BY <3>1, MemoryIs DEF EntryOK
    <3>3. arguments[p] \in ArgumentsType
      BY DEF MInv
    <3> QED  BY <3>2, <3>3 DEF MInv, ArgumentsType
  <2> QED  BY <2>1, <2>2, <2>3 DEF TypeOK, MInv
<1> QED  BY <1>1, MemoryInvariant, PTL

\* Whatever programs allocate, free (also pointers that are null, another
\* program's or nobody's) and are started with, and however they exit: the heap
\* holds what the tables say, and no two entries share a block.
THEOREM TablesCorrect == Spec => []TablesAreHeap
<1>1. MInv => TablesAreHeap
  <2> SUFFICES ASSUME MInv PROVE TablesAreHeap
    OBVIOUS
  <2>1. ASSUME NEW e \in Entries
        PROVE  /\ e[1] \in loaded /\ EntryOf(e).ptr \in DOMAIN heap
               /\ heap[EntryOf(e).ptr] = NeededBlocks(EntryOf(e).size)
               /\ EntryOf(e).ptr \in Has(e[1])
    <3>1. PICK p \in Process, i \in Index : p = e[1] /\ i = e[2] /\ allocations[p][i].ptr # 0
      BY DEF Entries
    <3>2. EntryOK(Memory(p), i)
      BY DEF MInv, MemoryOK
    <3>3. p \in loaded
      BY <3>1 DEF MInv, NoEntry
    <3> QED  BY <3>1, <3>2, <3>3, MemoryIs DEF EntryOK, EntryOf, Has, Pointed
  <2>2. \A a \in DOMAIN heap : a \in {EntryOf(e).ptr : e \in Entries}
    <3> TAKE a \in DOMAIN heap
    <3>1. PICK p \in Process : a \in Has(p)
      BY DEF MInv
    <3>2. PICK i \in Index : allocations[p][i].ptr = a /\ a # 0
      BY <3>1 DEF Has, Pointed
    <3>3. <<p, i>> \in Entries /\ EntryOf(<<p, i>>).ptr = a
      BY <3>2 DEF Entries, EntryOf
    <3> QED  BY <3>3
  <2>3. ASSUME NEW e \in Entries, NEW f \in Entries, e # f
        PROVE  EntryOf(e).ptr # EntryOf(f).ptr
    <3>1. PICK p \in Process, i \in Index :
            e = <<p, i>> /\ EntryOf(e) = allocations[p][i] /\ allocations[p][i].ptr # 0
      BY DEF Entries, EntryOf
    <3>2. PICK q \in Process, j \in Index :
            f = <<q, j>> /\ EntryOf(f) = allocations[q][j] /\ allocations[q][j].ptr # 0
      BY DEF Entries, EntryOf
    <3>3. CASE p = q
      <4>1. i # j /\ MemoryOK(Memory(p), OthersOf(p))
        BY <2>3, <3>1, <3>2, <3>3 DEF MInv
      <4> QED  BY <3>1, <3>2, <3>3, <4>1, MemoryIs DEF MemoryOK
    <3>4. CASE p # q
      <4>1. Has(p) \cap Has(q) = {}
        BY <3>4 DEF MInv
      <4>2. EntryOf(e).ptr \in Has(p) /\ EntryOf(f).ptr \in Has(q)
        BY <3>1, <3>2 DEF Has, Pointed
      <4> QED  BY <4>1, <4>2
    <3> QED  BY <3>3, <3>4
  <2>4. \A e, f \in Entries :
          e # f => BlocksAt(heap, EntryOf(e).ptr) \cap BlocksAt(heap, EntryOf(f).ptr) = {}
    BY <2>1, <2>3 DEF MInv, HeapOK
  <2> QED  BY <2>1, <2>2, <2>4 DEF TablesAreHeap
<1> QED  BY <1>1, MemoryInvariant, PTL

\* What a program got from malloc it can write to, in all its pages, whoever had
\* them before.
THEOREM WritableCorrect == Spec => []OwnIsWritable
<1>1. MInv => OwnIsWritable
  <2> SUFFICES ASSUME MInv, NEW e \in Entries
               PROVE  \A b \in BlocksAt(heap, EntryOf(e).ptr) : page[e[1]][b] = "writable"
    BY DEF OwnIsWritable
  <2>1. PICK p \in Process, i \in Index : p = e[1] /\ i = e[2] /\ allocations[p][i].ptr # 0
    BY DEF Entries
  <2>2. EntryOK(Memory(p), i)
    BY DEF MInv, MemoryOK
  <2> QED  BY <2>1, <2>2, MemoryIs DEF EntryOK, EntryOf
<1> QED  BY <1>1, MemoryInvariant, PTL

\* A program that is started with arguments finds the array and as many strings
\* as there are arguments, or no arguments at all.
THEOREM ArgumentsCorrect == Spec => ArgumentsComplete
<1> DEFINE Started ==
      \A p \in Process : arguments'[p].argc > 0 /\ arguments[p].argc = 0 =>
        LET table == allocations'[p]
        IN  /\ \E i \in Index : /\ table[i].ptr = arguments'[p].argv
                                /\ table[i].size = PointerSize * arguments'[p].argc
            /\ Cardinality({i \in Index : /\ table[i].ptr # arguments'[p].argv
                                          /\ table[i].size = ArgumentSize})
                 = arguments'[p].argc
<1>1. ASSUME MInv, [Next]_vars PROVE [Started]_vars
  <2>1. CASE UNCHANGED vars
    BY <2>1
  <2>2. CASE \E p \in Process : \E n \in 1 .. MaxArguments : LoadWith(p, n)
    <3>1. PICK p \in Process, n \in 1 .. MaxArguments : LoadWith(p, n)
      BY <2>2
    <3>2. /\ \A q \in Process \ {p} : arguments'[q] = arguments[q]
          /\ arguments'[p].argc > 0 =>
               Finds(allocations'[p], arguments'[p].argv, PointerSize * arguments'[p].argc,
                     arguments'[p].argc)
      BY <1>1, <3>1, Injected
    <3>3. ASSUME NEW q \in Process, arguments'[q].argc > 0, arguments[q].argc = 0
          PROVE  q = p
      BY <3>2, <3>3
    <3>4. Started
      BY <3>2, <3>3 DEF Finds, StringsIn
    <3> QED  BY <3>4
  <2>3. CASE \E p \in Process : Terminate(p)
    <3>1. PICK p \in Process : arguments' = [arguments EXCEPT ![p] = NoArguments]
      BY <2>3 DEF Terminate
    <3>2. \A q \in Process : arguments'[q] = NoArguments \/ arguments'[q] = arguments[q]
      BY <1>1, <3>1 DEF MInv
    <3>3. \A q \in Process : ~ (arguments'[q].argc > 0 /\ arguments[q].argc = 0)
      BY <3>2 DEF NoArguments
    <3>4. Started
      BY <3>3
    <3> QED  BY <3>4
  <2>4. CASE arguments' = arguments
    <3>1. \A q \in Process : ~ (arguments'[q].argc > 0 /\ arguments[q].argc = 0)
      BY <2>4
    <3>2. Started
      BY <3>1
    <3> QED  BY <3>2
  <2> QED  BY <1>1, <2>1, <2>2, <2>3, <2>4 DEF Next, Load, UserMalloc, UserFree
<1> QED  BY <1>1, MemoryInvariant, PTL DEF Spec, ArgumentsComplete
=============================================================================
