-------------------------- MODULE KernelHeapProofs --------------------------
(***************************************************************************)
(* What KernelHeap promises, for every size of a page and of the heap: the *)
(* lemmas that the proofs of the modules that allocate memory rest on.     *)
(***************************************************************************)
EXTENDS KernelHeap, WellFoundedInduction, TLAPS

(* Numbers. *)

\* A set of natural numbers has a least element.
LEMMA LeastElement ==
  ASSUME NEW S \in SUBSET Nat, S # {}
  PROVE  \E x \in S : \A y \in S : x <= y
<1> DEFINE R == OpToRel(<, Nat)
<1>1. IsWellFoundedOn(R, Nat)
  BY NatLessThanWellFounded
<1>2. \A x, y \in Nat : <<y, x>> \in R <=> y < x
  BY DEF OpToRel
<1> HIDE DEF R
<1>3. PICK x \in S : \A y \in S : ~ (<<y, x>> \in R)
  BY <1>1, WFMin
<1>4. \A y \in S : ~ (y < x) /\ x \in Nat /\ y \in Nat
  BY <1>2, <1>3, Zenon
<1>5. \A y \in S : x <= y
  BY <1>4
<1> QED  BY <1>5

LEMMA MinValue ==
  ASSUME NEW S \in SUBSET Nat, S # {}
  PROVE  Min(S) \in S /\ \A y \in S : Min(S) <= y
BY LeastElement DEF Min

LEMMA PageNumber ==
  ASSUME NEW b \in Nat
  PROVE  /\ AddressOf(b) \div PageSize = b
         /\ AddressOf(b) \in Nat
         /\ AddressOf(b) = 0 <=> b = 0
BY HeapAssumption DEF AddressOf

LEMMA Needed ==
  ASSUME NEW size \in Nat \ {0}
  PROVE  NeededBlocks(size) \in Nat \ {0}
BY HeapAssumption DEF NeededBlocks

\* A number is a multiple and a remainder in one way only.
LEMMA Quotient ==
  ASSUME NEW a \in Int, NEW m \in Nat \ {0}, NEW q \in Int, NEW r \in 0 .. m - 1,
         a = q * m + r
  PROVE  a \div m = q /\ a % m = r
<1> DEFINE p == a \div m
           x == a % m
           z == p - q
<1>1. x \in 0 .. m - 1 /\ p \in Int /\ a = p * m + x
  OBVIOUS
<1> HIDE DEF p, x
<1>2. z \in Int /\ z * m = p * m - q * m /\ p * m \in Int /\ q * m \in Int
  BY <1>1
<1> HIDE DEF z
<1>3. z * m = r - x
  BY <1>1, <1>2
<1>4. z = 0
  <2>1. z >= 1 => z * m >= m
    BY <1>2
  <2>2. z <= -1 => z * m <= -m
    BY <1>2
  <2> QED  BY <1>1, <1>2, <1>3, <2>1, <2>2
<1>5. p = q /\ x = r
  BY <1>1, <1>2, <1>3, <1>4 DEF z
<1> QED  BY <1>5 DEF p, x

\* The end of an allocation, rounded up, is that of its last block.
LEMMA RoundedUp ==
  ASSUME NEW k \in Nat, NEW size \in Nat \ {0}
  PROVE  AlignAddress(AddressOf(k) + size) \div PageSize = k + NeededBlocks(size)
<1>0. PICK m, q, r, a : /\ m = PageSize /\ q = size \div m /\ r = size % m
                        /\ a = AddressOf(k) + size
  OBVIOUS
<1>1. /\ m \in Nat \ {0} /\ r \in 0 .. m - 1 /\ q \in Int /\ size = q * m + r
      /\ a = k * m + size
  BY <1>0, HeapAssumption DEF AddressOf
<1>2. /\ (k + q) * m = k * m + q * m /\ (k + q + 1) * m = k * m + q * m + m
      /\ (q + 1) * m = q * m + m /\ q * m \in Int /\ k * m \in Int
  BY <1>1
<1>3. a \in Int /\ a = (k + q) * m + r
  BY <1>1, <1>2
<1>4. a % m = r
  BY <1>1, <1>3, Quotient
<1>5. CASE r = 0
  <2>1. AlignAddress(a) = a
    BY <1>0, <1>4, <1>5 DEF AlignAddress
  <2>2. a \div m = k + q
    BY <1>1, <1>3, Quotient
  <2>3. (size + m - 1) \div m = q
    <3>1. size + m - 1 = q * m + (m - 1) /\ size + m - 1 \in Int /\ m - 1 \in 0 .. m - 1
      BY <1>1, <1>2, <1>5
    <3> QED  BY <1>1, <3>1, Quotient
  <2> QED  BY <1>0, <2>1, <2>2, <2>3 DEF NeededBlocks
<1>6. CASE r # 0
  <2>1. AlignAddress(a) = a + m - r
    BY <1>0, <1>4, <1>6 DEF AlignAddress
  <2>2. (a + m - r) \div m = k + q + 1
    <3>1. a + m - r = (k + q + 1) * m + 0 /\ a + m - r \in Int /\ 0 \in 0 .. m - 1
      BY <1>1, <1>2, <1>3
    <3> QED  BY <1>1, <3>1, Quotient
  <2>3. (size + m - 1) \div m = q + 1
    <3>1. size + m - 1 = (q + 1) * m + (r - 1) /\ size + m - 1 \in Int /\ r - 1 \in 0 .. m - 1
      BY <1>1, <1>2, <1>6
    <3> QED  BY <1>1, <3>1, Quotient
  <2> QED  BY <1>0, <1>1, <2>1, <2>2, <2>3 DEF NeededBlocks
<1> QED  BY <1>5, <1>6

-----------------------------------------------------------------------------
(* The heap. *)

BlockAddress == {AddressOf(b) : b \in Block}

\* A heap: at the start of each allocation is its number of blocks, and no block
\* belongs to two of them.
HeapOK(heap) ==
  /\ heap = [a \in DOMAIN heap |-> heap[a]]
  /\ DOMAIN heap \subseteq BlockAddress
  /\ \A a \in DOMAIN heap : heap[a] \in Nat \ {0} /\ BlocksAt(heap, a) \subseteq Block
  /\ \A a, b \in DOMAIN heap : a # b => BlocksAt(heap, a) \cap BlocksAt(heap, b) = {}

LEMMA BlockAddresses ==
  ASSUME NEW a \in BlockAddress
  PROVE  /\ a \in Nat \ {0} /\ a \div PageSize \in Block
         /\ a = AddressOf(a \div PageSize)
<1>1. PICK b \in Block : a = AddressOf(b)
  BY DEF BlockAddress
<1>2. b \in Nat /\ b # 0
  BY HeapAssumption DEF Block
<1> QED  BY <1>1, <1>2, PageNumber

LEMMA EmptyHeapOK == HeapOK(EmptyHeap) /\ DOMAIN EmptyHeap = {}
BY DEF HeapOK, EmptyHeap

\* An allocation lies at its address.
LEMMA FirstBlock ==
  ASSUME NEW heap, HeapOK(heap), NEW a \in DOMAIN heap
  PROVE  a \div PageSize \in BlocksAt(heap, a) /\ BlocksAt(heap, a) \subseteq Taken(heap)
<1>1. a \div PageSize \in Nat /\ heap[a] \in Nat \ {0}
  BY BlockAddresses, HeapAssumption DEF HeapOK, Block
<1> QED  BY <1>1 DEF BlocksAt, Taken

LEMMA TakenBlocks ==
  ASSUME NEW heap, HeapOK(heap)
  PROVE  Taken(heap) \subseteq Block
BY DEF Taken, HeapOK

\* kzalloc gives blocks that nobody has, and the rest of the heap stays.
LEMMA KzallocGives ==
  ASSUME NEW heap, HeapOK(heap), NEW size \in Nat \ {0}, Kzalloc(heap, size) # 0
  PROVE  LET a == Kzalloc(heap, size)
             after == Allocated(heap, a, size)
         IN  /\ a \in BlockAddress /\ a \notin DOMAIN heap
             /\ HeapOK(after) /\ DOMAIN after = DOMAIN heap \cup {a}
             /\ after[a] = NeededBlocks(size)
             /\ \A x \in DOMAIN heap : after[x] = heap[x]
<1> DEFINE n == NeededBlocks(size)
           runs == Runs(heap, n)
           b == Min(runs)
           a == Kzalloc(heap, size)
           after == Allocated(heap, a, size)
<1>1. runs # {} /\ a = AddressOf(b)
  BY DEF Kzalloc
<1>2. runs \in SUBSET Nat
  BY HeapAssumption DEF Runs, Block
<1>3. b \in runs
  BY <1>1, <1>2, MinValue
<1>4. b \in Block /\ b .. b + n - 1 \subseteq Block \ Taken(heap) /\ b \in Nat
  BY <1>2, <1>3 DEF Runs
<1>5. n \in Nat \ {0}
  BY Needed
<1> HIDE DEF n, runs, b, a
<1>6. a \div PageSize = b /\ a \in BlockAddress
  BY <1>1, <1>4, PageNumber DEF BlockAddress
<1>7. a \notin DOMAIN heap
  <2>1. b \in b .. b + n - 1
    BY <1>4, <1>5
  <2> QED  BY <1>4, <1>6, <2>1, FirstBlock
<1>8. /\ after = [x \in DOMAIN heap \cup {a} |-> IF x = a THEN n ELSE heap[x]]
      /\ after = [x \in DOMAIN after |-> after[x]]
  BY DEF Allocated, n
<1> HIDE DEF after
<1>9. /\ DOMAIN after = DOMAIN heap \cup {a} /\ after[a] = n
      /\ \A x \in DOMAIN heap : after[x] = heap[x]
  BY <1>7, <1>8
<1>10. BlocksAt(after, a) = b .. b + n - 1
  BY <1>6, <1>9 DEF BlocksAt
<1>11. \A x \in DOMAIN heap :
         /\ BlocksAt(after, x) = BlocksAt(heap, x)
         /\ BlocksAt(heap, x) \subseteq Taken(heap)
  BY <1>9, FirstBlock DEF BlocksAt
<1>12. HeapOK(after)
  <2>1. DOMAIN after \subseteq BlockAddress
    BY <1>6, <1>9 DEF HeapOK
  <2>2. \A x \in DOMAIN after : after[x] \in Nat \ {0} /\ BlocksAt(after, x) \subseteq Block
    BY <1>4, <1>5, <1>9, <1>10, <1>11 DEF HeapOK
  <2>3. \A x, y \in DOMAIN after :
          x # y => BlocksAt(after, x) \cap BlocksAt(after, y) = {}
    BY <1>4, <1>9, <1>10, <1>11 DEF HeapOK
  <2> QED  BY <1>8, <2>1, <2>2, <2>3 DEF HeapOK
<1> QED  BY <1>6, <1>7, <1>9, <1>12 DEF n, a, after

LEMMA FreedOK ==
  ASSUME NEW heap, HeapOK(heap), NEW a
  PROVE  /\ HeapOK(Freed(heap, a)) /\ DOMAIN Freed(heap, a) = DOMAIN heap \ {a}
         /\ \A x \in DOMAIN heap \ {a} : Freed(heap, a)[x] = heap[x]
<1> DEFINE after == Freed(heap, a)
<1>1. after = [x \in DOMAIN heap \ {a} |-> heap[x]]
  BY DEF Freed, Restrict
<1> HIDE DEF after
<1>2. /\ DOMAIN after = DOMAIN heap \ {a} /\ after = [x \in DOMAIN after |-> after[x]]
      /\ \A x \in DOMAIN heap \ {a} : after[x] = heap[x]
  BY <1>1
<1>3. \A x \in DOMAIN after : BlocksAt(after, x) = BlocksAt(heap, x)
  BY <1>2 DEF BlocksAt
<1>4. HeapOK(after)
  BY <1>2, <1>3 DEF HeapOK
<1> QED  BY <1>2, <1>4 DEF after

\* So does a kfree of each address in a set.
LEMMA FreedAllOK ==
  ASSUME NEW heap, HeapOK(heap), NEW set
  PROVE  /\ HeapOK(FreedAll(heap, set)) /\ DOMAIN FreedAll(heap, set) = DOMAIN heap \ set
         /\ \A x \in DOMAIN heap \ set : FreedAll(heap, set)[x] = heap[x]
<1> DEFINE after == FreedAll(heap, set)
<1>1. after = [x \in DOMAIN heap \ set |-> heap[x]]
  BY DEF FreedAll, Restrict
<1> HIDE DEF after
<1>2. /\ DOMAIN after = DOMAIN heap \ set /\ after = [x \in DOMAIN after |-> after[x]]
      /\ \A x \in DOMAIN heap \ set : after[x] = heap[x]
  BY <1>1
<1>3. \A x \in DOMAIN after : BlocksAt(after, x) = BlocksAt(heap, x)
  BY <1>2 DEF BlocksAt
<1> QED  BY <1>2, <1>3 DEF HeapOK, after

\* paging_map_to from an allocation to its rounded end covers its blocks, and
\* from the null pointer to the null pointer nothing.
LEMMA AllocationPages ==
  ASSUME NEW a \in BlockAddress, NEW size \in Nat \ {0}
  PROVE  Pages(a, AlignAddress(a + size)) =
           a \div PageSize .. a \div PageSize + NeededBlocks(size) - 1
<1>0. PICK e : e = AlignAddress(a + size)
  OBVIOUS
<1>1. PICK k \in Nat : k = a \div PageSize /\ a = AddressOf(k)
  BY BlockAddresses, HeapAssumption DEF Block
<1>2. AlignAddress(a + size) \div PageSize = k + NeededBlocks(size)
  BY <1>1, RoundedUp
<1>3. PICK n \in Nat : n = NeededBlocks(size)
  BY Needed
<1>4. Pages(a, e) = a \div PageSize .. e \div PageSize - 1
  BY DEF Pages
<1>5. a \div PageSize = k /\ e \div PageSize = k + n
  BY <1>0, <1>1, <1>2, <1>3
<1>6. Pages(a, e) = k .. (k + n) - 1
  BY <1>4, <1>5
<1>7. (k + n) - 1 = k + n - 1
  OBVIOUS
<1> QED  BY <1>0, <1>3, <1>5, <1>6, <1>7

LEMMA NoPages == Pages(0, AlignAddress(0 + 0)) = {}
<1>1. 0 % PageSize = 0 /\ 0 \div PageSize = 0
  BY HeapAssumption, Quotient
<1>2. AlignAddress(0 + 0) = 0
  BY <1>1 DEF AlignAddress
<1> QED  BY <1>1, <1>2 DEF Pages
=============================================================================
