-------------------------- MODULE FileTableProofs --------------------------
(***************************************************************************)
(* Proofs about FileTable, for every number of descriptors, all disks,     *)
(* paths and sizes: handles keep their files, open files keep their        *)
(* structures, a read in the first cluster is exact, fopen gives the file  *)
(* that was named, and the heap never outgrows the table.                  *)
(***************************************************************************)
EXTENDS FileTable, FiniteSetTheorems, SequenceTheorems, WellFoundedInduction, TLAPS

(* Numbers. *)

\* A set of natural numbers has a least element.
LEMMA LeastElement ==
  ASSUME NEW S \in SUBSET Nat, S # {}
  PROVE  \E x \in S : \A y \in S : x <= y
<1> DEFINE R == OpToRel(<, Nat)
<1>1. IsWellFoundedOn(R, Nat)
  BY NatLessThanWellFounded
<1>2. \A x, y \in Nat : <<y, x>> \in R <=> y < x
  BY DEF OpToRel
<1> HIDE DEF R
<1>3. PICK x \in S : \A y \in S : ~ (<<y, x>> \in R)
  BY <1>1, WFMin
<1>4. \A y \in S : ~ (y < x) /\ x \in Nat /\ y \in Nat
  BY <1>2, <1>3, Zenon
<1>5. \A y \in S : x <= y
  BY <1>4
<1> QED  BY <1>5

LEMMA MinValue ==
  ASSUME NEW S \in SUBSET Nat, S # {}
  PROVE  Min(S) \in S /\ \A y \in S : Min(S) <= y
BY LeastElement DEF Min

-----------------------------------------------------------------------------
(* The disk streams: a read of any length from anywhere gives the bytes     *)
(* that stand there.                                                        *)

\* The bytes from a position of the disk on.
Bytes(pos, total) == [i \in 1 .. total |-> pos + i - 1]

LEMMA BytesJoin ==
  ASSUME NEW pos \in Nat, NEW m \in Nat, NEW n \in Nat
  PROVE  /\ Bytes(pos, m) \o Bytes(pos + m, n) = Bytes(pos, m + n)
         /\ Bytes(pos, m) \in Seq(Nat) /\ Len(Bytes(pos, m)) = m
<1> DEFINE s == Bytes(pos, m)
           t == Bytes(pos + m, n)
<1>1. s \in Seq(Nat) /\ Len(s) = m /\ t \in Seq(Nat) /\ Len(t) = n
  BY DEF Bytes
<1>2. \A i \in 1 .. m : s[i] = pos + i - 1
  BY DEF Bytes
<1>3. \A i \in 1 .. n : t[i] = pos + m + i - 1
  BY DEF Bytes
<1> HIDE DEF s, t
<1>4. s \o t \in Seq(Nat) /\ Len(s \o t) = m + n
  BY <1>1
<1>5. \A i \in 1 .. m + n : (s \o t)[i] = pos + i - 1
  BY <1>1, <1>2, <1>3
<1>6. s \o t = [i \in 1 .. m + n |-> pos + i - 1]
  <2>1. PICK u : u = s \o t
    OBVIOUS
  <2>2. u \in [1 .. m + n -> Nat]
    BY <1>4, <2>1, LenProperties
  <2>3. u = [i \in 1 .. m + n |-> pos + i - 1]
    BY <1>5, <2>1, <2>2
  <2> QED  BY <2>1, <2>3
<1> QED  BY <1>1, <1>6 DEF s, t, Bytes

\* What one sector gives.
Offset(pos) == pos % SectorSize
Chunk(pos, total) == Fits(Offset(pos), total)

LEMMA SectorGives ==
  ASSUME NEW pos \in Nat, NEW total \in Nat
  PROVE  /\ Offset(pos) \in 0 .. SectorSize - 1
         /\ Chunk(pos, total) \in 0 .. total
         /\ Offset(pos) + total >= SectorSize => Chunk(pos, total) = SectorSize - Offset(pos)
         /\ Offset(pos) + total < SectorSize => Chunk(pos, total) = total
         /\ [i \in 1 .. Chunk(pos, total) |-> Sector(pos \div SectorSize)[Offset(pos) + i - 1]]
              = Bytes(pos, Chunk(pos, total))
<1> DEFINE offset == Offset(pos)
           count == Chunk(pos, total)
           lba == pos \div SectorSize
<1>1. /\ offset \in 0 .. SectorSize - 1 /\ lba \in Nat
      /\ pos = lba * SectorSize + offset /\ SectorSize \in Nat \ {0}
  BY SectorAssumption DEF Offset
<1>2. count = Fits(offset, total)
  BY DEF Chunk
<1> HIDE DEF lba, offset, count
<1>3. /\ count \in 0 .. total
      /\ offset + total >= SectorSize => count = SectorSize - offset
      /\ offset + total < SectorSize => count = total
      /\ offset + count <= SectorSize
  BY <1>1, <1>2 DEF Fits
<1>4. lba * SectorSize \in Nat
  BY <1>1
<1>5. \A i \in 1 .. count : Sector(lba)[offset + i - 1] = pos + i - 1
  <2> SUFFICES ASSUME NEW i \in 1 .. count PROVE Sector(lba)[offset + i - 1] = pos + i - 1
    OBVIOUS
  <2>1. offset + i - 1 \in 0 .. SectorSize - 1
    BY <1>1, <1>3
  <2>2. Sector(lba)[offset + i - 1] = lba * SectorSize + (offset + i - 1)
    BY <2>1 DEF Sector
  <2> QED  BY <2>2, <1>1, <1>3, <1>4
<1>6. [i \in 1 .. count |-> Sector(lba)[offset + i - 1]] = Bytes(pos, count)
  BY <1>5 DEF Bytes
<1> QED  BY <1>1, <1>3, <1>6 DEF lba, offset, count

LEMMA StreamRead ==
  ASSUME NEW pos \in Nat, NEW total \in Nat
  PROVE  DiskstreamerRead[total][pos] = Bytes(pos, total)
<1> DEFINE At(g, n, p) ==
             LET offset == p % SectorSize
                 buf == Sector(p \div SectorSize)
                 total_to_read == Fits(offset, n)
                 out == [i \in 1 .. total_to_read |-> buf[offset + i - 1]]
             IN  IF offset + n >= SectorSize
                   THEN out \o g[n - total_to_read][p + total_to_read]
                   ELSE out
           Body(g, n) == [p \in Nat |-> At(g, n, p)]
           F == [n \in Nat |-> [p \in Nat |-> Bytes(p, n)]]
<1>1. DiskstreamerRead = CHOOSE g : g = [n \in Nat |-> Body(g, n)]
  BY DEF DiskstreamerRead
<1>2. ASSUME NEW g, NEW p \in Nat, NEW n \in Nat,
             \A k \in Nat, q \in Nat : k < n => g[k][q] = Bytes(q, k)
      PROVE  At(g, n, p) = Bytes(p, n)
  <2> DEFINE offset == Offset(p)
             count == Chunk(p, n)
  <2>1. /\ offset \in 0 .. SectorSize - 1 /\ count \in 0 .. n
        /\ offset + n >= SectorSize => count = SectorSize - offset
        /\ offset + n < SectorSize => count = n
        /\ [i \in 1 .. count |-> Sector(p \div SectorSize)[offset + i - 1]] = Bytes(p, count)
    BY SectorGives
  <2>2. At(g, n, p) = IF offset + n >= SectorSize
                        THEN Bytes(p, count) \o g[n - count][p + count] ELSE Bytes(p, count)
    BY <2>1 DEF Offset, Chunk
  <2> HIDE DEF At, offset, count
  <2>3. CASE offset + n >= SectorSize
    <3>1. p + count \in Nat /\ n - count \in Nat /\ n - count < n /\ count \in Nat
      BY <2>1, <2>3, SectorAssumption
    <3>2. g[n - count][p + count] = Bytes(p + count, n - count)
      BY <1>2, <3>1
    <3>3. Bytes(p, count) \o Bytes(p + count, n - count) = Bytes(p, count + (n - count))
      BY <3>1, BytesJoin
    <3>4. count + (n - count) = n
      BY <3>1
    <3> QED  BY <2>2, <2>3, <3>2, <3>3, <3>4
  <2>4. CASE ~ (offset + n >= SectorSize)
    <3>1. count = n
      BY <2>1, <2>4, SectorAssumption
    <3> QED  BY <2>2, <2>4, <3>1
  <2> QED  BY <2>3, <2>4
<1> HIDE DEF At
<1>3. F = [n \in Nat |-> Body(F, n)]
  <2>1. \A k \in Nat, q \in Nat : F[k][q] = Bytes(q, k)
    OBVIOUS
  <2> HIDE DEF F
  <2>2. \A n \in Nat, p \in Nat : At(F, n, p) = Bytes(p, n)
    BY <1>2, <2>1
  <2>3. \A n \in Nat : Body(F, n) = [p \in Nat |-> Bytes(p, n)]
    BY <2>2
  <2> HIDE DEF Body
  <2> QED  BY <2>3 DEF F
<1> HIDE DEF F
<1>4. DiskstreamerRead = [n \in Nat |-> Body(DiskstreamerRead, n)]
  <2> HIDE DEF Body
  <2> QED  BY <1>1, <1>3
<1>5. \A n \in Nat, p \in Nat : DiskstreamerRead[n][p] = At(DiskstreamerRead, n, p)
  <2>1. \A n \in Nat : DiskstreamerRead[n] = Body(DiskstreamerRead, n)
    <3> HIDE DEF Body
    <3> QED  BY <1>4, Zenon
  <2> QED  BY <2>1
<1> DEFINE bad == {n \in Nat : \E p \in Nat : DiskstreamerRead[n][p] # Bytes(p, n)}
<1>6. bad = {}
  <2> SUFFICES ASSUME bad # {} PROVE FALSE
    OBVIOUS
  <2>1. PICK n \in bad : \A y \in bad : n <= y
    BY LeastElement
  <2>2. PICK p \in Nat : n \in Nat /\ DiskstreamerRead[n][p] # Bytes(p, n)
    BY <2>1
  <2>3. \A k \in Nat, q \in Nat : k < n => DiskstreamerRead[k][q] = Bytes(q, k)
    BY <2>1, <2>2
  <2> QED  BY <1>2, <1>5, <2>2, <2>3
<1> QED  BY <1>6
-----------------------------------------------------------------------------
(* Reads of the file system inside the first cluster. *)

LEMMA Sizes ==
  /\ SectorSize \in Nat \ {0} /\ SectorsPerCluster \in Nat \ {0}
  /\ ClusterSize \in Nat \ {0}
  /\ RootSector \in Nat /\ EndingSector \in Nat
<1>1. /\ SectorSize \in Nat \ {0} /\ SectorsPerCluster \in Nat \ {0}
      /\ FatCopies \in Nat /\ SectorsPerFat \in Nat /\ ReservedSectors \in Nat
      /\ RootDirEntries \in Nat /\ ItemSize \in Nat
  BY SectorAssumption, HeaderAssumption
<1>2. ClusterSize \in Nat \ {0}
  BY <1>1 DEF ClusterSize
<1>3. RootSector \in Nat
  BY <1>1 DEF RootSector
<1>4. EndingSector \in Nat
  <2>1. RootDirEntries * ItemSize \in Nat
    BY <1>1
  <2>2. (RootDirEntries * ItemSize) \div SectorSize \in Nat
    BY <1>1, <2>1
  <2> QED  BY <1>3, <2>2 DEF EndingSector
<1> QED  BY <1>1, <1>2, <1>3, <1>4

\* No entry of the table is followed.
LEMMA FirstCluster ==
  ASSUME NEW first, NEW offset \in 0 .. ClusterSize - 1
  PROVE  ClusterForOffset(first, offset) = first
<1> DEFINE Step(g, n) ==
             IF n = 0 THEN first
             ELSE LET before == g[n - 1]
                  IN  IF before = NoCluster \/ FatEntry(before) \in ErrorEntries
                        THEN NoCluster ELSE FatEntry(before)
           F == [n \in 0 .. 0 |-> first]
<1>1. offset \div ClusterSize = 0
  BY Sizes
<1>2. ClusterForOffset(first, offset) = (CHOOSE g : g = [n \in 0 .. 0 |-> Step(g, n)])[0]
  BY <1>1 DEF ClusterForOffset
<1>3. \A g : Step(g, 0) = first
  OBVIOUS
<1> HIDE DEF Step
<1>4. \A g : [n \in 0 .. 0 |-> Step(g, n)] = F
  BY <1>3
<1>5. F[0] = first
  OBVIOUS
<1> HIDE DEF F
<1> DEFINE C == CHOOSE g : g = [n \in 0 .. 0 |-> Step(g, n)]
<1>6. C = F
  BY <1>4
<1>7. ClusterForOffset(first, offset) = C[0]
  BY <1>2
<1> HIDE DEF C
<1> QED  BY <1>5, <1>6, <1>7

LEMMA Positions ==
  ASSUME NEW first \in Nat \ {0, 1}, NEW offset \in 0 .. ClusterSize - 1
  PROVE  /\ StartingPosition(first, offset) = ClusterToSector(first) * SectorSize + offset
         /\ StartingPosition(first, offset) \in Nat
<1>1. ClusterToSector(first) \in Nat
  <2>1. first - 2 \in Nat
    OBVIOUS
  <2>2. (first - 2) * SectorsPerCluster \in Nat
    BY <2>1, Sizes
  <2> QED  BY <2>2, Sizes DEF ClusterToSector
<1>2. ClusterToSector(first) * SectorSize \in Nat
  BY <1>1, Sizes
<1>3. offset % ClusterSize = offset
  BY Sizes
<1> QED  BY <1>2, <1>3 DEF StartingPosition

\* One chunk is enough, and it is in the cluster that the read begins in.
LEMMA ReadInternalIs ==
  ASSUME NEW first \in Nat \ {0, 1}, NEW from \in Nat, NEW count \in Nat \ {0},
         from + count <= ClusterSize
  PROVE  ReadInternal(first, from, count)
           = [ok |-> TRUE, out |-> Bytes(StartingPosition(first, from), count)]
<1> DEFINE At(g, n, o) ==
             LET cluster == ClusterForOffset(first, o)
                 total_to_read == IF n > ClusterSize THEN ClusterSize ELSE n
                 out == DiskstreamerRead[total_to_read][StartingPosition(cluster, o)]
                 rest == g[n - total_to_read][o + total_to_read]
             IN  IF cluster = NoCluster THEN [ok |-> FALSE, out |-> <<>>]
                 ELSE IF total_to_read = n THEN [ok |-> TRUE, out |-> out]
                 ELSE [ok |-> rest.ok, out |-> out \o rest.out]
           Body(g, n) == [o \in Nat |-> At(g, n, o)]
           bad == {k \in Nat : ~ \E g : g = [n \in 0 .. k |-> Body(g, n)]}
<1>1. ReadInternal(first, from, count)
        = (CHOOSE g : g = [n \in 0 .. count |-> Body(g, n)])[count][from]
  BY DEF ReadInternal
<1>2. \A g, h, n, o : (n > ClusterSize => g[n - ClusterSize] = h[n - ClusterSize])
                       => At(g, n, o) = At(h, n, o)
  <2> TAKE g, h, n, o
  <2>1. CASE n > ClusterSize
    BY <2>1
  <2>2. CASE ~ (n > ClusterSize)
    BY <2>2
  <2> QED  BY <2>1, <2>2
<1>3. \A g : At(g, count, from) = [ok |-> TRUE, out |-> Bytes(StartingPosition(first, from), count)]
  <2>1. from \in 0 .. ClusterSize - 1 /\ ~ (count > ClusterSize)
    BY Sizes
  <2>2. ClusterForOffset(first, from) = first /\ first # NoCluster
    BY <2>1, FirstCluster DEF NoCluster
  <2>3. DiskstreamerRead[count][StartingPosition(first, from)]
          = Bytes(StartingPosition(first, from), count)
    BY <2>1, Positions, StreamRead
  <2> QED  BY <2>1, <2>2, <2>3
<1> HIDE DEF At
<1>4. \A g, h, n : (n > ClusterSize => g[n - ClusterSize] = h[n - ClusterSize])
                    => Body(g, n) = Body(h, n)
  BY <1>2
<1>5. \A g, n : \A o \in Nat : Body(g, n)[o] = At(g, n, o)
  OBVIOUS
<1> HIDE DEF Body
<1>6. bad = {}
  <2> SUFFICES ASSUME bad # {} PROVE FALSE
    OBVIOUS
  <2>1. PICK k \in bad : \A y \in bad : k <= y
    BY LeastElement
  <2>2. k \in Nat /\ ~ \E g : g = [n \in 0 .. k |-> Body(g, n)]
    BY <2>1
  <2>3. k # 0
    <3> SUFFICES ASSUME k = 0 PROVE FALSE
      OBVIOUS
    <3> DEFINE e == [n \in 0 .. 0 |-> 0]
               g == [n \in 0 .. 0 |-> Body(e, n)]
    <3>1. \A n \in 0 .. 0 : Body(g, n) = Body(e, n)
      BY <1>4, Sizes
    <3>2. g = [n \in 0 .. 0 |-> Body(g, n)]
      BY <3>1
    <3> QED  BY <2>2, <3>2
  <2>4. k - 1 \in Nat /\ k - 1 \notin bad
    BY <2>1, <2>2, <2>3
  <2>5. PICK g : g = [n \in 0 .. k - 1 |-> Body(g, n)]
    BY <2>4
  <2> DEFINE h == [n \in 0 .. k |-> IF n = k THEN Body(g, k) ELSE g[n]]
  <2>6. \A n \in 0 .. k - 1 : h[n] = g[n]
    BY <2>2, <2>3
  <2>7. \A n \in 0 .. k : Body(h, n) = Body(g, n)
    <3> SUFFICES ASSUME NEW n \in 0 .. k PROVE Body(h, n) = Body(g, n)
      OBVIOUS
    <3>1. n > ClusterSize => n - ClusterSize \in 0 .. k - 1
      BY Sizes, <2>2, <2>3
    <3>2. n > ClusterSize => h[n - ClusterSize] = g[n - ClusterSize]
      BY <2>6, <3>1
    <3> HIDE DEF h
    <3> QED  BY <1>4, <3>2
  <2>8. h = [n \in 0 .. k |-> Body(h, n)]
    <3>1. \A n \in 0 .. k : h[n] = Body(g, n)
      BY <2>2, <2>5
    <3> QED  BY <2>7, <3>1
  <2> QED  BY <2>2, <2>8
<1>7. PICK R : /\ R = [n \in 0 .. count |-> Body(R, n)]
               /\ ReadInternal(first, from, count) = R[count][from]
  <2>1. \E g : g = [n \in 0 .. count |-> Body(g, n)]
    BY <1>6
  <2> QED  BY <1>1, <2>1
<1>8. R[count] = Body(R, count)
  <2>1. count \in 0 .. count
    OBVIOUS
  <2> QED  BY <1>7, <2>1, Zenon
<1>9. Body(R, count)[from] = At(R, count, from)
  BY <1>5
<1> QED  BY <1>3, <1>7, <1>8, <1>9

\* The members of a read follow each other.
LEMMA Fat16ReadIs ==
  ASSUME NEW first \in Nat \ {0, 1}, NEW pos \in Nat,
         NEW size \in Nat \ {0}, NEW nmemb \in Nat, pos + nmemb * size <= ClusterSize
  PROVE  nmemb # 0 => Fat16Read(first, pos, size, nmemb)
           = [ok |-> TRUE, out |-> Bytes(StartingPosition(first, pos), nmemb * size)]
<1> DEFINE Step(g, n) ==
             IF n = 0 THEN [ok |-> TRUE, out |-> <<>>]
             ELSE LET before == g[n - 1]
                      next == ReadInternal(first, pos + (n - 1) * size, size)
                  IN  IF before.ok THEN [ok |-> next.ok, out |-> before.out \o next.out]
                      ELSE before
           Read(n) == [ok |-> TRUE, out |-> Bytes(StartingPosition(first, pos), n * size)]
           F == [n \in 0 .. nmemb |-> IF n = 0 THEN [ok |-> TRUE, out |-> <<>>] ELSE Read(n)]
<1>1. Fat16Read(first, pos, size, nmemb)
        = (CHOOSE g : g = [n \in 0 .. nmemb |-> Step(g, n)])[nmemb]
  BY DEF Fat16Read
<1> SUFFICES ASSUME nmemb # 0
             PROVE  Fat16Read(first, pos, size, nmemb) = Read(nmemb)
  OBVIOUS
<1>2. pos \in 0 .. ClusterSize - 1
  <2>1. nmemb * size >= 1
    OBVIOUS
  <2>2. nmemb * size \in Nat
    OBVIOUS
  <2> QED  BY <2>1, <2>2, Sizes
<1> DEFINE start == StartingPosition(first, pos)
<1>3. start \in Nat /\ start = ClusterToSector(first) * SectorSize + pos
  BY <1>2, Positions
<1>4. ASSUME NEW n \in 1 .. nmemb
      PROVE  /\ (n - 1) * size \in Nat /\ n * size = (n - 1) * size + size
             /\ ReadInternal(first, pos + (n - 1) * size, size)
                  = [ok |-> TRUE, out |-> Bytes(start + (n - 1) * size, size)]
  <2>1. (n - 1) * size \in Nat /\ n * size = (n - 1) * size + size /\ n * size \in Nat
    OBVIOUS
  <2>2. n * size <= nmemb * size
    OBVIOUS
  <2>3. nmemb * size \in Nat
    OBVIOUS
  <2>4. PICK before : before = (n - 1) * size
    OBVIOUS
  <2>5. /\ pos + before \in 0 .. ClusterSize - 1 /\ pos + before \in Nat
        /\ pos + before + size <= ClusterSize
    BY <2>1, <2>2, <2>3, <2>4, Sizes
  <2>6. ReadInternal(first, pos + before, size)
          = [ok |-> TRUE, out |-> Bytes(StartingPosition(first, pos + before), size)]
    BY <2>5, ReadInternalIs
  <2>7. StartingPosition(first, pos + before)
          = ClusterToSector(first) * SectorSize + (pos + before)
    BY <2>5, Positions
  <2>8. ClusterToSector(first) * SectorSize \in Int
    BY <1>3, Sizes DEF ClusterToSector
  <2>9. StartingPosition(first, pos + before) = start + before
    BY <1>3, <2>1, <2>4, <2>7, <2>8
  <2> QED  BY <2>1, <2>4, <2>6, <2>9
<1> HIDE DEF start
<1>5. \A n \in 0 .. nmemb : n # 0 => Read(n).ok /\ Read(n).out = Bytes(start, n * size)
  BY DEF start
<1>6. \A n \in 0 .. nmemb : Step(F, n) = F[n]
  <2> SUFFICES ASSUME NEW n \in 0 .. nmemb PROVE Step(F, n) = F[n]
    OBVIOUS
  <2>1. CASE n = 0
    BY <2>1
  <2>2. CASE n = 1
    <3>1. F[n - 1] = [ok |-> TRUE, out |-> <<>>] /\ F[n] = Read(n)
      BY <2>2
    <3>2. ReadInternal(first, pos + (n - 1) * size, size)
            = [ok |-> TRUE, out |-> Bytes(start + (n - 1) * size, size)]
      BY <1>4, <2>2
    <3>3. (n - 1) * size = 0 /\ n * size = size
      BY <2>2
    <3>4. <<>> \o Bytes(start, size) = Bytes(start, size)
      BY <1>3, BytesJoin
    <3>5. start + 0 = start
      BY <1>3
    <3>6. Step(F, n) = [ok |-> TRUE, out |-> Bytes(start, size)]
      <4>1. PICK next : next = ReadInternal(first, pos + (n - 1) * size, size)
        OBVIOUS
      <4> HIDE DEF F
      <4>2. Step(F, n) = IF F[n - 1].ok THEN [ok |-> next.ok, out |-> F[n - 1].out \o next.out]
                         ELSE F[n - 1]
        BY <2>2, <4>1
      <4>3. next = [ok |-> TRUE, out |-> Bytes(start, size)]
        BY <3>2, <3>3, <3>5, <4>1
      <4> HIDE DEF Step
      <4> QED  BY <3>1, <3>4, <4>2, <4>3
    <3> QED  BY <3>1, <3>3, <3>6 DEF start
  <2>3. CASE n > 1
    <3>1. n - 1 \in 0 .. nmemb /\ n - 1 # 0 /\ n \in 1 .. nmemb /\ n # 0
      BY <2>3
    <3>2. F[n - 1] = Read(n - 1) /\ F[n] = Read(n)
      BY <3>1
    <3>3. /\ (n - 1) * size \in Nat /\ n * size = (n - 1) * size + size
          /\ ReadInternal(first, pos + (n - 1) * size, size)
               = [ok |-> TRUE, out |-> Bytes(start + (n - 1) * size, size)]
      BY <1>4, <3>1
    <3>4. Bytes(start, (n - 1) * size) \o Bytes(start + (n - 1) * size, size)
            = Bytes(start, n * size)
      <4>1. PICK before \in Nat : before = (n - 1) * size
        BY <3>3
      <4>2. Bytes(start, before) \o Bytes(start + before, size) = Bytes(start, before + size)
        BY <1>3, BytesJoin
      <4> QED  BY <3>3, <4>1, <4>2
    <3>5. Read(n - 1).ok /\ Read(n - 1).out = Bytes(start, (n - 1) * size)
      BY <1>5, <3>1
    <3>6. Step(F, n) = [ok |-> TRUE, out |-> Bytes(start, n * size)]
      <4>1. PICK next : next = ReadInternal(first, pos + (n - 1) * size, size)
        OBVIOUS
      <4> HIDE DEF Read, F
      <4>2. Step(F, n) = IF F[n - 1].ok THEN [ok |-> next.ok, out |-> F[n - 1].out \o next.out]
                         ELSE F[n - 1]
        BY <3>1, <4>1
      <4>3. next = [ok |-> TRUE, out |-> Bytes(start + (n - 1) * size, size)]
        BY <3>3, <4>1
      <4> HIDE DEF Step
      <4> QED  BY <3>2, <3>4, <3>5, <4>2, <4>3
    <3> QED  BY <3>2, <3>6 DEF start
  <2> QED  BY <2>1, <2>2, <2>3
<1>7. \A g, h, n : g[n - 1] = h[n - 1] => Step(g, n) = Step(h, n)
  OBVIOUS
<1>8. \A g : Step(g, 0) = [ok |-> TRUE, out |-> <<>>]
  OBVIOUS
<1>9. F[0] = [ok |-> TRUE, out |-> <<>>] /\ F[nmemb] = Read(nmemb)
  OBVIOUS
<1>10. F = [n \in 0 .. nmemb |-> F[n]]
  OBVIOUS
<1> HIDE DEF Step, Read, F
<1>11. F = [n \in 0 .. nmemb |-> Step(F, n)]
  BY <1>6, <1>10
<1>12. PICK R : /\ R = [n \in 0 .. nmemb |-> Step(R, n)]
                /\ Fat16Read(first, pos, size, nmemb) = R[nmemb]
  BY <1>1, <1>11
<1>13. \A n \in 0 .. nmemb : R[n] = Step(R, n)
  BY <1>12, Zenon
<1> DEFINE bad == {n \in 0 .. nmemb : R[n] # F[n]}
<1>14. bad = {}
  <2> SUFFICES ASSUME bad # {} PROVE FALSE
    OBVIOUS
  <2>5. bad \in SUBSET Nat
    OBVIOUS
  <2>1. PICK n \in bad : \A y \in bad : n <= y
    BY <2>5, LeastElement
  <2>2. n \in 0 .. nmemb /\ R[n] # F[n]
    BY <2>1
  <2>3. n # 0
    BY <1>8, <1>9, <1>13, <2>2
  <2>4. R[n - 1] = F[n - 1]
    BY <2>1, <2>2, <2>3
  <2> QED  BY <1>6, <1>7, <1>13, <2>2, <2>4
<1>15. R[nmemb] = F[nmemb]
  BY <1>14
<1> QED  BY <1>9, <1>12, <1>15

\* The sectors of the root directory end where the data area begins.
LEMMA DataArea == DataSector = EndingSector
<1>1. PICK bytes \in Nat : bytes = RootDirEntries * ItemSize
  BY HeaderAssumption
<1>2. bytes % SectorSize = 0
  BY <1>1, DiskAssumption
<1>3. (bytes + SectorSize - 1) \div SectorSize = bytes \div SectorSize
  BY <1>2, Sizes
<1> QED  BY <1>1, <1>3 DEF DataSector, EndingSector

-----------------------------------------------------------------------------
(* Memory: a call gets structures that nobody has, or nothing. *)

MemoryOK(m) ==
  /\ m \in [heap : SUBSET (Nat \ {0}), left : Nat]
  /\ IsFiniteSet(m.heap)

LEMMA FreshIs ==
  ASSUME NEW h \in SUBSET Nat, IsFiniteSet(h)
  PROVE  Fresh(h) \in Nat \ {0} /\ Fresh(h) \notin h /\ Fresh(h) <= Cardinality(h) + 1
<1> DEFINE n == Cardinality(h)
           all == 1 .. n + 1
<1>1. n \in Nat
  BY FS_CardinalityType
<1>2. IsFiniteSet(all) /\ Cardinality(all) = n + 1
  BY <1>1, FS_Interval
<1>3. all \ h # {}
  <2> SUFFICES ASSUME all \subseteq h PROVE FALSE
    OBVIOUS
  <2>1. Cardinality(all) <= Cardinality(h)
    BY FS_Subset
  <2> QED  BY <1>1, <1>2, <2>1
<1>4. all \ h \in SUBSET Nat
  BY <1>1
<1>5. Min(all \ h) \in all \ h
  BY <1>3, <1>4, MinValue
<1>6. Fresh(h) = Min(all \ h)
  BY DEF Fresh
<1> QED  BY <1>1, <1>5, <1>6

LEMMA KzallocIs ==
  ASSUME NEW m, MemoryOK(m)
  PROVE  LET k == Kzalloc(m)
         IN  /\ MemoryOK(k.m) /\ k.ptr \in Nat /\ k.m.left <= m.left
             /\ k.ptr = 0 => k.m = m /\ m.left = 0
             /\ k.ptr # 0 => /\ k.ptr \notin m.heap /\ k.m.heap = m.heap \cup {k.ptr}
                            /\ m.left > 0
                            /\ k.ptr <= Cardinality(m.heap) + 1
                            /\ Cardinality(k.m.heap) = Cardinality(m.heap) + 1
             /\ Cardinality(m.heap) \in Nat
<1>1. m.heap \in SUBSET (Nat \ {0}) /\ m.left \in Nat /\ IsFiniteSet(m.heap)
  BY DEF MemoryOK
<1>2. /\ Fresh(m.heap) \in Nat \ {0} /\ Fresh(m.heap) \notin m.heap
      /\ Fresh(m.heap) <= Cardinality(m.heap) + 1
  BY <1>1, FreshIs
<1>3. /\ IsFiniteSet(m.heap \cup {Fresh(m.heap)}) /\ Cardinality(m.heap) \in Nat
      /\ Cardinality(m.heap \cup {Fresh(m.heap)}) = Cardinality(m.heap) + 1
  BY <1>1, <1>2, FS_AddElement, FS_CardinalityType
<1>4. CASE m.left = 0
  BY <1>3, <1>4 DEF Kzalloc, MemoryOK
<1>5. CASE m.left # 0
  <2>1. PICK p : p = Fresh(m.heap)
    OBVIOUS
  <2>2. PICK h : h = m.heap \cup {p}
    OBVIOUS
  <2>3. PICK after : after = [heap |-> h, left |-> m.left - 1]
    OBVIOUS
  <2>4. Kzalloc(m) = [m |-> after, ptr |-> p]
    BY <1>5, <2>1, <2>2, <2>3 DEF Kzalloc
  <2>5. /\ p \in Nat \ {0} /\ p \notin m.heap /\ p <= Cardinality(m.heap) + 1
        /\ IsFiniteSet(h) /\ Cardinality(h) = Cardinality(m.heap) + 1
        /\ h \in SUBSET (Nat \ {0})
    BY <1>1, <1>2, <1>3, <2>1, <2>2
  <2>6. /\ MemoryOK(after) /\ after.heap = h /\ after.left <= m.left /\ m.left > 0
    BY <1>1, <1>5, <2>3, <2>5 DEF MemoryOK
  <2> QED  BY <1>3, <2>2, <2>4, <2>5, <2>6
<1> QED  BY <1>4, <1>5

\* Memory of which some has been lost.
LEMMA LessMemory ==
  ASSUME NEW m, MemoryOK(m), NEW left \in 0 .. m.left
  PROVE  /\ MemoryOK([m EXCEPT !.left = left])
         /\ [m EXCEPT !.left = left].heap = m.heap
         /\ [m EXCEPT !.left = left].left = left
BY DEF MemoryOK

\* The result of a search: nothing, or an item with its structures, of which the
\* clone is only missing when there is no memory left.
Opening(m, r) ==
  /\ MemoryOK(r.m) /\ r.m.left <= m.left
  /\ r \in [m : {r.m}, entry : Nat, private : Nat, fat_item : Nat, clone : Nat]
  /\ r.entry = 0 => r.m.heap = m.heap
  /\ r.entry # 0 =>
       /\ r.entry \in DOMAIN item
       /\ r.fat_item # 0 /\ r.fat_item \notin m.heap
       /\ r.fat_item <= Cardinality(m.heap) + 1 /\ r.clone <= Cardinality(m.heap) + 2
       /\ r.clone = 0 => r.m.left = 0 /\ r.m.heap = m.heap \cup {r.fat_item}
       /\ r.clone # 0 => /\ r.clone \notin m.heap /\ r.clone # r.fat_item
                        /\ r.m.heap = m.heap \cup {r.fat_item, r.clone}

LEMMA NothingOpens ==
  ASSUME NEW m, MemoryOK(m)
  PROVE  Opening(m, Nothing(m)) /\ Nothing(m).entry = 0 /\ Nothing(m).m = m
BY DEF Opening, Nothing, MemoryOK

LEMMA NewFatItemIs ==
  ASSUME NEW m, MemoryOK(m), NEW i \in DOMAIN item \ {0}, i \in Nat
  PROVE  Opening(m, NewFatItem(m, i))
<1> DEFINE f == Kzalloc(m)
           loaded == IF item[i].attribute = Subdirectory /\ f.m.left >= 2 THEN Lost(f.m, 2) ELSE f.m
           copy == Kzalloc(loaded)
<1>1. /\ MemoryOK(f.m) /\ f.ptr \in Nat /\ f.m.left <= m.left
      /\ f.ptr = 0 => f.m = m /\ m.left = 0
      /\ f.ptr # 0 => f.ptr \notin m.heap /\ f.m.heap = m.heap \cup {f.ptr} /\ m.left > 0
      /\ f.ptr # 0 => /\ f.ptr <= Cardinality(m.heap) + 1
                      /\ Cardinality(f.m.heap) = Cardinality(m.heap) + 1
      /\ Cardinality(m.heap) \in Nat
  BY KzallocIs
<1>2. NewFatItem(m, i) = IF f.ptr = 0 THEN Nothing(m)
        ELSE [m |-> copy.m, entry |-> i, private |-> 0, fat_item |-> f.ptr, clone |-> copy.ptr]
  BY DEF NewFatItem
<1> HIDE DEF f
<1>3. MemoryOK(loaded) /\ loaded.heap = f.m.heap /\ loaded.left <= f.m.left
  BY <1>1 DEF Lost, MemoryOK
<1> HIDE DEF loaded
<1>4. /\ MemoryOK(copy.m) /\ copy.ptr \in Nat /\ copy.m.left <= loaded.left
      /\ copy.ptr = 0 => copy.m = loaded /\ loaded.left = 0
      /\ copy.ptr # 0 => copy.ptr \notin loaded.heap /\ copy.m.heap = loaded.heap \cup {copy.ptr}
      /\ copy.ptr # 0 => copy.ptr <= Cardinality(loaded.heap) + 1
  BY <1>3, KzallocIs
<1> HIDE DEF copy
<1>5. CASE f.ptr = 0
  BY <1>2, <1>5, NothingOpens
<1>6. CASE f.ptr # 0
  <2>1. /\ m.left \in Nat /\ f.m.left \in Nat /\ loaded.left \in Nat /\ copy.m.left \in Nat
    BY <1>1, <1>3, <1>4 DEF MemoryOK
  <2>2. copy.m.left <= m.left
    BY <1>1, <1>3, <1>4, <2>1
  <2>3. PICK r : r = [m |-> copy.m, entry |-> i, private |-> 0, fat_item |-> f.ptr, clone |-> copy.ptr]
    OBVIOUS
  <2>4. /\ r.m = copy.m /\ r.entry = i /\ r.fat_item = f.ptr /\ r.clone = copy.ptr
        /\ r \in [m : {r.m}, entry : Nat, private : Nat, fat_item : Nat, clone : Nat]
    BY <1>1, <1>4, <2>3
  <2>5. copy.ptr = 0 => copy.m.heap = m.heap \cup {f.ptr} /\ copy.m.left = 0
    BY <1>1, <1>3, <1>4, <1>6
  <2>6. copy.ptr # 0 => /\ copy.ptr \notin m.heap /\ copy.ptr # f.ptr
                        /\ copy.m.heap = m.heap \cup {f.ptr, copy.ptr}
    BY <1>1, <1>3, <1>4, <1>6
  <2>7. copy.ptr <= Cardinality(m.heap) + 2
    BY <1>1, <1>3, <1>4, <1>6
  <2>8. Opening(m, r)
    BY <1>1, <1>4, <1>6, <2>2, <2>4, <2>5, <2>6, <2>7 DEF Opening
  <2> QED  BY <1>2, <1>6, <2>3, <2>8
<1> QED  BY <1>5, <1>6

LEMMA TotalIs == item \in Seq(DirectoryItem) => Total \in 0 .. Len(item)
<1> SUFFICES ASSUME item \in Seq(DirectoryItem) PROVE Total \in 0 .. Len(item)
  OBVIOUS
<1> DEFINE live == {i \in DOMAIN item : Live(i)}
<1>1. DOMAIN item = 1 .. Len(item) /\ Len(item) \in Nat
  BY LenProperties
<1>2. IsFiniteSet(1 .. Len(item)) /\ Cardinality(1 .. Len(item)) = Len(item)
  BY <1>1, FS_Interval
<1>3. live \subseteq 1 .. Len(item)
  BY <1>1
<1> HIDE DEF live
<1>4. IsFiniteSet(live) /\ Cardinality(live) <= Len(item) /\ Cardinality(live) \in Nat
  BY <1>2, <1>3, FS_Subset, FS_CardinalityType
<1> QED  BY <1>1, <1>4 DEF Total, live

\* What has been found after one more item of the array.
FoundNext(m, name, before, n) ==
  IF HasName(n, name) THEN NewFatItem([m EXCEPT !.left = before.m.left], n) ELSE before

\* The search, item by item.
LEMMA FindItemExists ==
  ASSUME item \in Seq(DirectoryItem), NEW m, NEW name
  PROVE  \E G : /\ G[0] = Nothing(m)
                /\ \A n \in 1 .. Total : G[n] = FoundNext(m, name, G[n - 1], n)
                /\ FindItem(m, name) = G[Total]
<1> DEFINE total == Total
           Step(g, n) == IF n = 0 THEN Nothing(m) ELSE FoundNext(m, name, g[n - 1], n)
           bad == {k \in Nat : ~ \E g : g = [n \in 0 .. k |-> Step(g, n)]}
<1>1. FindItem(m, name) = (CHOOSE g : g = [n \in 0 .. total |-> Step(g, n)])[total]
  BY DEF FindItem, FoundNext
<1>2. \A g, h, n : n # 0 /\ g[n - 1] = h[n - 1] => Step(g, n) = Step(h, n)
  OBVIOUS
<1>3. \A g : Step(g, 0) = Nothing(m)
  OBVIOUS
<1>4. \A g, n : n # 0 => Step(g, n) = FoundNext(m, name, g[n - 1], n)
  OBVIOUS
<1>5. total \in Nat /\ \A n \in 1 .. total : n \in DOMAIN item
  BY TotalIs, LenProperties
<1> HIDE DEF Step, total
<1>6. bad = {}
  <2> SUFFICES ASSUME bad # {} PROVE FALSE
    OBVIOUS
  <2>1. PICK k \in bad : \A y \in bad : k <= y
    BY LeastElement
  <2>2. k \in Nat /\ ~ \E g : g = [n \in 0 .. k |-> Step(g, n)]
    BY <2>1
  <2>3. k # 0
    <3> SUFFICES ASSUME k = 0 PROVE FALSE
      OBVIOUS
    <3> DEFINE g == [n \in 0 .. 0 |-> Nothing(m)]
    <3>1. g = [n \in 0 .. 0 |-> Step(g, n)]
      BY <1>3
    <3> QED  BY <2>2, <3>1
  <2>4. k - 1 \in Nat /\ k - 1 \notin bad
    BY <2>1, <2>2, <2>3
  <2>5. PICK g : g = [n \in 0 .. k - 1 |-> Step(g, n)]
    BY <2>4
  <2> DEFINE h == [n \in 0 .. k |-> IF n = k THEN Step(g, k) ELSE g[n]]
  <2>6. \A n \in 0 .. k - 1 : h[n] = g[n]
    BY <2>2, <2>3
  <2>7. \A n \in 0 .. k : Step(h, n) = Step(g, n)
    BY <1>2, <1>3, <2>2, <2>6
  <2>8. h = [n \in 0 .. k |-> Step(h, n)]
    <3>1. \A n \in 0 .. k : h[n] = Step(g, n)
      BY <2>2, <2>5
    <3> QED  BY <2>7, <3>1
  <2> QED  BY <2>2, <2>8
<1>7. PICK G : /\ G = [n \in 0 .. total |-> Step(G, n)]
               /\ FindItem(m, name) = G[total]
  <2>1. \E g : g = [n \in 0 .. total |-> Step(g, n)]
    BY <1>5, <1>6
  <2> QED  BY <1>1, <2>1
<1>8. \A n \in 0 .. total : G[n] = Step(G, n)
  BY <1>7, Zenon
<1>9. /\ 0 \in 0 .. total /\ \A n \in 1 .. total : n \in 0 .. total /\ n # 0
  BY <1>5
<1>10. G[0] = Nothing(m) /\ \A n \in 1 .. total : G[n] = FoundNext(m, name, G[n - 1], n)
  BY <1>3, <1>4, <1>8, <1>9
<1> QED  BY <1>7, <1>10 DEF total

\* Each match takes memory that is lost with the next one.
LEMMA FindItemIs ==
  ASSUME item \in Seq(DirectoryItem), NEW m, MemoryOK(m), NEW name
  PROVE  Opening(m, FindItem(m, name))
<1> DEFINE total == Total
<1>5. total \in Nat /\ \A n \in 1 .. total : n \in DOMAIN item
  BY TotalIs, LenProperties
<1>7. PICK G : /\ G[0] = Nothing(m)
               /\ \A n \in 1 .. total : G[n] = FoundNext(m, name, G[n - 1], n)
               /\ FindItem(m, name) = G[total]
  BY FindItemExists
<1> HIDE DEF total
<1> DEFINE wrong == {n \in 0 .. total : ~ Opening(m, G[n])}
<1>9. wrong = {}
  <2> SUFFICES ASSUME wrong # {} PROVE FALSE
    OBVIOUS
  <2>1. wrong \in SUBSET Nat
    BY <1>5
  <2>2. PICK n \in wrong : \A y \in wrong : n <= y
    BY <2>1, LeastElement
  <2>3. n \in 0 .. total /\ ~ Opening(m, G[n])
    BY <2>2
  <2>4. n # 0
    BY <1>7, <2>3, NothingOpens
  <2>5. n \in 1 .. total /\ n - 1 \in 0 .. total /\ n - 1 \notin wrong
    BY <1>5, <2>2, <2>3, <2>4
  <2>6. Opening(m, G[n - 1])
    BY <2>5
  <2>7. CASE ~ HasName(n, name)
    BY <1>7, <2>3, <2>5, <2>6, <2>7 DEF FoundNext
  <2>8. CASE HasName(n, name)
    <3>1. PICK left : left = G[n - 1].m.left
      OBVIOUS
    <3>2. left \in 0 .. m.left /\ m.left \in Nat
      BY <2>6, <3>1 DEF Opening, MemoryOK
    <3>3. PICK less : less = [m EXCEPT !.left = left]
      OBVIOUS
    <3>4. MemoryOK(less) /\ less.heap = m.heap /\ less.left = left
      BY <3>2, <3>3, LessMemory
    <3>5. n \in DOMAIN item \ {0} /\ n \in Nat
      BY <1>5, <2>4, <2>5
    <3>6. Opening(less, NewFatItem(less, n))
      BY <3>4, <3>5, NewFatItemIs
    <3>7. G[n] = NewFatItem(less, n)
      BY <1>7, <2>5, <2>8, <3>1, <3>3 DEF FoundNext
    <3>8. Opening(m, G[n])
      <4>1. PICK r : r = G[n]
        OBVIOUS
      <4>2. Opening(less, r)
        BY <3>6, <3>7, <4>1
      <4>3. r.m.left <= m.left
        BY <3>2, <3>4, <4>2 DEF Opening, MemoryOK
      <4>4. Opening(m, r)
        BY <3>4, <4>2, <4>3 DEF Opening
      <4> QED  BY <4>1, <4>4
    <3> QED  BY <2>3, <3>8
  <2> QED  BY <2>7, <2>8
<1> QED  BY <1>5, <1>7, <1>9

\* An item that was found on top of a heap: its structures are new, and if the
\* clone is missing, no memory is left.
OpenedOn(h, r) ==
  /\ MemoryOK(r.m) /\ r.m.left \in Nat
  /\ r.entry \in Nat /\ r.entry \in DOMAIN item
  /\ r.private \in Nat /\ r.fat_item \in Nat /\ r.clone \in Nat
  /\ {r.private, r.fat_item} \subseteq r.m.heap \ h /\ r.private # r.fat_item
  /\ h \subseteq r.m.heap /\ Cardinality(h) \in Nat
  /\ \A s \in {r.private, r.fat_item, r.clone} : s <= Cardinality(h) + 3
  /\ r.clone = 0 => r.m.left = 0
  /\ r.clone # 0 => /\ r.clone \in r.m.heap \ h /\ r.clone \notin {r.private, r.fat_item}
                    /\ r.m.heap = h \cup {r.private, r.fat_item, r.clone}
                    /\ Cardinality(r.m.heap) = Cardinality(h) + 3

\* fat16_open adds the structure of its descriptor.
LEMMA Fat16OpenIs ==
  ASSUME item \in Seq(DirectoryItem), NEW m, MemoryOK(m), NEW parts,
         NEW r, r = Fat16Open(m, parts), r.entry # 0
  PROVE  OpenedOn(m.heap, r)
<1> DEFINE d == Kzalloc(m)
           found == DirectoryEntry(d.m, parts)
<1>1. /\ MemoryOK(d.m) /\ d.ptr \in Nat
      /\ d.ptr # 0 => d.ptr \notin m.heap /\ d.m.heap = m.heap \cup {d.ptr}
      /\ d.ptr # 0 => /\ d.ptr <= Cardinality(m.heap) + 1
                      /\ Cardinality(d.m.heap) = Cardinality(m.heap) + 1
      /\ Cardinality(m.heap) \in Nat
  BY KzallocIs
<1>2. r = IF d.ptr = 0 \/ found.entry = 0 THEN Nothing(m) ELSE [found EXCEPT !.private = d.ptr]
  BY DEF Fat16Open
<1> HIDE DEF d
<1>3. Opening(d.m, found)
  BY <1>1, FindItemIs, NothingOpens DEF DirectoryEntry
<1> HIDE DEF found
<1>4. Nothing(m).entry = 0
  BY DEF Nothing
<1>5. d.ptr # 0 /\ found.entry # 0 /\ r = [found EXCEPT !.private = d.ptr]
  BY <1>2, <1>4
<1>6. /\ r.m = found.m /\ r.entry = found.entry /\ r.private = d.ptr
      /\ r.fat_item = found.fat_item /\ r.clone = found.clone
      /\ found.clone \in Nat /\ found.fat_item \in Nat /\ found.entry \in Nat
  BY <1>3, <1>5 DEF Opening
<1>7. r.clone # 0 => Cardinality(r.m.heap) = Cardinality(m.heap) + 3
  <2> SUFFICES ASSUME r.clone # 0 PROVE Cardinality(r.m.heap) = Cardinality(m.heap) + 3
    OBVIOUS
  <2>1. /\ r.m.heap = (d.m.heap \cup {r.fat_item}) \cup {r.clone}
        /\ r.fat_item \notin d.m.heap /\ r.clone \notin d.m.heap \cup {r.fat_item}
    BY <1>3, <1>5, <1>6 DEF Opening
  <2>2. IsFiniteSet(d.m.heap)
    BY <1>1 DEF MemoryOK
  <2>3. PICK one : one = d.m.heap \cup {r.fat_item}
    OBVIOUS
  <2>4. IsFiniteSet(one) /\ Cardinality(one) = Cardinality(d.m.heap) + 1
    BY <2>1, <2>2, <2>3, FS_AddElement
  <2>5. Cardinality(r.m.heap) = Cardinality(one) + 1
    BY <2>1, <2>3, <2>4, FS_AddElement
  <2> QED  BY <1>1, <1>5, <2>4, <2>5
<1>8. \A s \in {r.private, r.fat_item, r.clone} : s <= Cardinality(m.heap) + 3
  BY <1>1, <1>3, <1>5, <1>6 DEF Opening
<1>9. r.clone # 0 => r.m.heap = m.heap \cup {r.private, r.fat_item, r.clone}
  BY <1>1, <1>3, <1>5, <1>6 DEF Opening
<1> QED  BY <1>1, <1>3, <1>5, <1>6, <1>7, <1>8, <1>9 DEF Opening, MemoryOK, OpenedOn

-----------------------------------------------------------------------------
(* Paths. *)

\* No prover knows that a string is in STRING.
Character == STRING \cup {Slash}
Text == Seq(Character)

LEMMA OneCharacter ==
  ASSUME NEW S, NEW x \in S
  PROVE  <<x>> \in Seq(S) /\ Len(<<x>>) = 1
OBVIOUS

LEMMA TextJoin ==
  ASSUME NEW s \in Text, NEW t \in Text
  PROVE  /\ s \o t \in Text /\ Len(s \o t) = Len(s) + Len(t)
         /\ Len(s) \in Nat /\ Len(t) \in Nat
BY ConcatProperties, LenProperties DEF Text

LEMMA TextAssociative ==
  ASSUME NEW s \in Text, NEW t \in Text, NEW u \in Text
  PROVE  (s \o t) \o u = s \o (t \o u)
BY ConcatAssociative DEF Text

LEMMA SlashIsText == <<Slash>> \in Text /\ Len(<<Slash>>) = 1 /\ <<>> \in Text
<1>1. Slash \in Character
  BY DEF Character
<1> QED  BY <1>1, OneCharacter DEF Text

LEMMA PathPartIs ==
  ASSUME NEW s \in Text
  PROVE  LET next == PathPart(s)
         IN  /\ next.part \in Text /\ next.rest \in Text /\ ~Contains(next.part, Slash)
             /\ \/ next.part = s /\ next.rest = <<>>
                \/ s = (next.part \o <<Slash>>) \o next.rest
<1> DEFINE all == {i \in 1 .. Len(s) : s[i] = Slash}
           slash == SelectInSeq(s, LAMBDA c : c = Slash)
<1>1. slash = IF all # {} THEN Min(all) ELSE 0
  BY DEF SelectInSeq
<1>2. Len(s) \in Nat /\ s \in Seq(Character) /\ \A i \in 1 .. Len(s) : s[i] \in Character
  BY ElementOfSeq DEF Text
<1>3. PathPart(s) = IF slash = 0 THEN [part |-> s, rest |-> <<>>]
                    ELSE [part |-> SubSeq(s, 1, slash - 1), rest |-> SubSeq(s, slash + 1, Len(s))]
  BY DEF PathPart
<1> HIDE DEF slash
<1>4. CASE all = {}
  <2>1. slash = 0
    BY <1>1, <1>4
  <2>2. PathPart(s) = [part |-> s, rest |-> <<>>]
    BY <1>3, <2>1
  <2>3. ~Contains(s, Slash)
    BY <1>4 DEF Contains
  <2>4. <<>> \in Text
    BY DEF Text
  <2> QED  BY <2>2, <2>3, <2>4
<1>5. CASE all # {}
  <2>1. all \in SUBSET Nat
    BY <1>2
  <2>2. slash \in all /\ \A i \in all : slash <= i
    BY <1>1, <1>5, <2>1, MinValue
  <2>3. slash \in 1 .. Len(s) /\ s[slash] = Slash /\ \A i \in 1 .. slash - 1 : s[i] # Slash
    BY <1>2, <2>2
  <2> HIDE DEF all
  <2>4. PICK p : p = SubSeq(s, 1, slash - 1)
    OBVIOUS
  <2>5. PICK r : r = SubSeq(s, slash + 1, Len(s))
    OBVIOUS
  <2>6. PathPart(s).part = p /\ PathPart(s).rest = r
    <3>1. slash # 0
      BY <2>3
    <3>2. PathPart(s) = [part |-> p, rest |-> r]
      BY <1>3, <2>4, <2>5, <3>1, Zenon
    <3> QED  BY <3>2
  <2>7. \A i \in 1 .. slash - 1 : s[i] \in Character
    BY <1>2, <2>3
  <2>8. /\ p \in Seq(Character) /\ \A i \in 1 .. slash - 1 : p[i] = s[i]
        /\ Len(p) = slash - 1
    <3>1. slash - 1 \in Int /\ 1 \in Int
      BY <2>3
    <3>2. /\ p \in Seq(Character) /\ Len(p) = IF 1 <= slash - 1 THEN slash - 1 - 1 + 1 ELSE 0
          /\ \A i \in 1 .. slash - 1 - 1 + 1 : p[i] = s[1 + i - 1]
      BY <2>4, <2>7, <3>1, SubSeqProperties
    <3>3. slash - 1 - 1 + 1 = slash - 1 /\ \A i \in Int : 1 + i - 1 = i
      BY <2>3
    <3> QED  BY <2>3, <3>2, <3>3
  <2>9. r \in Seq(Character)
    <3>1. \A i \in slash + 1 .. Len(s) : s[i] \in Character
      BY <1>2, <2>3
    <3>2. slash + 1 \in Int /\ Len(s) \in Int
      BY <1>2, <2>3
    <3> QED  BY <2>5, <3>1, <3>2, SubSeqProperties
  <2>10. ~Contains(p, Slash)
    BY <2>3, <2>8 DEF Contains
  <2>11. s = (p \o <<Slash>>) \o r
    <3>1. SubSeq(s, 1, slash) = p \o <<Slash>>
      <4>1. SubSeq(s, 1, slash) = SubSeq(s, 1, slash - 1) \o <<s[slash]>>
        BY <1>2, <2>3, SubSeqRecursiveSecond
      <4> QED  BY <2>3, <2>4, <4>1
    <3>2. SubSeq(s, 1, slash) \o SubSeq(s, slash + 1, Len(s)) = SubSeq(s, 1, Len(s))
      BY <1>2, <2>3, ConcatAdjacentSubSeq
    <3>3. SubSeq(s, 1, Len(s)) = s
      BY <1>2, SubSeqFull
    <3> QED  BY <2>5, <3>1, <3>2, <3>3
  <2> QED  BY <2>6, <2>8, <2>9, <2>10, <2>11 DEF Text
<1> QED  BY <1>4, <1>5

\* The parts with a slash behind each.
Joins(w, parts) ==
  w = [n \in 0 .. Len(parts) |-> IF n = 0 THEN <<>> ELSE w[n - 1] \o parts[n] \o <<Slash>>]

LEMMA JoinsOnce ==
  ASSUME NEW parts \in Seq(Text), NEW v, NEW w, Joins(v, parts), Joins(w, parts)
  PROVE  v = w
<1> DEFINE bad == {n \in 0 .. Len(parts) : v[n] # w[n]}
           Next1(f, n) == IF n = 0 THEN <<>> ELSE f[n - 1] \o parts[n] \o <<Slash>>
<1>1. v = [n \in 0 .. Len(parts) |-> Next1(v, n)] /\ w = [n \in 0 .. Len(parts) |-> Next1(w, n)]
  BY DEF Joins
<1>2. \A n \in 0 .. Len(parts) : v[n] = Next1(v, n) /\ w[n] = Next1(w, n)
  <2> HIDE DEF Next1
  <2> QED  BY <1>1
<1>3. bad = {}
  <2> SUFFICES ASSUME bad # {} PROVE FALSE
    OBVIOUS
  <2>1. Len(parts) \in Nat
    BY LenProperties
  <2>2. bad \in SUBSET Nat
    BY <2>1
  <2>3. PICK n \in bad : \A y \in bad : n <= y
    BY <2>2, LeastElement
  <2>4. n \in 0 .. Len(parts) /\ v[n] # w[n]
    BY <2>3
  <2>5. n # 0
    BY <1>2, <2>4
  <2>6. v[n - 1] = w[n - 1]
    BY <2>1, <2>3, <2>4, <2>5
  <2> QED  BY <1>2, <2>4, <2>6
<1>4. \A n \in 0 .. Len(parts) : v[n] = w[n]
  BY <1>3
<1> HIDE DEF Next1
<1>5. \A n \in 0 .. Len(parts) : Next1(v, n) = Next1(w, n)
  BY <1>2, <1>4
<1> QED  BY <1>1, <1>5

\* One more part.
LEMMA JoinsAppend ==
  ASSUME NEW parts \in Seq(Text), NEW w, Joins(w, parts), NEW p \in Text
  PROVE  \E v : /\ Joins(v, Append(parts, p))
                /\ v[Len(parts) + 1] = w[Len(parts)] \o p \o <<Slash>>
<1> DEFINE k == Len(parts)
           more == Append(parts, p)
           new == w[k] \o p \o <<Slash>>
           v == [n \in 0 .. k + 1 |-> IF n = k + 1 THEN new ELSE w[n]]
<1>1. /\ k \in Nat /\ Len(more) = k + 1 /\ more[k + 1] = p
      /\ \A i \in 1 .. k : more[i] = parts[i]
  BY LenProperties, AppendProperties
<1> HIDE DEF more, k
<1>2. \A n \in 0 .. k : w[n] = IF n = 0 THEN <<>> ELSE w[n - 1] \o parts[n] \o <<Slash>>
  BY DEF Joins, k
<1> HIDE DEF new
<1>3. v[k + 1] = new /\ \A n \in 0 .. k : v[n] = w[n]
  BY <1>1
<1>4. \A n \in 0 .. k + 1 : v[n] = IF n = 0 THEN <<>> ELSE v[n - 1] \o more[n] \o <<Slash>>
  <2> SUFFICES ASSUME NEW n \in 0 .. k + 1
               PROVE  v[n] = IF n = 0 THEN <<>> ELSE v[n - 1] \o more[n] \o <<Slash>>
    OBVIOUS
  <2> HIDE DEF v
  <2>1. CASE n = k + 1
    <3>1. n - 1 = k /\ k \in 0 .. k /\ n # 0
      BY <1>1, <2>1
    <3>2. v[n - 1] = w[k] /\ v[n] = new /\ more[n] = p
      BY <1>1, <1>3, <2>1, <3>1
    <3> QED  BY <3>1, <3>2 DEF new
  <2>2. CASE n # k + 1
    <3>1. n \in 0 .. k /\ (n # 0 => n - 1 \in 0 .. k /\ n \in 1 .. k)
      BY <1>1, <2>2
    <3> QED  BY <1>1, <1>2, <1>3, <3>1
  <2> QED  BY <2>1, <2>2
<1>5. v = [n \in 0 .. k + 1 |-> v[n]]
  OBVIOUS
<1> HIDE DEF v
<1>6. v = [n \in 0 .. k + 1 |-> IF n = 0 THEN <<>> ELSE v[n - 1] \o more[n] \o <<Slash>>]
  BY <1>4, <1>5
<1> QED  BY <1>1, <1>3, <1>6 DEF Joins, more, k, new

\* What has been parsed of s: the parts, and behind them the rest; only the last
\* part can be without a slash.
Parsed(s, parts, rest) ==
  /\ parts \in Seq(Text) /\ rest \in Text
  /\ \A i \in DOMAIN parts : parts[i] # <<>> /\ ~Contains(parts[i], Slash)
  /\ \E w, whole :
       /\ Joins(w, parts) /\ whole = w[Len(parts)] /\ whole \in Text
       /\ whole \o rest = s \/ (rest = <<>> /\ whole = s \o <<Slash>>)

LEMMA ParsedNothing ==
  ASSUME NEW s \in Text
  PROVE  Parsed(s, <<>>, s)
<1> DEFINE w == [n \in 0 .. 0 |-> <<>>]
<1>1. <<>> \in Seq(Text) /\ <<>> \in Text /\ Len(<<>>) = 0 /\ DOMAIN <<>> = {}
  BY DEF Text
<1>2. Joins(w, <<>>) /\ w[0] = <<>>
  BY DEF Joins
<1>3. <<>> \o s = s
  BY ConcatEmptySeq DEF Text
<1> HIDE DEF w
<1> QED  BY <1>1, <1>2, <1>3 DEF Parsed

LEMMA ParsedMore ==
  ASSUME NEW s \in Text, NEW parts, NEW rest, Parsed(s, parts, rest),
         NEW p, p = PathPart(rest).part, p # <<>>,
         NEW r, r = PathPart(rest).rest
  PROVE  Parsed(s, Append(parts, p), r) /\ Len(r) < Len(rest)
<1>1. /\ parts \in Seq(Text) /\ rest \in Text
      /\ \A i \in DOMAIN parts : parts[i] # <<>> /\ ~Contains(parts[i], Slash)
  BY DEF Parsed
<1>2. PICK w, whole :
        /\ Joins(w, parts) /\ whole = w[Len(parts)] /\ whole \in Text
        /\ whole \o rest = s \/ (rest = <<>> /\ whole = s \o <<Slash>>)
  BY DEF Parsed
<1>3. /\ p \in Text /\ r \in Text /\ ~Contains(p, Slash)
      /\ (p = rest /\ r = <<>>) \/ rest = (p \o <<Slash>>) \o r
  BY <1>1, PathPartIs
<1>4. PICK ps : ps = p \o <<Slash>>
  OBVIOUS
<1>5. /\ ps \in Text /\ Len(ps) = Len(p) + 1
      /\ Len(p) \in Nat /\ Len(r) \in Nat /\ Len(rest) \in Nat
  BY <1>1, <1>3, <1>4, SlashIsText, TextJoin
<1>6. (p = rest /\ r = <<>>) \/ rest = ps \o r
  BY <1>3, <1>4, Zenon
<1>7. rest # <<>> /\ Len(r) < Len(rest)
  <2>1. Len(<<>>) = 0
    OBVIOUS
  <2>2. CASE p = rest /\ r = <<>>
    <3>1. Len(rest) # 0
      BY <1>1, <2>2, EmptySeq DEF Text
    <3> QED  BY <1>5, <2>1, <2>2, <3>1
  <2>3. CASE rest = ps \o r
    <3>1. Len(ps \o r) = Len(ps) + Len(r)
      BY <1>3, <1>5, TextJoin
    <3>2. Len(rest) = Len(p) + 1 + Len(r)
      BY <1>5, <2>3, <3>1
    <3>3. \A a, b \in Nat : a + 1 + b # 0 /\ b < a + 1 + b
      OBVIOUS
    <3>4. Len(rest) # 0 /\ Len(r) < Len(rest)
      BY <1>5, <3>2, <3>3, Zenon
    <3> QED  BY <2>1, <3>4, Zenon
  <2> QED  BY <1>6, <2>2, <2>3
<1>8. whole \o rest = s
  BY <1>2, <1>7
<1>9. PICK v : /\ Joins(v, Append(parts, p))
               /\ v[Len(parts) + 1] = w[Len(parts)] \o p \o <<Slash>>
  BY <1>1, <1>2, <1>3, JoinsAppend
<1>10. PICK all : all = (whole \o p) \o <<Slash>>
  OBVIOUS
<1>11. all = v[Len(parts) + 1]
  BY <1>2, <1>9, <1>10
<1>12. all = whole \o ps /\ all \in Text
  <2>1. all = whole \o ps
    BY <1>2, <1>3, <1>4, <1>10, SlashIsText, TextAssociative
  <2> QED  BY <1>2, <1>5, <2>1, TextJoin
<1>13. /\ Append(parts, p) \in Seq(Text) /\ Len(Append(parts, p)) = Len(parts) + 1
       /\ \A i \in DOMAIN Append(parts, p) :
            Append(parts, p)[i] # <<>> /\ ~Contains(Append(parts, p)[i], Slash)
  <2>1. /\ Append(parts, p) \in Seq(Text) /\ Len(Append(parts, p)) = Len(parts) + 1
        /\ \A i \in 1 .. Len(parts) : Append(parts, p)[i] = parts[i]
        /\ Append(parts, p)[Len(parts) + 1] = p
    BY <1>1, <1>3, AppendProperties
  <2>2. /\ DOMAIN parts = 1 .. Len(parts) /\ Len(parts) \in Nat
        /\ DOMAIN Append(parts, p) = 1 .. Len(parts) + 1
    BY <1>1, <2>1, LenProperties
  <2>3. ASSUME NEW i \in DOMAIN Append(parts, p)
        PROVE  Append(parts, p)[i] # <<>> /\ ~Contains(Append(parts, p)[i], Slash)
    <3>1. CASE i = Len(parts) + 1
      BY <1>3, <2>1, <3>1
    <3>2. CASE i # Len(parts) + 1
      <4>1. i \in 1 .. Len(parts) /\ i \in DOMAIN parts
        BY <2>2, <2>3, <3>2
      <4>2. Append(parts, p)[i] = parts[i]
        BY <2>1, <4>1
      <4> QED  BY <1>1, <4>1, <4>2
    <3> QED  BY <3>1, <3>2
  <2> QED  BY <2>1, <2>3
<1>14. all \o r = s \/ (r = <<>> /\ all = s \o <<Slash>>)
  <2>1. CASE p = rest /\ r = <<>>
    BY <1>8, <1>10, <2>1
  <2>2. CASE rest = ps \o r
    <3>1. (whole \o ps) \o r = whole \o (ps \o r)
      BY <1>2, <1>3, <1>5, TextAssociative
    <3> QED  BY <1>8, <1>12, <2>2, <3>1, Zenon
  <2> QED  BY <1>6, <2>1, <2>2
<1> QED  BY <1>3, <1>7, <1>9, <1>11, <1>12, <1>13, <1>14 DEF Parsed

\* What has been parsed after one more call.
ParsedOnce(before) ==
  LET next == PathPart(before.rest)
  IN  IF next.part = <<>> THEN before
      ELSE [parts |-> Append(before.parts, next.part), rest |-> next.rest]

\* The loop, call by call.
LEMMA PathPartsExist ==
  ASSUME NEW s \in Text
  PROVE  \E G : /\ G[0] = [parts |-> <<>>, rest |-> s]
                /\ \A n \in 1 .. Len(s) : G[n] = ParsedOnce(G[n - 1])
                /\ PathParts(s) = G[Len(s)].parts
<1> DEFINE Step(g, n) ==
             IF n = 0 THEN [parts |-> <<>>, rest |-> s] ELSE ParsedOnce(g[n - 1])
           length == Len(s)
           bad == {k \in Nat : ~ \E g : g = [n \in 0 .. k |-> Step(g, n)]}
<1>1. PathParts(s) = (CHOOSE g : g = [n \in 0 .. length |-> Step(g, n)])[length].parts
  BY DEF PathParts, ParsedOnce
<1>2. \A g, h, n : n # 0 /\ g[n - 1] = h[n - 1] => Step(g, n) = Step(h, n)
  OBVIOUS
<1>3. \A g : Step(g, 0) = [parts |-> <<>>, rest |-> s]
  OBVIOUS
<1>4. \A g, n : n # 0 => Step(g, n) = ParsedOnce(g[n - 1])
  OBVIOUS
<1>5. length \in Nat
  BY LenProperties DEF Text
<1> HIDE DEF Step, length
<1>6. bad = {}
  <2> SUFFICES ASSUME bad # {} PROVE FALSE
    OBVIOUS
  <2>1. PICK k \in bad : \A y \in bad : k <= y
    BY LeastElement
  <2>2. k \in Nat /\ ~ \E g : g = [n \in 0 .. k |-> Step(g, n)]
    BY <2>1
  <2>3. k # 0
    <3> SUFFICES ASSUME k = 0 PROVE FALSE
      OBVIOUS
    <3> DEFINE g == [n \in 0 .. 0 |-> [parts |-> <<>>, rest |-> s]]
    <3>1. g = [n \in 0 .. 0 |-> Step(g, n)]
      BY <1>3
    <3> QED  BY <2>2, <3>1
  <2>4. k - 1 \in Nat /\ k - 1 \notin bad
    BY <2>1, <2>2, <2>3
  <2>5. PICK g : g = [n \in 0 .. k - 1 |-> Step(g, n)]
    BY <2>4
  <2> DEFINE h == [n \in 0 .. k |-> IF n = k THEN Step(g, k) ELSE g[n]]
  <2>6. \A n \in 0 .. k - 1 : h[n] = g[n]
    BY <2>2, <2>3
  <2>7. \A n \in 0 .. k : Step(h, n) = Step(g, n)
    BY <1>2, <1>3, <2>2, <2>6
  <2>8. h = [n \in 0 .. k |-> Step(h, n)]
    <3>1. \A n \in 0 .. k : h[n] = Step(g, n)
      BY <2>2, <2>5
    <3> QED  BY <2>7, <3>1
  <2> QED  BY <2>2, <2>8
<1>7. PICK G : /\ G = [n \in 0 .. length |-> Step(G, n)]
               /\ PathParts(s) = G[length].parts
  <2>1. \E g : g = [n \in 0 .. length |-> Step(g, n)]
    BY <1>5, <1>6
  <2> QED  BY <1>1, <2>1
<1>8. \A n \in 0 .. length : G[n] = Step(G, n)
  BY <1>7, Zenon
<1>9. /\ 0 \in 0 .. length /\ \A n \in 1 .. length : n \in 0 .. length /\ n # 0
  BY <1>5
<1>10. /\ G[0] = [parts |-> <<>>, rest |-> s]
       /\ \A n \in 1 .. length : G[n] = ParsedOnce(G[n - 1])
  BY <1>3, <1>4, <1>8, <1>9
<1> QED  BY <1>7, <1>10 DEF length

\* The loop ends because every part takes characters from the rest, so that as
\* many calls as there are characters find all of them.
LEMMA PathPartsIs ==
  ASSUME NEW s \in Text
  PROVE  \E rest \in Text : Parsed(s, PathParts(s), rest) /\ PathPart(rest).part = <<>>
<1> DEFINE length == Len(s)
<1>5. length \in Nat
  BY LenProperties DEF Text
<1>7. PICK G : /\ G[0] = [parts |-> <<>>, rest |-> s]
               /\ \A n \in 1 .. length : G[n] = ParsedOnce(G[n - 1])
               /\ PathParts(s) = G[length].parts
  BY PathPartsExist
<1> HIDE DEF length
<1> DEFINE Good(n, parts, rest) ==
             /\ Parsed(s, parts, rest)
             /\ PathPart(rest).part = <<>> \/ Len(rest) + n <= length
           wrong == {n \in 0 .. length : ~ Good(n, G[n].parts, G[n].rest)}
<1>9. wrong = {}
  <2> SUFFICES ASSUME wrong # {} PROVE FALSE
    OBVIOUS
  <2>1. wrong \in SUBSET Nat
    BY <1>5
  <2>2. PICK n \in wrong : \A y \in wrong : n <= y
    BY <2>1, LeastElement
  <2>3. n \in 0 .. length /\ ~ Good(n, G[n].parts, G[n].rest)
    BY <2>2
  <2>4. n # 0
    <3> SUFFICES ASSUME n = 0 PROVE FALSE
      OBVIOUS
    <3>1. G[0].parts = <<>> /\ G[0].rest = s
      BY <1>7
    <3>2. Good(0, <<>>, s)
      BY <1>5, ParsedNothing DEF length
    <3> QED  BY <2>3, <3>1, <3>2
  <2>5. n \in 1 .. length /\ n - 1 \in 0 .. length /\ n - 1 \notin wrong
    BY <1>5, <2>2, <2>3, <2>4
  <2>6. PICK before : before = G[n - 1]
    OBVIOUS
  <2>7. PICK next : next = PathPart(before.rest)
    OBVIOUS
  <2>8. Good(n - 1, before.parts, before.rest)
    BY <2>5, <2>6
  <2>9. G[n] = IF next.part = <<>> THEN before
               ELSE [parts |-> Append(before.parts, next.part), rest |-> next.rest]
    BY <1>7, <2>5, <2>6, <2>7 DEF ParsedOnce
  <2>10. CASE next.part = <<>>
    <3>1. G[n] = before
      BY <2>9, <2>10
    <3> QED  BY <2>3, <2>7, <2>8, <2>10, <3>1
  <2>11. CASE next.part # <<>>
    <3>1. /\ G[n].parts = Append(before.parts, next.part) /\ G[n].rest = next.rest
      BY <2>9, <2>11
    <3>2. /\ Parsed(s, Append(before.parts, next.part), next.rest)
          /\ Len(next.rest) < Len(before.rest)
      BY <2>7, <2>8, <2>11, ParsedMore
    <3>3. Len(before.rest) + (n - 1) <= length
      BY <2>7, <2>8, <2>11
    <3>4. Len(next.rest) \in Nat /\ Len(before.rest) \in Nat
      <4>1. next.rest \in Text /\ before.rest \in Text
        BY <2>8, <3>2 DEF Parsed
      <4> QED  BY <4>1, TextJoin
    <3>5. Len(next.rest) + n <= length
      BY <1>5, <2>5, <3>2, <3>3, <3>4
    <3> QED  BY <2>3, <3>1, <3>2, <3>5
  <2> QED  BY <2>10, <2>11
<1>10. PICK parts, rest : parts = G[length].parts /\ rest = G[length].rest
  OBVIOUS
<1>11. length \in 0 .. length /\ length \notin wrong
  BY <1>5, <1>9
<1>12. Good(length, parts, rest)
  BY <1>10, <1>11
<1>13. rest \in Text
  BY <1>12 DEF Parsed
<1>14. PathPart(rest).part = <<>>
  <2> SUFFICES ASSUME Len(rest) + length <= length PROVE PathPart(rest).part = <<>>
    BY <1>12
  <2>1. rest = <<>>
    <3>1. Len(rest) = 0
      BY <1>5, <1>13, TextJoin
    <3> QED  BY <1>13, <3>1, EmptySeq DEF Text
  <2>2. Len(PathPart(rest).part) = 0
    <3>1. PICK next : next = PathPart(rest)
      OBVIOUS
    <3>2. PICK ps : ps = next.part \o <<Slash>>
      OBVIOUS
    <3>3. /\ next.part \in Text /\ next.rest \in Text
          /\ next.part = rest \/ rest = ps \o next.rest
      BY <1>13, <3>1, <3>2, PathPartIs, Zenon
    <3>4. ps \in Text /\ Len(ps) = Len(next.part) + 1 /\ Len(next.part) \in Nat
      BY <3>2, <3>3, SlashIsText, TextJoin
    <3>5. Len(ps \o next.rest) = Len(ps) + Len(next.rest) /\ Len(next.rest) \in Nat
      BY <3>3, <3>4, TextJoin
    <3>6. Len(rest) = 0
      BY <2>1
    <3>7. \A a, b \in Nat : a + 1 + b # 0
      OBVIOUS
    <3>8. Len(rest) # Len(ps \o next.rest)
      BY <3>4, <3>5, <3>6, <3>7, Zenon
    <3> QED  BY <3>1, <3>3, <3>6, <3>8, Zenon
  <2>3. PathPart(rest).part \in Text
    BY <1>13, PathPartIs
  <2> QED  BY <2>2, <2>3, EmptySeq DEF Text
<1> QED  BY <1>7, <1>10, <1>12, <1>13, <1>14

LEMMA PrefixOfJoin ==
  ASSUME NEW s \in Text, NEW t \in Text
  PROVE  IsPrefix(s, s \o t)
<1> DEFINE n == Len(s)
<1>1. PICK whole : whole = s \o t
  OBVIOUS
<1>2. /\ whole \in Text /\ Len(whole) = n + Len(t) /\ n \in Nat /\ Len(t) \in Nat
      /\ \A i \in 1 .. n : whole[i] = s[i] /\ s[i] \in Character /\ whole[i] \in Character
  <2>1. \A i \in 1 .. n + Len(t) : whole[i] = IF i <= n THEN s[i] ELSE t[i - n]
    BY <1>1, ConcatProperties DEF Text
  <2>2. n \in Nat /\ Len(t) \in Nat /\ whole \in Text /\ Len(whole) = n + Len(t)
    BY <1>1, TextJoin
  <2>3. \A i \in 1 .. n : s[i] \in Character
    BY ElementOfSeq DEF Text
  <2> QED  BY <2>1, <2>2, <2>3
<1> HIDE DEF n
<1>3. PICK a, b : a = SubSeq(s, 1, n) /\ b = SubSeq(whole, 1, n)
  OBVIOUS
<1>4. n - 1 + 1 = n /\ (\A i \in 1 .. n : 1 + i - 1 = i) /\ 1 \in Int /\ n \in Int
  BY <1>2
<1>5. /\ a \in Text /\ Len(a) = (IF 1 <= n THEN n - 1 + 1 ELSE 0)
      /\ \A i \in 1 .. n - 1 + 1 : a[i] = s[1 + i - 1]
  BY <1>2, <1>3, <1>4, SubSeqProperties DEF Text
<1>6. /\ b \in Text /\ Len(b) = (IF 1 <= n THEN n - 1 + 1 ELSE 0)
      /\ \A i \in 1 .. n - 1 + 1 : b[i] = whole[1 + i - 1]
  BY <1>2, <1>3, <1>4, SubSeqProperties DEF Text
<1>7. Len(a) = n /\ Len(b) = n /\ \A i \in 1 .. n : a[i] = b[i]
  BY <1>2, <1>4, <1>5, <1>6
<1>8. a = b
  BY <1>2, <1>5, <1>6, <1>7, SeqEqual DEF Text
<1>9. \A k, m \in Nat : k <= k + m
  OBVIOUS
<1>10. Len(s) <= Len(whole)
  BY <1>2, <1>9 DEF n
<1> QED  BY <1>1, <1>3, <1>8, <1>10 DEF IsPrefix, n

LEMMA PartsOfPath ==
  ASSUME NEW path, NEW s \in Text, s = SubSeq(path, 4, Len(path)),
         NEW parts, NEW rest \in Text, Parsed(s, parts, rest), PathPart(rest).part = <<>>
  PROVE  ArePartsOf(parts, path)
<1>1. /\ parts \in Seq(Text)
      /\ \A i \in DOMAIN parts : parts[i] # <<>> /\ ~Contains(parts[i], Slash)
  BY DEF Parsed
<1>2. PICK w, whole :
        /\ Joins(w, parts) /\ whole = w[Len(parts)] /\ whole \in Text
        /\ whole \o rest = s \/ (rest = <<>> /\ whole = s \o <<Slash>>)
  BY DEF Parsed
<1>3. w = CHOOSE g : g = [n \in 0 .. Len(parts) |->
                            IF n = 0 THEN <<>> ELSE g[n - 1] \o parts[n] \o <<Slash>>]
  <2> DEFINE C == CHOOSE g : Joins(g, parts)
  <2>1. C = w
    BY <1>1, <1>2, JoinsOnce
  <2> QED  BY <2>1 DEF Joins
<1>4. whole = s \o <<Slash>> \/ whole = s \/ IsPrefix(whole \o <<Slash>>, s)
  <2>1. CASE rest = <<>>
    <3>1. whole \o <<>> = whole
      BY <1>2, ConcatEmptySeq DEF Text
    <3> QED  BY <1>2, <2>1, <3>1
  <2>2. CASE rest # <<>>
    <3>1. PICK r : r = PathPart(rest).rest
      OBVIOUS
    <3>2. r \in Text /\ rest = (<<>> \o <<Slash>>) \o r
      BY <2>2, <3>1, PathPartIs, Zenon
    <3>3. <<>> \o <<Slash>> = <<Slash>>
      BY SlashIsText, ConcatEmptySeq DEF Text
    <3>4. rest = <<Slash>> \o r
      BY <3>2, <3>3, Zenon
    <3>5. PICK ws : ws = whole \o <<Slash>>
      OBVIOUS
    <3>6. ws \in Text
      BY <1>2, <3>5, SlashIsText, TextJoin
    <3>7. ws \o r = whole \o (<<Slash>> \o r)
      <4>1. PICK t : t = <<Slash>>
        OBVIOUS
      <4>2. t \in Text
        BY <4>1, SlashIsText, Zenon
      <4>3. whole \in Text /\ r \in Text
        BY <1>2, <3>2
      <4>4. (whole \o t) \o r = whole \o (t \o r)
        BY <4>2, <4>3, TextAssociative
      <4> QED  BY <3>5, <4>1, <4>4, Zenon
    <3>8. s = ws \o r
      BY <1>2, <2>2, <3>4, <3>7, Zenon
    <3>9. IsPrefix(ws, ws \o r)
      BY <3>2, <3>6, PrefixOfJoin
    <3> QED  BY <3>5, <3>8, <3>9, Zenon
  <2> QED  BY <2>1, <2>2
<1>5. ArePartsOf(parts, path) <=>
        /\ \A i \in DOMAIN parts : parts[i] # <<>> /\ ~Contains(parts[i], Slash)
        /\ \/ w[Len(parts)] = s \o <<Slash>>
           \/ w[Len(parts)] = s
           \/ IsPrefix(w[Len(parts)] \o <<Slash>>, s)
  BY <1>3, Zenon DEF ArePartsOf
<1> QED  BY <1>1, <1>2, <1>4, <1>5, Zenon

\* The digit in front, and the parts.
LEMMA ParseIs ==
  ASSUME NEW path \in Text, NEW root, root = Parse(path), root # NoRoot
  PROVE  /\ ArePartsOf(root.parts, path) /\ path[1] = Digits[root.drive_no + 1]
         /\ root.parts \in Seq(Text)
<1> DEFINE s == SubSeq(path, 4, Len(path))
           all == {i \in 1 .. Len(Digits) : Digits[i] = path[1]}
           digit == SelectInSeq(Digits, LAMBDA d : d = path[1])
<1>1. ValidFormat(path) /\ root = [drive_no |-> digit - 1, parts |-> PathParts(s)]
  BY DEF Parse, ToNumericDigit
<1>2. digit = IF all # {} THEN Min(all) ELSE 0
  BY DEF SelectInSeq
<1> HIDE DEF digit
<1>3. all # {} /\ all \in SUBSET Nat
  <2>1. \E i \in 1 .. Len(Digits) : Digits[i] = path[1]
    BY <1>1 DEF ValidFormat, IsDigit, Contains
  <2>2. Len(Digits) \in Nat
    BY DEF Digits
  <2> QED  BY <2>1, <2>2
<1>4. digit \in all
  BY <1>2, <1>3, MinValue
<1>5. path[1] = Digits[root.drive_no + 1]
  <2>1. digit \in Nat /\ Digits[digit] = path[1]
    BY <1>3, <1>4
  <2>2. root.drive_no + 1 = digit
    BY <1>1, <2>1
  <2> QED  BY <2>1, <2>2
<1>6. s \in Text
  <2>1. \A i \in 4 .. Len(path) : path[i] \in Character
    BY ElementOfSeq, TextJoin DEF Text
  <2>2. 4 \in Int /\ Len(path) \in Int
    BY TextJoin
  <2> QED  BY <2>1, <2>2, SubSeqProperties DEF Text
<1> HIDE DEF s
<1>7. PICK rest \in Text : Parsed(s, PathParts(s), rest) /\ PathPart(rest).part = <<>>
  BY <1>6, PathPartsIs
<1>8. ArePartsOf(PathParts(s), path)
  BY <1>6, <1>7, PartsOfPath DEF s
<1>9. PathParts(s) \in Seq(Text)
  BY <1>7 DEF Parsed
<1>10. root.parts = PathParts(s)
  BY <1>1
<1> QED  BY <1>5, <1>8, <1>9, <1>10

-----------------------------------------------------------------------------
(* Names. *)

\* The signs in a path or a name that are no letters stand for themselves, in
\* small letters too.
LEMMA SignsStay ==
  ASSUME NEW c, NEW sign \in {Slash, DeletedMark}
  PROVE  ToLower(c) = sign <=> c = sign
<1> DEFINE all == {k \in 1 .. Len(Capitals) : Capitals[k] = c}
           k == SelectInSeq(Capitals, LAMBDA x : x = c)
<1>1. k = IF all # {} THEN Min(all) ELSE 0
  BY DEF SelectInSeq
<1>2. Len(Capitals) = 5 /\ \A n \in 1 .. 5 : Capitals[n] \in {"A", "B", "C", "D", "T"}
  BY DEF Capitals
<1>3. \A n \in 1 .. 5 : Smalls[n] \in {"a", "b", "c", "d", "t"}
  BY DEF Smalls
<1> HIDE DEF k
<1>4. CASE Contains(Capitals, c)
  <2>1. all # {} /\ all \in SUBSET Nat
    BY <1>2, <1>4 DEF Contains
  <2>2. k \in all
    BY <1>1, <2>1, MinValue
  <2>3. k \in 1 .. 5 /\ c \in {"A", "B", "C", "D", "T"}
    BY <1>2, <2>2
  <2>4. ToLower(c) \in {"a", "b", "c", "d", "t"}
    BY <1>3, <1>4, <2>3 DEF ToLower, k
  <2> QED  BY <2>3, <2>4 DEF Slash, DeletedMark
<1>5. CASE ~ Contains(Capitals, c)
  BY <1>5 DEF ToLower
<1> QED  BY <1>4, <1>5

\* istrncmp of a whole name.
LEMMA SameNames ==
  ASSUME NEW S, NEW s \in Seq(S), NEW T, NEW t \in Seq(T), NEW max \in Nat, Len(t) < max
  PROVE  /\ SameUpToCase(s, t, max) <=> Small(s) = Small(t)
         /\ Small(s) = Small(t) => Len(s) = Len(t)
         /\ Small(s) = Small(t) => \A k \in 1 .. Len(t) : ToLower(s[k]) = ToLower(t[k])
<1> DEFINE n == Strnlen(s, max)
           Lower(x) == [i \in 1 .. Strnlen(x, max) |-> ToLower(x[i])]
<1>1. /\ Len(s) \in Nat /\ DOMAIN s = 1 .. Len(s) /\ Len(t) \in Nat /\ DOMAIN t = 1 .. Len(t)
  BY LenProperties
<1>2. Strnlen(t, max) = Len(t) /\ n \in Nat /\ (n = Len(s) \/ n = max)
  BY <1>1 DEF Strnlen
<1>3. \A a, b \in Nat : 1 .. a = 1 .. b => a = b
  <2> SUFFICES ASSUME NEW a \in Nat, NEW b \in Nat, 1 .. a = 1 .. b, a < b \/ b < a PROVE FALSE
    OBVIOUS
  <2>1. CASE a < b
    <3>1. b \in 1 .. b /\ b \notin 1 .. a
      BY <2>1
    <3> QED  BY <3>1
  <2>2. CASE b < a
    <3>1. a \in 1 .. a /\ a \notin 1 .. b
      BY <2>2
    <3> QED  BY <3>1
  <2> QED  BY <2>1, <2>2
<1>4. Small(s) = Small(t) => Len(s) = Len(t)
  <2>1. DOMAIN Small(s) = 1 .. Len(s) /\ DOMAIN Small(t) = 1 .. Len(t)
    BY <1>1 DEF Small
  <2> QED  BY <1>1, <1>3, <2>1
<1>5. Lower(s) = Lower(t) => Len(s) = Len(t)
  <2> SUFFICES ASSUME Lower(s) = Lower(t) PROVE Len(s) = Len(t)
    OBVIOUS
  <2>1. DOMAIN Lower(s) = 1 .. n /\ DOMAIN Lower(t) = 1 .. Len(t)
    BY <1>2
  <2> HIDE DEF Lower, n
  <2>2. 1 .. n = 1 .. Len(t)
    BY <2>1, Zenon
  <2>3. n = Len(t)
    BY <1>1, <1>2, <1>3, <2>2
  <2>4. n = Len(s) \/ n = max
    BY <1>2
  <2>5. \A a, b \in Nat : a < b => a # b
    OBVIOUS
  <2>6. Len(t) # max
    BY <1>1, <2>5
  <2> QED  BY <2>3, <2>4, <2>6, Zenon
<1>6. Len(s) = Len(t) => Lower(s) = Small(s) /\ Lower(t) = Small(t)
  BY <1>1 DEF Small, Strnlen
<1>7. SameUpToCase(s, t, max) <=> Lower(s) = Lower(t)
  BY DEF SameUpToCase
<1>8. Small(s) = Small(t) => \A k \in 1 .. Len(t) : ToLower(s[k]) = ToLower(t[k])
  <2> SUFFICES ASSUME Small(s) = Small(t), NEW k \in 1 .. Len(t)
               PROVE  ToLower(s[k]) = ToLower(t[k])
    OBVIOUS
  <2>1. Small(s)[k] = ToLower(s[k]) /\ Small(t)[k] = ToLower(t[k])
    BY <1>1, <1>4 DEF Small
  <2> QED  BY <2>1
<1> HIDE DEF Lower
<1> QED  BY <1>4, <1>5, <1>6, <1>7, <1>8

\* What an array of bytes holds up to its first blank or zero.
LEMMA ProperString ==
  ASSUME NEW S, NEW bytes \in Seq(S), NEW n \in Nat, n < Len(bytes),
         \A k \in 1 .. n : bytes[k] \notin {Space, Zero}, bytes[n + 1] \in {Space, Zero}
  PROVE  ToProperString(bytes) = SubSeq(bytes, 1, n)
<1> DEFINE all == {k \in 1 .. Len(bytes) : bytes[k] \in {Space, Zero}}
           k == SelectInSeq(bytes, LAMBDA c : c \in {Space, Zero})
<1>1. k = IF all # {} THEN Min(all) ELSE 0
  BY DEF SelectInSeq
<1> HIDE DEF k
<1>2. Len(bytes) \in Nat
  BY LenProperties
<1>3. n + 1 \in all /\ all \in SUBSET Nat
  BY <1>2
<1>4. k \in all /\ \A j \in all : k <= j
  BY <1>1, <1>3, MinValue
<1>5. k \in 1 .. Len(bytes) /\ k <= n + 1 /\ k \notin 1 .. n
  BY <1>3, <1>4
<1>6. k = n + 1
  BY <1>2, <1>5
<1>7. k - 1 = n
  BY <1>6
<1> QED  BY <1>7 DEF ToProperString, k

\* A field without its blanks.
LEMMA UnpaddedIs ==
  ASSUME NEW S, NEW field \in Seq(S), NEW n \in 0 .. Len(field),
         \A k \in DOMAIN field :
           IF k <= n THEN field[k] \notin {Space, Zero, Slash} ELSE field[k] = Space
  PROVE  Unpadded(field) = SubSeq(field, 1, n)
<1>1. Len(field) \in Nat /\ DOMAIN field = 1 .. Len(field)
  BY LenProperties
<1>2. {k \in DOMAIN field : field[k] # Space} = 1 .. n
  BY <1>1
<1>3. Cardinality(1 .. n) = n
  <2>1. n \in Nat /\ 1 \in Int /\ n \in Int
    BY <1>1
  <2> QED  BY <2>1, FS_Interval
<1> QED  BY <1>2, <1>3 DEF Unpadded

\* The front of a sequence.
LEMMA FrontIs ==
  ASSUME NEW S, NEW s \in Seq(S), NEW n \in 0 .. Len(s)
  PROVE  /\ SubSeq(s, 1, n) \in Seq(S) /\ Len(SubSeq(s, 1, n)) = n
         /\ \A k \in 1 .. n : SubSeq(s, 1, n)[k] = s[k]
<1>1. Len(s) \in Nat /\ n \in Nat /\ n \in Int /\ 1 \in Int /\ n - 1 + 1 = n
  BY LenProperties
<1>2. \A k \in 1 .. n : s[k] \in S /\ 1 + k - 1 = k
  BY <1>1, ElementOfSeq
<1>3. PICK f : f = SubSeq(s, 1, n)
  OBVIOUS
<1>4. /\ f \in Seq(S) /\ Len(f) = IF 1 <= n THEN n - 1 + 1 ELSE 0
      /\ \A k \in 1 .. n - 1 + 1 : f[k] = s[1 + k - 1]
  BY <1>1, <1>2, <1>3, SubSeqProperties
<1>5. Len(f) = n
  BY <1>1, <1>4
<1> QED  BY <1>1, <1>2, <1>3, <1>4, <1>5

LEMMA FrontOfJoin ==
  ASSUME NEW S, NEW s \in Seq(S), NEW t \in Seq(S), NEW n \in 0 .. Len(s)
  PROVE  SubSeq(s \o t, 1, n) = SubSeq(s, 1, n)
<1>1. PICK all : all = s \o t
  OBVIOUS
<1>2. /\ all \in Seq(S) /\ Len(all) = Len(s) + Len(t) /\ Len(s) \in Nat /\ Len(t) \in Nat
      /\ \A k \in 1 .. Len(s) + Len(t) : all[k] = IF k <= Len(s) THEN s[k] ELSE t[k - Len(s)]
  BY <1>1, ConcatProperties, LenProperties
<1>3. n \in 0 .. Len(all) /\ \A k \in 1 .. n : all[k] = s[k]
  BY <1>2
<1>4. PICK a, b : a = SubSeq(all, 1, n) /\ b = SubSeq(s, 1, n)
  OBVIOUS
<1>5. a \in Seq(S) /\ Len(a) = n /\ \A k \in 1 .. n : a[k] = all[k]
  BY <1>2, <1>3, <1>4, FrontIs
<1>6. b \in Seq(S) /\ Len(b) = n /\ \A k \in 1 .. n : b[k] = s[k]
  BY <1>4, FrontIs
<1>7. a = b
  BY <1>3, <1>5, <1>6, SeqEqual
<1> QED  BY <1>1, <1>4, <1>7

\* No prover knows that these are strings.
Byte == STRING \cup {Zero, "."}

\* The fields of an item, as they lie behind each other.
LEMMA FieldsAre ==
  ASSUME item \in Seq(DirectoryItem), NEW i \in DOMAIN item
  PROVE  /\ item[i].filename \in Seq(Byte) /\ Len(item[i].filename) = NameLength
         /\ item[i].ext \in Seq(Byte) /\ Len(item[i].ext) \in Nat \ {0}
         /\ NameLength \in Nat \ {0}
         /\ item[i].attribute \in Byte /\ <<item[i].attribute>> \in Seq(Byte)
         /\ LET ext == item[i].ext \o <<item[i].attribute, Zero>>
            IN  /\ ext \in Seq(Byte) /\ Len(ext) = Len(item[i].ext) + 2
                /\ \A k \in 1 .. Len(item[i].ext) : ext[k] = item[i].ext[k]
                /\ ext[Len(item[i].ext) + 1] = item[i].attribute
                /\ ext[Len(item[i].ext) + 2] = Zero
<1>1. item[i] \in DirectoryItem
  BY ElementOfSeq, LenProperties
<1>2. PICK f, e, a : f = item[i].filename /\ e = item[i].ext /\ a = item[i].attribute
  OBVIOUS
<1>3. /\ f \in [1 .. NameLength -> STRING] /\ e \in Seq(STRING) /\ e # <<>> /\ a \in STRING
      /\ NameLength \in Nat \ {0}
  BY <1>1, <1>2, HeaderAssumption DEF DirectoryItem
<1>4. f \in [1 .. NameLength -> Byte] /\ a \in Byte /\ Zero \in Byte
  BY <1>3 DEF Byte
<1>5. f \in Seq(Byte) /\ Len(f) = NameLength
  <2>1. f \in Seq(Byte)
    BY <1>3, <1>4
  <2>2. DOMAIN f = 1 .. NameLength /\ DOMAIN f = 1 .. Len(f) /\ Len(f) \in Nat
    BY <1>4, <2>1, LenProperties
  <2> QED  BY <1>3, <2>1, <2>2
<1>6. e \in Seq(Byte) /\ Len(e) \in Nat \ {0}
  <2>1. Len(e) \in Nat \ {0} /\ e \in [1 .. Len(e) -> STRING]
    BY <1>3, EmptySeq, LenProperties
  <2>2. e \in [1 .. Len(e) -> Byte]
    BY <2>1 DEF Byte
  <2> QED  BY <2>1, <2>2
<1>7. PICK two : two = <<a, Zero>>
  OBVIOUS
<1>8. two \in Seq(Byte) /\ Len(two) = 2 /\ two[1] = a /\ two[2] = Zero
  BY <1>4, <1>7
<1>9. PICK ext : ext = e \o two
  OBVIOUS
<1>10. /\ ext \in Seq(Byte) /\ Len(ext) = Len(e) + 2
       /\ \A k \in 1 .. Len(e) + 2 : ext[k] = IF k <= Len(e) THEN e[k] ELSE two[k - Len(e)]
  <2>1. /\ ext \in Seq(Byte) /\ Len(ext) = Len(e) + Len(two)
        /\ \A k \in 1 .. Len(e) + Len(two) : ext[k] = IF k <= Len(e) THEN e[k] ELSE two[k - Len(e)]
    BY <1>6, <1>8, <1>9, ConcatProperties, Zenon
  <2> QED  BY <1>8, <2>1, Zenon
<1>11. /\ \A k \in 1 .. Len(e) : ext[k] = e[k]
       /\ ext[Len(e) + 1] = a /\ ext[Len(e) + 2] = Zero
  <2>1. /\ Len(e) + 1 \in 1 .. Len(e) + 2 /\ Len(e) + 1 - Len(e) = 1 /\ ~ (Len(e) + 1 <= Len(e))
        /\ Len(e) + 2 \in 1 .. Len(e) + 2 /\ Len(e) + 2 - Len(e) = 2 /\ ~ (Len(e) + 2 <= Len(e))
        /\ \A k \in 1 .. Len(e) : k \in 1 .. Len(e) + 2 /\ k <= Len(e)
    BY <1>6
  <2> QED  BY <1>8, <1>10, <2>1
<1>12. <<a>> \in Seq(Byte)
  BY <1>4
<1> QED  BY <1>2, <1>3, <1>4, <1>5, <1>6, <1>7, <1>9, <1>10, <1>11, <1>12

\* What the code reads out of the fields of an item, if they end, is its name.
LEMMA NameIsRead ==
  ASSUME item \in Seq(DirectoryItem), NEW i \in DOMAIN item, FieldsEnd(i)
  PROVE  /\ FullRelativeFilename(i) = OwnName(i)
         /\ OwnName(i) \in Seq(Byte) /\ Len(OwnName(i)) \in Nat \ {0}
         /\ \A k \in 1 .. Len(OwnName(i)) : OwnName(i)[k] # Slash
<1> DEFINE f == item[i].filename
           e == item[i].ext
           a == item[i].attribute
           ext == e \o <<a, Zero>>
<1>1. /\ f \in Seq(Byte) /\ Len(f) = NameLength /\ e \in Seq(Byte) /\ Len(e) \in Nat \ {0}
      /\ NameLength \in Nat \ {0} /\ a \in Byte /\ <<a>> \in Seq(Byte)
      /\ ext \in Seq(Byte) /\ Len(ext) = Len(e) + 2
      /\ \A k \in 1 .. Len(e) : ext[k] = e[k]
      /\ ext[Len(e) + 1] = a /\ ext[Len(e) + 2] = Zero
  BY FieldsAre
<1>2. /\ IsPadded(f) /\ f[1] # Space /\ IsPadded(e)
      /\ Contains(f, Space) \/ e[1] = Space
      /\ Contains(e \o <<a>>, Space)
  BY DEF FieldsEnd
<1>3. FullRelativeFilename(i) =
        ToProperString(f \o ext)
        \o IF ext[1] \in {Space, Zero} THEN <<>> ELSE <<".">> \o ToProperString(ext)
  BY DEF FullRelativeFilename
<1>4. OwnName(i) = Unpadded(f) \o IF Unpadded(e) = <<>> THEN <<>> ELSE <<".">> \o Unpadded(e)
  BY DEF OwnName
<1> HIDE DEF ext, f, e, a
<1>5. PICK n \in 0 .. Len(f) : \A k \in DOMAIN f :
        IF k <= n THEN f[k] \notin {Space, Zero, Slash} ELSE f[k] = Space
  BY <1>2 DEF IsPadded
<1>6. PICK m \in 0 .. Len(e) : \A k \in DOMAIN e :
        IF k <= m THEN e[k] \notin {Space, Zero, Slash} ELSE e[k] = Space
  BY <1>2 DEF IsPadded
<1>7. Unpadded(f) = SubSeq(f, 1, n) /\ Unpadded(e) = SubSeq(e, 1, m)
  BY <1>1, <1>5, <1>6, UnpaddedIs
<1>8. DOMAIN f = 1 .. Len(f) /\ DOMAIN e = 1 .. Len(e) /\ n \in Nat /\ m \in Nat
  BY <1>1, LenProperties
<1>9. n # 0
  BY <1>1, <1>2, <1>5, <1>8
<1>10. e[1] = Space <=> m = 0
  <2>1. 1 \in DOMAIN e /\ (1 <= m <=> m # 0)
    BY <1>1, <1>8
  <2> QED  BY <1>6, <2>1
<1>11. ext[1] = e[1] /\ e[1] # Zero
  <2>1. 1 \in DOMAIN e /\ 1 \in 1 .. Len(e)
    BY <1>1, <1>8
  <2>2. Space # Zero
    BY DEF Space, Zero
  <2> QED  BY <1>1, <1>6, <2>1, <2>2
\* The name ends behind n characters.
<1>12. ToProperString(f \o ext) = SubSeq(f, 1, n)
  <2>1. PICK all : all = f \o ext
    OBVIOUS
  <2>2. /\ all \in Seq(Byte) /\ Len(all) = Len(f) + Len(ext)
        /\ \A k \in 1 .. Len(f) + Len(ext) : all[k] = IF k <= Len(f) THEN f[k] ELSE ext[k - Len(f)]
    BY <1>1, <2>1, ConcatProperties
  <2>3. n < Len(all) /\ \A k \in 1 .. n : all[k] = f[k] /\ k \in DOMAIN f /\ k <= n
    BY <1>1, <1>5, <1>8, <2>2
  <2>4. \A k \in 1 .. n : all[k] \notin {Space, Zero}
    BY <1>5, <2>3
  <2>5. all[n + 1] = Space
    <3>1. CASE n < Len(f)
      <4>1. n + 1 \in DOMAIN f /\ ~ (n + 1 <= n) /\ n + 1 \in 1 .. Len(f) + Len(ext) /\ n + 1 <= Len(f)
        BY <1>1, <1>8, <3>1
      <4> QED  BY <1>5, <2>2, <4>1
    <3>2. CASE n = Len(f)
      <4>1. ~ Contains(f, Space)
        <5> SUFFICES ASSUME NEW k \in 1 .. Len(f), f[k] = Space PROVE FALSE
          BY DEF Contains
        <5>1. k \in DOMAIN f /\ k <= n
          BY <1>8, <3>2
        <5> QED  BY <1>5, <5>1
      <4>2. ext[1] = Space
        BY <1>2, <1>11, <4>1
      <4>3. n + 1 \in 1 .. Len(f) + Len(ext) /\ ~ (n + 1 <= Len(f)) /\ n + 1 - Len(f) = 1
        BY <1>1, <1>8, <3>2
      <4> QED  BY <2>2, <4>2, <4>3
    <3> QED  BY <1>1, <1>5, <1>8, <3>1, <3>2
  <2>6. ToProperString(all) = SubSeq(all, 1, n)
    BY <1>8, <2>2, <2>3, <2>4, <2>5, ProperString
  <2>7. SubSeq(all, 1, n) = SubSeq(f, 1, n)
    BY <1>1, <2>1, FrontOfJoin
  <2> QED  BY <2>1, <2>6, <2>7
\* The extension ends behind m characters.
<1>13. ToProperString(ext) = SubSeq(e, 1, m)
  <2>1. /\ m < Len(ext) /\ m \in 0 .. Len(ext)
        /\ \A k \in 1 .. m : ext[k] = e[k] /\ k \in DOMAIN e /\ k <= m
    BY <1>1, <1>6, <1>8
  <2>2. \A k \in 1 .. m : ext[k] \notin {Space, Zero}
    BY <1>6, <2>1
  <2>3. ext[m + 1] = Space
    <3>1. CASE m < Len(e)
      <4>1. m + 1 \in DOMAIN e /\ ~ (m + 1 <= m)
        BY <1>1, <1>8, <3>1
      <4> QED  BY <1>1, <1>6, <1>8, <4>1
    <3>2. CASE m = Len(e)
      <4>1. PICK k \in 1 .. Len(e \o <<a>>) : (e \o <<a>>)[k] = Space
        BY <1>2 DEF Contains
      <4>2. PICK one : one = <<a>>
        OBVIOUS
      <4>3. one \in Seq(Byte) /\ Len(one) = 1 /\ one[1] = a
        BY <1>1, <4>2
      <4>4. /\ Len(e \o one) = Len(e) + Len(one)
            /\ \A j \in 1 .. Len(e) + Len(one) :
                 (e \o one)[j] = IF j <= Len(e) THEN e[j] ELSE one[j - Len(e)]
        BY <1>1, <4>3, ConcatProperties
      <4>5. k \in 1 .. Len(e) + 1 /\ Space = IF k <= Len(e) THEN e[k] ELSE one[k - Len(e)]
        BY <4>1, <4>2, <4>3, <4>4
      <4>6. ~ (k <= Len(e))
        <5> SUFFICES ASSUME k <= Len(e) PROVE FALSE
          OBVIOUS
        <5>1. k \in DOMAIN e /\ k <= m /\ e[k] = Space
          BY <1>8, <3>2, <4>5
        <5> QED  BY <1>6, <5>1
      <4>7. k - Len(e) = 1
        BY <1>1, <4>5, <4>6
      <4>8. a = Space
        BY <4>3, <4>5, <4>6, <4>7
      <4>9. ext[Len(e) + 1] = a
        BY <1>1
      <4> QED  BY <3>2, <4>8, <4>9
    <3>3. m < Len(e) \/ m = Len(e)
      <4>1. m \in 0 .. Len(e) /\ Len(e) \in Nat
        BY <1>1, <1>6, Zenon
      <4> QED  BY <4>1
    <3> QED  BY <3>1, <3>2, <3>3, Zenon
  <2>4. ToProperString(ext) = SubSeq(ext, 1, m)
    BY <1>1, <1>8, <2>1, <2>2, <2>3, ProperString
  <2>5. PICK s, t : s = SubSeq(ext, 1, m) /\ t = SubSeq(e, 1, m)
    OBVIOUS
  <2>6. s \in Seq(Byte) /\ Len(s) = m /\ \A k \in 1 .. m : s[k] = ext[k]
    BY <1>1, <2>1, <2>5, FrontIs
  <2>7. t \in Seq(Byte) /\ Len(t) = m /\ \A k \in 1 .. m : t[k] = e[k]
    BY <1>1, <2>5, FrontIs
  <2>8. s = t
    BY <2>1, <2>6, <2>7, SeqEqual
  <2> QED  BY <2>4, <2>5, <2>8
<1>14. PICK s, t : s = SubSeq(f, 1, n) /\ t = SubSeq(e, 1, m)
  OBVIOUS
<1>15. s \in Seq(Byte) /\ Len(s) = n /\ \A k \in 1 .. n : s[k] = f[k] /\ s[k] # Slash
  <2>1. s \in Seq(Byte) /\ Len(s) = n /\ \A k \in 1 .. n : s[k] = f[k]
    BY <1>1, <1>5, <1>14, FrontIs
  <2>2. \A k \in 1 .. n : k \in DOMAIN f /\ k <= n
    BY <1>5, <1>8
  <2> QED  BY <1>5, <2>1, <2>2
<1>16. t \in Seq(Byte) /\ Len(t) = m /\ \A k \in 1 .. m : t[k] = e[k] /\ t[k] # Slash
  <2>1. t \in Seq(Byte) /\ Len(t) = m /\ \A k \in 1 .. m : t[k] = e[k]
    BY <1>1, <1>6, <1>14, FrontIs
  <2>2. \A k \in 1 .. m : k \in DOMAIN e /\ k <= m
    BY <1>6, <1>8
  <2> QED  BY <1>6, <2>1, <2>2
<1>17. t = <<>> <=> m = 0
  BY <1>16, EmptySeq
<1>18. ext[1] \in {Space, Zero} <=> t = <<>>
  BY <1>10, <1>11, <1>17
<1>19. PICK rest : rest = IF t = <<>> THEN <<>> ELSE <<".">> \o t
  OBVIOUS
<1>20. FullRelativeFilename(i) = s \o rest /\ OwnName(i) = s \o rest
  BY <1>3, <1>4, <1>7, <1>12, <1>13, <1>14, <1>18, <1>19
<1>21. rest \in Seq(Byte) /\ Len(rest) \in Nat /\ \A k \in 1 .. Len(rest) : rest[k] # Slash
  <2>1. CASE t = <<>>
    BY <1>19, <2>1
  <2>2. CASE t # <<>>
    <3>1. PICK dot : dot = <<".">>
      OBVIOUS
    <3>2. dot \in Seq(Byte) /\ Len(dot) = 1 /\ dot[1] # Slash
      BY <3>1 DEF Byte, Slash
    <3>3. rest = dot \o t
      BY <1>19, <2>2, <3>1
    <3>4. /\ rest \in Seq(Byte) /\ Len(rest) = Len(dot) + Len(t)
          /\ \A k \in 1 .. Len(dot) + Len(t) : rest[k] = IF k <= Len(dot) THEN dot[k] ELSE t[k - Len(dot)]
      BY <1>16, <3>2, <3>3, ConcatProperties, Zenon
    <3>5. ASSUME NEW k \in 1 .. Len(rest) PROVE rest[k] # Slash
      <4>1. k \in 1 .. 1 + m /\ rest[k] = IF k <= 1 THEN dot[k] ELSE t[k - 1]
        BY <1>16, <3>2, <3>4, <3>5
      <4>2. CASE k <= 1
        <5>1. k = 1
          BY <4>1, <4>2
        <5> QED  BY <3>2, <4>1, <5>1
      <4>3. CASE ~ (k <= 1)
        <5>1. k - 1 \in 1 .. m
          BY <1>8, <4>1, <4>3
        <5> QED  BY <1>16, <4>1, <4>3, <5>1
      <4> QED  BY <4>2, <4>3
    <3> QED  BY <1>8, <1>16, <3>2, <3>4, <3>5
  <2> QED  BY <2>1, <2>2
<1>22. PICK own : own = s \o rest
  OBVIOUS
<1>23. /\ own \in Seq(Byte) /\ Len(own) = n + Len(rest)
       /\ \A k \in 1 .. n + Len(rest) : own[k] = IF k <= n THEN s[k] ELSE rest[k - n]
  BY <1>15, <1>21, <1>22, ConcatProperties
<1>24. ASSUME NEW k \in 1 .. Len(own) PROVE own[k] # Slash
  <2>1. CASE k <= n
    <3>1. k \in 1 .. n /\ own[k] = s[k]
      BY <1>8, <1>21, <1>23, <1>24, <2>1
    <3> QED  BY <1>15, <3>1
  <2>2. CASE ~ (k <= n)
    <3>1. k - n \in 1 .. Len(rest) /\ own[k] = rest[k - n]
      BY <1>8, <1>21, <1>23, <1>24, <2>2
    <3> QED  BY <1>21, <3>1
  <2> QED  BY <2>1, <2>2
<1>25. Len(own) \in Nat \ {0}
  BY <1>8, <1>9, <1>21, <1>23
<1> QED  BY <1>20, <1>22, <1>23, <1>24, <1>25

\* An array with a zero has a string in it.
LEMMA StringIs ==
  ASSUME NEW S, NEW bytes \in Seq(S), NEW last \in 1 .. Len(bytes), bytes[last] = Zero
  PROVE  /\ ToProperString(bytes) \in Seq(S)
         /\ bytes[1] \notin {Space, Zero} =>
              Len(ToProperString(bytes)) \in Nat \ {0} /\ ToProperString(bytes)[1] = bytes[1]
<1> DEFINE ends == {k \in 1 .. Len(bytes) : bytes[k] \in {Space, Zero}}
<1>1. Len(bytes) \in Nat
  BY LenProperties
<1>2. ends \in SUBSET Nat /\ last \in ends
  BY <1>1
<1>3. PICK k \in ends : \A j \in ends : k <= j
  BY <1>2, LeastElement
<1>4. k \in 1 .. Len(bytes) /\ bytes[k] \in {Space, Zero}
  BY <1>3
<1>5. ASSUME NEW j \in 1 .. k - 1 PROVE bytes[j] \notin {Space, Zero}
  <2>1. j \in 1 .. Len(bytes) /\ ~ (k <= j)
    BY <1>1, <1>4, <1>5
  <2> QED  BY <1>3, <2>1
<1>6. PICK n : n = k - 1
  OBVIOUS
<1>7. n \in Nat /\ n < Len(bytes) /\ n + 1 = k /\ n \in 0 .. Len(bytes)
  BY <1>1, <1>4, <1>6
<1>8. ToProperString(bytes) = SubSeq(bytes, 1, n)
  BY <1>4, <1>5, <1>6, <1>7, ProperString
<1>9. PICK f : f = SubSeq(bytes, 1, n)
  OBVIOUS
<1>10. f \in Seq(S) /\ Len(f) = n /\ \A j \in 1 .. n : f[j] = bytes[j]
  BY <1>7, <1>9, FrontIs
<1>11. bytes[1] \notin {Space, Zero} => n # 0 /\ f[1] = bytes[1]
  <2> SUFFICES ASSUME bytes[1] \notin {Space, Zero} PROVE n # 0 /\ f[1] = bytes[1]
    OBVIOUS
  <2>1. k # 1
    BY <1>4
  <2>2. 1 \in 1 .. n /\ n # 0
    BY <1>4, <1>6, <2>1
  <2> QED  BY <1>10, <2>2
<1> QED  BY <1>7, <1>8, <1>9, <1>10, <1>11

\* What is read out of the fields of an item, whatever is in them.
LEMMA ReadName ==
  ASSUME item \in Seq(DirectoryItem), NEW i \in DOMAIN item
  PROVE  /\ FullRelativeFilename(i) \in Seq(Byte)
         /\ item[i].filename[1] \notin {Space, Zero} =>
              /\ Len(FullRelativeFilename(i)) \in Nat \ {0}
              /\ FullRelativeFilename(i)[1] = item[i].filename[1]
<1> DEFINE f == item[i].filename
           e == item[i].ext
           a == item[i].attribute
           ext == e \o <<a, Zero>>
<1>1. /\ f \in Seq(Byte) /\ Len(f) = NameLength /\ Len(e) \in Nat \ {0}
      /\ NameLength \in Nat \ {0}
      /\ ext \in Seq(Byte) /\ Len(ext) = Len(e) + 2 /\ ext[Len(e) + 2] = Zero
  BY FieldsAre
<1>2. FullRelativeFilename(i) =
        ToProperString(f \o ext)
        \o IF ext[1] \in {Space, Zero} THEN <<>> ELSE <<".">> \o ToProperString(ext)
  BY DEF FullRelativeFilename
<1> HIDE DEF ext, e
<1> HIDE DEF f
<1>3. PICK all : all = f \o ext
  OBVIOUS
<1>4. /\ all \in Seq(Byte) /\ Len(all) = Len(f) + Len(ext)
      /\ \A k \in 1 .. Len(f) + Len(ext) : all[k] = IF k <= Len(f) THEN f[k] ELSE ext[k - Len(f)]
  BY <1>1, <1>3, ConcatProperties
<1>5. all[1] = f[1]
  BY <1>1, <1>4
<1>6. PICK last : last = Len(f) + Len(ext)
  OBVIOUS
<1>7. last \in 1 .. Len(all) /\ last - Len(f) = Len(e) + 2 /\ ~ (last <= Len(f))
  BY <1>1, <1>4, <1>6
<1>8. all[last] = Zero
  BY <1>1, <1>4, <1>7
<1>9. PICK name : name = ToProperString(all)
  OBVIOUS
<1>10. /\ name \in Seq(Byte)
       /\ f[1] \notin {Space, Zero} => Len(name) \in Nat \ {0} /\ name[1] = f[1]
  BY <1>4, <1>5, <1>7, <1>8, <1>9, StringIs
<1>11. Len(e) + 2 \in 1 .. Len(ext)
  BY <1>1
<1>12. ToProperString(ext) \in Seq(Byte)
  BY <1>1, <1>11, StringIs
<1>13. PICK rest : rest = IF ext[1] \in {Space, Zero} THEN <<>> ELSE <<".">> \o ToProperString(ext)
  OBVIOUS
<1>14. rest \in Seq(Byte)
  <2>1. PICK dot : dot = <<".">>
    OBVIOUS
  <2>2. dot \in Seq(Byte)
    BY <2>1 DEF Byte
  <2>3. dot \o ToProperString(ext) \in Seq(Byte)
    BY <1>12, <2>2, ConcatProperties
  <2> QED  BY <1>13, <2>1, <2>3
<1>15. PICK full : full = name \o rest
  OBVIOUS
<1>16. /\ full \in Seq(Byte) /\ Len(full) = Len(name) + Len(rest)
       /\ Len(name) \in Nat /\ Len(rest) \in Nat
       /\ \A k \in 1 .. Len(name) + Len(rest) : full[k] = IF k <= Len(name) THEN name[k] ELSE rest[k - Len(name)]
  BY <1>10, <1>14, <1>15, ConcatProperties, LenProperties
<1>17. full = FullRelativeFilename(i)
  BY <1>2, <1>3, <1>9, <1>13, <1>15, Zenon
<1>18. f[1] \notin {Space, Zero} => Len(full) \in Nat \ {0} /\ full[1] = f[1]
  <2> SUFFICES ASSUME f[1] \notin {Space, Zero} PROVE Len(full) \in Nat \ {0} /\ full[1] = f[1]
    OBVIOUS
  <2>1. Len(name) \in Nat \ {0} /\ name[1] = f[1]
    BY <1>10
  <2>2. 1 \in 1 .. Len(name) + Len(rest) /\ 1 <= Len(name) /\ Len(full) \in Nat \ {0}
    BY <1>16, <2>1
  <2> QED  BY <1>16, <2>1, <2>2
<1> QED  BY <1>16, <1>17, <1>18, Zenon DEF f

-----------------------------------------------------------------------------
(* The path of an open. *)

\* A path that begins with the drive.
LEMMA DriveIs ==
  ASSUME NEW path \in Text
  PROVE  /\ IsPrefix(<<"0", ":", Slash>>, path) <=>
              Len(path) >= 3 /\ path[1] = "0" /\ path[2] = ":" /\ path[3] = Slash
         /\ ValidFormat(path) =>
              Len(path) >= 3 /\ path[2] = ":" /\ path[3] = Slash
         /\ Len(path) <= MaxPath /\ Len(path) >= 3 /\ IsDigit(path[1]) /\ path[2] = ":" /\ path[3] = Slash
              => ValidFormat(path)
<1> DEFINE T == Character \cup {"0", ":"}
           drive == <<"0", ":", Slash>>
           two == <<":", Slash>>
<1>1. Len(path) \in Nat /\ path \in [1 .. Len(path) -> Character]
  BY LenProperties DEF Text
<1>2. path \in [1 .. Len(path) -> T]
  BY <1>1
<1>3. path \in Seq(T) /\ \A k \in 1 .. Len(path) : path[k] \in T
  BY <1>1, <1>2
<1>4. /\ drive \in Seq(T) /\ Len(drive) = 3
      /\ drive[1] = "0" /\ drive[2] = ":" /\ drive[3] = Slash
  BY DEF Character
<1>5. two \in Seq(T) /\ Len(two) = 2 /\ two[1] = ":" /\ two[2] = Slash
  BY DEF Character
<1> HIDE DEF T, drive, two
<1>6. PICK d : d = SubSeq(drive, 1, 3)
  OBVIOUS
<1>7. d \in Seq(T) /\ Len(d) = 3 /\ d[1] = "0" /\ d[2] = ":" /\ d[3] = Slash
  <2>1. 3 \in 0 .. Len(drive)
    BY <1>4
  <2>2. d \in Seq(T) /\ Len(d) = 3 /\ \A k \in 1 .. 3 : d[k] = drive[k]
    BY <1>4, <1>6, <2>1, FrontIs
  <2> QED  BY <1>4, <2>2
<1>8. ASSUME Len(path) >= 3 PROVE d = SubSeq(path, 1, 3) <=> path[1] = "0" /\ path[2] = ":" /\ path[3] = Slash
  <2>1. PICK p : p = SubSeq(path, 1, 3)
    OBVIOUS
  <2>2. 3 \in 0 .. Len(path)
    BY <1>1, <1>8
  <2>3. p \in Seq(T) /\ Len(p) = 3 /\ \A k \in 1 .. 3 : p[k] = path[k]
    BY <1>3, <2>1, <2>2, FrontIs
  <2>4. p[1] = path[1] /\ p[2] = path[2] /\ p[3] = path[3]
    BY <2>3
  <2>5. \A k \in 1 .. 3 : k = 1 \/ k = 2 \/ k = 3
    OBVIOUS
  <2>6. p[1] = "0" /\ p[2] = ":" /\ p[3] = Slash => \A k \in 1 .. 3 : d[k] = p[k]
    BY <1>7, <2>5
  <2>7. (\A k \in 1 .. 3 : d[k] = p[k]) => d = p
    BY <1>7, <2>3, SeqEqual
  <2>8. d = p => p[1] = "0" /\ p[2] = ":" /\ p[3] = Slash
    BY <1>7
  <2> QED  BY <2>1, <2>4, <2>6, <2>7, <2>8, Zenon
<1>9. IsPrefix(drive, path) <=>
        Len(path) >= 3 /\ path[1] = "0" /\ path[2] = ":" /\ path[3] = Slash
  <2>1. IsPrefix(drive, path) <=> 3 <= Len(path) /\ d = SubSeq(path, 1, 3)
    BY <1>4, <1>6 DEF IsPrefix
  <2>2. 3 <= Len(path) <=> Len(path) >= 3
    BY <1>1
  <2> QED  BY <1>8, <2>1, <2>2
<1>10. ASSUME Len(path) >= 3 PROVE SubSeq(path, 2, 3) = two <=> path[2] = ":" /\ path[3] = Slash
  <2>1. PICK p : p = SubSeq(path, 2, 3)
    OBVIOUS
  <2>2. 2 \in Int /\ 3 \in Int /\ (\A k \in 2 .. 3 : k \in 1 .. Len(path)) /\ 2 <= 3 /\ 3 - 2 + 1 = 2
    BY <1>1, <1>10
  <2>3. \A k \in 2 .. 3 : path[k] \in T
    BY <1>3, <2>2
  <2>4. p \in Seq(T) /\ Len(p) = 2 /\ \A k \in 1 .. 2 : p[k] = path[2 + k - 1]
    BY <2>1, <2>2, <2>3, SubSeqProperties
  <2>5. p[1] = path[2] /\ p[2] = path[3]
    <3>1. 1 \in 1 .. 2 /\ 2 \in 1 .. 2 /\ 2 + 1 - 1 = 2 /\ 2 + 2 - 1 = 3
      OBVIOUS
    <3> QED  BY <2>4, <3>1
  <2>6. \A k \in 1 .. 2 : k = 1 \/ k = 2
    OBVIOUS
  <2>7. p[1] = ":" /\ p[2] = Slash => \A k \in 1 .. 2 : p[k] = two[k]
    BY <1>5, <2>6
  <2>8. (\A k \in 1 .. 2 : p[k] = two[k]) => p = two
    BY <1>5, <2>4, SeqEqual
  <2>9. p = two => p[1] = ":" /\ p[2] = Slash
    BY <1>5
  <2> QED  BY <2>1, <2>5, <2>7, <2>8, <2>9, Zenon
<1>11. ValidFormat(path) <=>
         Strnlen(path, MaxPath) >= 3 /\ IsDigit(path[1]) /\ SubSeq(path, 2, 3) = two
  BY DEF ValidFormat, two
<1>12. Strnlen(path, MaxPath) >= 3 => Len(path) >= 3
  BY <1>1, PathAssumption DEF Strnlen
<1>13. Len(path) <= MaxPath /\ Len(path) >= 3 => Strnlen(path, MaxPath) >= 3
  BY <1>1, PathAssumption DEF Strnlen
<1> QED  BY <1>9, <1>10, <1>11, <1>12, <1>13 DEF drive

\* The first digit is the number of the first drive.
LEMMA ZeroDigit == IsDigit("0") /\ ToNumericDigit("0") = 0
<1> DEFINE all == {k \in 1 .. Len(Digits) : Digits[k] = "0"}
           k == SelectInSeq(Digits, LAMBDA d : d = "0")
<1>1. k = IF all # {} THEN Min(all) ELSE 0
  BY DEF SelectInSeq
<1> HIDE DEF k
<1>2. Len(Digits) = 10 /\ Digits[1] = "0"
  BY DEF Digits
<1>3. 1 \in all /\ all \in SUBSET Nat /\ all \subseteq 1 .. 10
  BY <1>2
<1>4. k \in all /\ k <= 1
  BY <1>1, <1>3, MinValue
<1>5. k = 1
  BY <1>3, <1>4
<1>6. IsDigit("0")
  BY <1>3 DEF IsDigit, Contains
<1> QED  BY <1>5, <1>6 DEF ToNumericDigit, k

\* A path on the first drive, and what is behind the drive.
LEMMA ParseDrive ==
  ASSUME NEW path \in Text
  PROVE  LET rest == SubSeq(path, 4, Len(path))
         IN  /\ rest \in Text
             /\ Len(path) >= 3 => Len(rest) = Len(path) - 3
             /\ \A k \in 1 .. Len(rest) : \E j \in 1 .. Len(path) : rest[k] = path[j]
             /\ Parse(path) # NoRoot /\ Parse(path).drive_no = 0 =>
                  /\ IsPrefix(<<"0", ":", Slash>>, path) /\ Len(path) <= MaxPath
                  /\ Parse(path).parts = PathParts(rest)
             /\ IsPrefix(<<"0", ":", Slash>>, path) /\ Len(path) <= MaxPath =>
                  /\ Parse(path) # NoRoot /\ Parse(path).drive_no = 0
                  /\ Parse(path).parts = PathParts(rest)
<1>1. PICK rest : rest = SubSeq(path, 4, Len(path))
  OBVIOUS
<1>2. Len(path) \in Nat /\ \A k \in 1 .. Len(path) : path[k] \in Character
  BY ElementOfSeq, LenProperties DEF Text
<1>3. /\ rest \in Seq(Character) /\ Len(rest) = IF 4 <= Len(path) THEN Len(path) - 4 + 1 ELSE 0
      /\ \A k \in 1 .. Len(path) - 4 + 1 : rest[k] = path[4 + k - 1]
  <2>1. 4 \in Int /\ Len(path) \in Int /\ \A k \in 4 .. Len(path) : path[k] \in Character
    BY <1>2
  <2> QED  BY <1>1, <2>1, SubSeqProperties
<1>4. Len(path) >= 3 => Len(rest) = Len(path) - 3
  <2>1. CASE 4 <= Len(path)
    <3>1. Len(rest) = Len(path) - 4 + 1
      BY <1>3, <2>1
    <3>2. Len(path) - 4 + 1 = Len(path) - 3
      BY <1>2
    <3> QED  BY <3>1, <3>2
  <2>2. CASE ~ (4 <= Len(path))
    <3>1. Len(rest) = 0
      BY <1>3, <2>2
    <3>2. Len(path) >= 3 => Len(path) - 3 = 0
      BY <1>2, <2>2
    <3> QED  BY <3>1, <3>2
  <2> QED  BY <2>1, <2>2
<1>5. ASSUME NEW k \in 1 .. Len(rest) PROVE \E j \in 1 .. Len(path) : rest[k] = path[j]
  <2>1. k \in 1 .. Len(path) - 4 + 1 /\ 4 + k - 1 \in 1 .. Len(path)
    BY <1>2, <1>3, <1>5
  <2> QED  BY <1>3, <2>1
<1>6. PICK root : root = Parse(path)
  OBVIOUS
<1>7. root = IF Len(path) > MaxPath \/ ~ValidFormat(path) THEN NoRoot
             ELSE [drive_no |-> ToNumericDigit(path[1]), parts |-> PathParts(rest)]
  BY <1>1, <1>6 DEF Parse
<1>8. ASSUME root # NoRoot, root.drive_no = 0
      PROVE  /\ IsPrefix(<<"0", ":", Slash>>, path) /\ Len(path) <= MaxPath
             /\ root.parts = PathParts(rest)
  <2>1. /\ ~ (Len(path) > MaxPath) /\ ValidFormat(path)
        /\ root = [drive_no |-> ToNumericDigit(path[1]), parts |-> PathParts(rest)]
    BY <1>7, <1>8
  <2>2. path[1] = Digits[root.drive_no + 1]
    BY <1>6, <1>8, ParseIs
  <2>3. Digits[1] = "0" /\ 0 + 1 = 1
    BY DEF Digits
  <2>4. path[1] = "0"
    BY <1>8, <2>2, <2>3
  <2>5. Len(path) <= MaxPath
    BY <1>2, <2>1, PathAssumption
  <2>6. IsPrefix(<<"0", ":", Slash>>, path)
    BY <2>1, <2>4, DriveIs
  <2> QED  BY <2>1, <2>5, <2>6
<1>9. ASSUME IsPrefix(<<"0", ":", Slash>>, path), Len(path) <= MaxPath
      PROVE  root # NoRoot /\ root.drive_no = 0 /\ root.parts = PathParts(rest)
  <2>1. Len(path) >= 3 /\ path[1] = "0" /\ path[2] = ":" /\ path[3] = Slash
    BY <1>9, DriveIs
  <2>2. ValidFormat(path)
    BY <1>9, <2>1, DriveIs, ZeroDigit
  <2>3. ~ (Len(path) > MaxPath)
    BY <1>2, <1>9, PathAssumption
  <2>4. root = [drive_no |-> 0, parts |-> PathParts(rest)]
    BY <1>7, <2>1, <2>2, <2>3, ZeroDigit
  <2>5. NoRoot.drive_no # 0
    BY DEF NoRoot
  <2> QED  BY <2>4, <2>5
<1> QED  BY <1>1, <1>3, <1>4, <1>5, <1>6, <1>8, <1>9 DEF Text

\* The first part of what is behind the drive.
LEMMA FirstPart ==
  ASSUME NEW s \in Text, PathParts(s) # <<>>
  PROVE  PathParts(s)[1] = PathPart(s).part /\ PathPart(s).part # <<>>
<1> DEFINE p == PathPart(s).part
           Begun(g) == \/ g.parts = <<>> /\ g.rest = s
                       \/ g.parts \in Seq(Text) /\ Len(g.parts) >= 1 /\ g.parts[1] = p
                          /\ p # <<>> /\ g.rest \in Text
<1>1. PICK G : /\ G[0] = [parts |-> <<>>, rest |-> s]
               /\ \A n \in 1 .. Len(s) : G[n] = ParsedOnce(G[n - 1])
               /\ PathParts(s) = G[Len(s)].parts
  BY PathPartsExist
<1>2. Len(s) \in Nat
  BY LenProperties DEF Text
<1>3. ASSUME NEW g, Begun(g) PROVE Begun(ParsedOnce(g))
  <2>1. PICK q : q = PathPart(g.rest).part
    OBVIOUS
  <2>2. PICK r : r = PathPart(g.rest).rest
    OBVIOUS
  <2>3. g.rest \in Text
    BY <1>3
  <2>4. q \in Text /\ r \in Text
    BY <2>1, <2>2, <2>3, PathPartIs
  <2>5. CASE q = <<>>
    BY <1>3, <2>1, <2>5 DEF ParsedOnce
  <2>6. CASE q # <<>>
    <3>1. PICK parts : parts = g.parts
      OBVIOUS
    <3>2. PICK more : more = Append(parts, q)
      OBVIOUS
    <3>3. ParsedOnce(g) = [parts |-> more, rest |-> r]
      BY <2>1, <2>2, <2>6, <3>1, <3>2 DEF ParsedOnce
    <3>4. parts \in Seq(Text) /\ Len(parts) \in Nat
      <4>1. parts \in Seq(Text)
        <5>1. <<>> \in Seq(Text)
          BY EmptySeq
        <5> QED  BY <1>3, <3>1, <5>1
      <4> QED  BY <4>1, LenProperties
    <3>5. /\ more \in Seq(Text) /\ Len(more) = Len(parts) + 1 /\ more[Len(parts) + 1] = q
          /\ \A k \in 1 .. Len(parts) : more[k] = parts[k]
      BY <2>4, <3>2, <3>4, AppendProperties
    <3>6. Len(more) >= 1
      BY <3>4, <3>5
    <3>7. more[1] = p /\ p # <<>>
      <4>1. CASE parts = <<>> /\ g.rest = s
        <5>1. q = p /\ Len(parts) = 0
          BY <2>1, <4>1
        <5> QED  BY <2>6, <3>5, <5>1
      <4>2. CASE Len(parts) >= 1 /\ parts[1] = p /\ p # <<>>
        <5>1. 1 \in 1 .. Len(parts)
          BY <3>4, <4>2
        <5> QED  BY <3>5, <4>2, <5>1
      <4> QED  BY <1>3, <3>1, <4>1, <4>2
    <3> QED  BY <2>4, <3>3, <3>5, <3>6, <3>7
  <2> QED  BY <2>5, <2>6
<1>4. Begun(G[0])
  BY <1>1
<1> HIDE DEF Begun, p
<1> DEFINE wrong == {n \in 0 .. Len(s) : ~ Begun(G[n])}
<1>5. wrong = {}
  <2> SUFFICES ASSUME wrong # {} PROVE FALSE
    OBVIOUS
  <2>1. wrong \in SUBSET Nat
    BY <1>2
  <2>2. PICK n \in wrong : \A y \in wrong : n <= y
    BY <2>1, LeastElement
  <2>3. n \in 0 .. Len(s) /\ ~ Begun(G[n])
    BY <2>2
  <2>4. n # 0
    BY <1>4, <2>3
  <2>5. n \in 1 .. Len(s) /\ n - 1 \in 0 .. Len(s) /\ n - 1 \notin wrong
    BY <1>2, <2>2, <2>3, <2>4
  <2>6. Begun(G[n - 1])
    BY <2>5
  <2> QED  BY <1>1, <1>3, <2>3, <2>5, <2>6
<1>6. Begun(G[Len(s)])
  <2>1. Len(s) \in 0 .. Len(s)
    BY <1>2
  <2> QED  BY <1>5, <2>1
<1> QED  BY <1>1, <1>6 DEF Begun, p

\* A path without a slash is its only part.
LEMMA OnePart ==
  ASSUME NEW s \in Text, ~ Contains(s, Slash)
  PROVE  PathParts(s) = IF s = <<>> THEN <<>> ELSE <<s>>
<1>1. PICK G : /\ G[0] = [parts |-> <<>>, rest |-> s]
               /\ \A n \in 1 .. Len(s) : G[n] = ParsedOnce(G[n - 1])
               /\ PathParts(s) = G[Len(s)].parts
  BY PathPartsExist
<1>2. Len(s) \in Nat
  BY LenProperties DEF Text
<1>3. ASSUME NEW t, ~ Contains(t, Slash)
      PROVE  PathPart(t) = [part |-> t, rest |-> <<>>]
  <2> DEFINE all == {i \in 1 .. Len(t) : t[i] = Slash}
             slash == SelectInSeq(t, LAMBDA c : c = Slash)
  <2>1. slash = IF all # {} THEN Min(all) ELSE 0
    BY DEF SelectInSeq
  <2>2. all = {}
    BY <1>3 DEF Contains
  <2> HIDE DEF all
  <2>3. slash = 0
    BY <2>1, <2>2
  <2> QED  BY <2>3 DEF PathPart
<1>4. ~ Contains(<<>>, Slash)
  BY DEF Contains
<1>5. CASE s = <<>>
  <2>1. Len(s) = 0
    BY <1>5
  <2>2. G[Len(s)].parts = <<>>
    BY <1>1, <2>1
  <2> QED  BY <1>1, <1>5, <2>2
<1>6. CASE s # <<>>
  <2> DEFINE one == [parts |-> <<s>>, rest |-> <<>>]
             wrong == {n \in 1 .. Len(s) : G[n] # one}
  <2>1. ParsedOnce(G[0]) = one
    <3>1. PathPart(s) = [part |-> s, rest |-> <<>>]
      BY <1>3
    <3>2. Append(<<>>, s) = <<s>>
      OBVIOUS
    <3> QED  BY <1>1, <1>6, <3>1, <3>2 DEF ParsedOnce
  <2>2. ParsedOnce(one) = one
    <3>1. PathPart(<<>>) = [part |-> <<>>, rest |-> <<>>]
      BY <1>3, <1>4
    <3> QED  BY <3>1 DEF ParsedOnce
  <2>3. one.parts = <<s>>
    OBVIOUS
  <2> HIDE DEF one
  <2>4. wrong = {}
    <3> SUFFICES ASSUME wrong # {} PROVE FALSE
      OBVIOUS
    <3>1. wrong \in SUBSET Nat
      BY <1>2
    <3>2. PICK n \in wrong : \A y \in wrong : n <= y
      BY <3>1, LeastElement
    <3>3. n \in 1 .. Len(s) /\ G[n] # one
      BY <3>2
    <3>4. n # 1
      <4>1. n = 1 => n - 1 = 0
        OBVIOUS
      <4> QED  BY <1>1, <2>1, <3>3, <4>1
    <3>5. n - 1 \in 1 .. Len(s) /\ n - 1 \notin wrong
      BY <1>2, <3>2, <3>3, <3>4
    <3> QED  BY <1>1, <2>2, <3>3, <3>5
  <2>5. Len(s) \in 1 .. Len(s)
    <3>1. Len(s) # 0
      BY <1>6, EmptySeq DEF Text
    <3> QED  BY <1>2, <3>1
  <2> QED  BY <1>1, <1>6, <2>3, <2>4, <2>5
<1> QED  BY <1>5, <1>6

-----------------------------------------------------------------------------
(* What the search finds. *)

\* An item of the array with the name, or nothing.
LEMMA FoundHasName ==
  ASSUME item \in Seq(DirectoryItem), NEW m, NEW name,
         NEW entry, entry = FindItem(m, name).entry, entry # 0
  PROVE  entry \in 1 .. Total /\ HasName(entry, name)
<1>1. PICK G : /\ G[0] = Nothing(m)
               /\ \A n \in 1 .. Total : G[n] = FoundNext(m, name, G[n - 1], n)
               /\ FindItem(m, name) = G[Total]
  BY FindItemExists
<1> DEFINE Found(n) == \/ G[n].entry = 0
                       \/ G[n].entry \in 1 .. n /\ HasName(G[n].entry, name)
           wrong == {n \in 0 .. Total : ~ Found(n)}
<1>2. Total \in Nat
  BY TotalIs
<1>3. wrong = {}
  <2> SUFFICES ASSUME wrong # {} PROVE FALSE
    OBVIOUS
  <2>1. wrong \in SUBSET Nat
    BY <1>2
  <2>2. PICK n \in wrong : \A y \in wrong : n <= y
    BY <2>1, LeastElement
  <2>3. n \in 0 .. Total /\ ~ Found(n)
    BY <2>2
  <2>4. n # 0
    <3>1. G[0].entry = 0
      BY <1>1 DEF Nothing
    <3> QED  BY <2>3, <3>1
  <2>5. n \in 1 .. Total /\ n - 1 \in 0 .. Total /\ n - 1 \notin wrong
    BY <1>2, <2>2, <2>3, <2>4
  <2>6. Found(n - 1)
    BY <2>5
  <2>7. CASE ~ HasName(n, name)
    <3>1. G[n] = G[n - 1]
      BY <1>1, <2>5, <2>7 DEF FoundNext
    <3>2. \A e : e \in 1 .. n - 1 => e \in 1 .. n
      BY <2>5
    <3> QED  BY <2>3, <2>6, <3>1, <3>2
  <2>8. CASE HasName(n, name)
    <3>1. PICK less : less = [m EXCEPT !.left = G[n - 1].m.left]
      OBVIOUS
    <3>2. G[n] = NewFatItem(less, n)
      BY <1>1, <2>5, <2>8, <3>1 DEF FoundNext
    <3>3. G[n].entry = 0 \/ G[n].entry = n
      BY <3>2 DEF NewFatItem, Nothing
    <3>4. n \in 1 .. n
      BY <2>5
    <3> QED  BY <2>3, <2>8, <3>3, <3>4
  <2> QED  BY <2>7, <2>8
<1>4. Total \in 0 .. Total
  BY <1>2
<1>5. Found(Total)
  BY <1>3, <1>4
<1> QED  BY <1>1, <1>5

\* With memory for its structures, an item is found.
LEMMA NewFatItemOpens ==
  ASSUME NEW m, MemoryOK(m), NEW i \in DOMAIN item \ {0}, i \in Nat, m.left >= 4
  PROVE  /\ NewFatItem(m, i).entry = i /\ NewFatItem(m, i).m.left >= m.left - 4
         /\ NewFatItem(m, i).m.left \in Nat
<1>1. PICK f : f = Kzalloc(m)
  OBVIOUS
<1>2. PICK loaded : loaded = IF item[i].attribute = Subdirectory /\ f.m.left >= 2 THEN Lost(f.m, 2) ELSE f.m
  OBVIOUS
<1>3. PICK copy : copy = Kzalloc(loaded)
  OBVIOUS
<1>4. NewFatItem(m, i) = IF f.ptr = 0 THEN Nothing(m)
        ELSE [m |-> copy.m, entry |-> i, private |-> 0, fat_item |-> f.ptr, clone |-> copy.ptr]
  BY <1>1, <1>2, <1>3 DEF NewFatItem
<1>5. m.left \in Nat
  BY DEF MemoryOK
<1>6. MemoryOK(f.m) /\ (f.ptr = 0 => m.left = 0)
  BY <1>1, KzallocIs
<1>7. f.m.left = m.left - 1
  <2>1. m.left # 0
    BY <1>5
  <2> QED  BY <1>1, <2>1 DEF Kzalloc
<1>8. MemoryOK(loaded) /\ loaded.left >= m.left - 3
  <2>1. CASE item[i].attribute = Subdirectory /\ f.m.left >= 2
    <3>1. loaded = [f.m EXCEPT !.left = f.m.left - 2]
      BY <1>2, <2>1 DEF Lost
    <3>2. f.m.left - 2 \in 0 .. f.m.left
      BY <1>5, <1>7, <2>1
    <3>3. MemoryOK(loaded) /\ loaded.left = f.m.left - 2
      BY <1>6, <3>1, <3>2, LessMemory
    <3> QED  BY <1>5, <1>7, <3>3
  <2>2. CASE ~ (item[i].attribute = Subdirectory /\ f.m.left >= 2)
    <3>1. loaded = f.m
      BY <1>2, <2>2
    <3> QED  BY <1>5, <1>6, <1>7, <3>1
  <2> QED  BY <2>1, <2>2
<1>9. loaded.left \in Nat /\ loaded.left # 0
  BY <1>5, <1>8 DEF MemoryOK
<1>10. copy.m.left = loaded.left - 1
  BY <1>3, <1>9 DEF Kzalloc
<1>11. NewFatItem(m, i) = [m |-> copy.m, entry |-> i, private |-> 0, fat_item |-> f.ptr, clone |-> copy.ptr]
  <2>1. f.ptr # 0
    BY <1>5, <1>6
  <2> QED  BY <1>4, <2>1
<1> QED  BY <1>5, <1>8, <1>9, <1>10, <1>11

\* A search that has memory for every match finds one.
LEMMA MatchIsFound ==
  ASSUME item \in Seq(DirectoryItem), NEW m, MemoryOK(m), NEW name, Matches(name) # {},
         m.left >= 4 * Cardinality(Matches(name))
  PROVE  LET r == FindItem(m, name)
         IN  r.entry # 0 /\ r.m.left \in Nat /\ r.m.left >= m.left - 4 * Cardinality(Matches(name))
<1>1. PICK G : /\ G[0] = Nothing(m)
               /\ \A n \in 1 .. Total : G[n] = FoundNext(m, name, G[n - 1], n)
               /\ FindItem(m, name) = G[Total]
  BY FindItemExists
<1> DEFINE seen(n) == {i \in 1 .. n : HasName(i, name)}
           all == Cardinality(Matches(name))
           Enough(n) == /\ G[n].m.left \in Nat /\ G[n].m.left <= m.left
                        /\ G[n].m.left >= m.left - 4 * Cardinality(seen(n))
                        /\ seen(n) # {} => G[n].entry # 0
           wrong == {n \in 0 .. Total : ~ Enough(n)}
<1>2. Total \in Nat /\ m.left \in Nat /\ \A n \in 1 .. Total : n \in DOMAIN item
  BY TotalIs, LenProperties DEF MemoryOK
<1>3. Matches(name) = seen(Total)
  BY DEF Matches
<1>4. ASSUME NEW n \in 0 .. Total
      PROVE  IsFiniteSet(seen(n)) /\ Cardinality(seen(n)) \in Nat /\ Cardinality(seen(n)) <= all
  <2>1. n \in Nat
    BY <1>2
  <2>2. IsFiniteSet(1 .. n) /\ IsFiniteSet(1 .. Total)
    <3>1. 1 \in Int /\ n \in Int /\ Total \in Int
      BY <1>2, <2>1
    <3> HIDE DEF seen, all
    <3> QED  BY <3>1, FS_Interval
  <2>3. seen(n) \subseteq 1 .. n /\ seen(Total) \subseteq 1 .. Total
    OBVIOUS
  <2>4. seen(n) \subseteq seen(Total)
    BY <1>2
  <2> HIDE DEF seen
  <2>5. IsFiniteSet(seen(n)) /\ IsFiniteSet(seen(Total))
    BY <2>2, <2>3, FS_Subset
  <2>6. Cardinality(seen(n)) \in Nat /\ Cardinality(seen(n)) <= Cardinality(seen(Total))
    BY <2>4, <2>5, FS_Subset, FS_CardinalityType
  <2> QED  BY <1>3, <2>5, <2>6
<1>5. ASSUME NEW n \in 1 .. Total, HasName(n, name)
      PROVE  Cardinality(seen(n)) = Cardinality(seen(n - 1)) + 1
  <2>1. n - 1 \in 0 .. Total /\ n \in Nat
    BY <1>2
  <2>2. seen(n) = seen(n - 1) \cup {n} /\ n \notin seen(n - 1)
    BY <1>2, <1>5
  <2>3. IsFiniteSet(seen(n - 1))
    BY <1>4, <2>1
  <2> HIDE DEF seen
  <2> QED  BY <2>2, <2>3, FS_AddElement
<1>6. ASSUME NEW n \in 1 .. Total, ~ HasName(n, name)
      PROVE  seen(n) = seen(n - 1)
  BY <1>2, <1>6
<1>7. seen(0) = {} /\ Cardinality(seen(0)) = 0
  <2>1. seen(0) = {}
    OBVIOUS
  <2> QED  BY <2>1, FS_EmptySet
<1>8. all \in Nat /\ m.left >= 4 * all
  <2>1. Total \in 0 .. Total
    BY <1>2
  <2> QED  BY <1>3, <1>4, <2>1
<1> HIDE DEF seen, all
<1>9. Enough(0)
  <2>1. G[0].m = m
    BY <1>1 DEF Nothing
  <2> QED  BY <1>2, <1>7, <2>1
<1>10. wrong = {}
  <2> SUFFICES ASSUME wrong # {} PROVE FALSE
    OBVIOUS
  <2>1. wrong \in SUBSET Nat
    BY <1>2
  <2>2. PICK n \in wrong : \A y \in wrong : n <= y
    BY <2>1, LeastElement
  <2>3. n \in 0 .. Total /\ ~ Enough(n)
    BY <2>2
  <2>4. n # 0
    BY <1>9, <2>3
  <2>5. n \in 1 .. Total /\ n - 1 \in 0 .. Total /\ n - 1 \notin wrong
    BY <1>2, <2>2, <2>3, <2>4
  <2>6. Enough(n - 1)
    BY <2>5
  <2>7. CASE ~ HasName(n, name)
    <3>1. G[n] = G[n - 1]
      BY <1>1, <2>5, <2>7 DEF FoundNext
    <3>2. seen(n) = seen(n - 1)
      BY <1>6, <2>5, <2>7
    <3> QED  BY <2>3, <2>6, <3>1, <3>2
  <2>8. CASE HasName(n, name)
    <3>1. PICK left : left = G[n - 1].m.left
      OBVIOUS
    <3>2. PICK c \in Nat : c = Cardinality(seen(n - 1))
      BY <1>4, <2>5
    <3>3. Cardinality(seen(n)) = c + 1 /\ c + 1 <= all
      BY <1>4, <1>5, <2>3, <2>5, <2>8, <3>2
    <3>4. left \in Nat /\ left <= m.left /\ left >= m.left - 4 * c
      BY <2>6, <3>1, <3>2
    <3>5. left >= 4 /\ left \in 0 .. m.left
      BY <1>2, <1>8, <3>2, <3>3, <3>4
    <3>6. PICK less : less = [m EXCEPT !.left = left]
      OBVIOUS
    <3>7. MemoryOK(less) /\ less.left = left
      BY <3>5, <3>6, LessMemory
    <3>8. G[n] = NewFatItem(less, n)
      BY <1>1, <2>5, <2>8, <3>1, <3>6 DEF FoundNext
    <3>9. n \in DOMAIN item \ {0} /\ n \in Nat
      BY <1>2, <2>4, <2>5
    <3>10. /\ NewFatItem(less, n).entry = n /\ NewFatItem(less, n).m.left >= left - 4
           /\ NewFatItem(less, n).m.left \in Nat
      BY <3>5, <3>7, <3>9, NewFatItemOpens
    <3>11. Opening(less, NewFatItem(less, n))
      BY <3>7, <3>9, NewFatItemIs
    <3>12. NewFatItem(less, n).m.left <= left
      BY <3>7, <3>11 DEF Opening
    <3>13. PICK now : now = G[n].m.left
      OBVIOUS
    <3>14. now \in Nat /\ now >= left - 4 /\ now <= left /\ G[n].entry # 0
      BY <2>4, <3>8, <3>10, <3>12, <3>13
    <3>15. now <= m.left /\ now >= m.left - 4 * (c + 1)
      BY <1>2, <3>2, <3>4, <3>14
    <3>16. Enough(n)
      BY <3>3, <3>13, <3>14, <3>15
    <3> QED  BY <2>3, <3>16
  <2> QED  BY <2>7, <2>8
<1>11. Total \in 0 .. Total
  BY <1>2
<1>12. Enough(Total)
  BY <1>10, <1>11
<1> QED  BY <1>1, <1>3, <1>12 DEF all

\* In front of the first deleted item, the search sees every item.
LEMMA FrontIsSearched ==
  ASSUME item \in Seq(DirectoryItem), NEW i \in DOMAIN item, \A j \in 1 .. i : Live(j)
  PROVE  i \in 1 .. Total
<1> DEFINE live == {j \in DOMAIN item : Live(j)}
<1>1. DOMAIN item = 1 .. Len(item) /\ Len(item) \in Nat
  BY LenProperties
<1>2. i \in Nat \ {0}
  BY <1>1
<1>3. IsFiniteSet(1 .. Len(item)) /\ IsFiniteSet(1 .. i) /\ Cardinality(1 .. i) = i
  BY <1>1, <1>2, FS_Interval
<1>4. live \subseteq 1 .. Len(item) /\ 1 .. i \subseteq live
  BY <1>1
<1> HIDE DEF live
<1>5. IsFiniteSet(live) /\ i <= Cardinality(live)
  BY <1>3, <1>4, FS_Subset
<1>6. Total = Cardinality(live)
  BY DEF Total, live
<1>7. Total \in Nat
  BY TotalIs
<1> QED  BY <1>2, <1>5, <1>6, <1>7

-----------------------------------------------------------------------------
(* The inductive invariant.  Which entries are open and what they hold is   *)
(* about the descriptors alone; the structures of each lie apart in the     *)
(* heap, in which there is room because it is finite.                       *)

FileDescriptor ==
  [item : Nat, pos : Nat, desc : Nat, private : Nat, fat_item : Nat, clone : Nat]

DiskIsRight ==
  /\ item \in Seq(DirectoryItem)
  /\ \A k \in DOMAIN item : chain[item[k].cluster][1] = item[k].cluster

TableIsRight ==
  /\ file_descriptors \in [Index -> FileDescriptor]
  /\ \A fd \in Index :
       file_descriptors[fd] # Closed => file_descriptors[fd].item \in DOMAIN item

Structures(d) == {d.desc, d.private, d.fat_item, d.clone}
Apart(d) ==
  /\ d.desc \notin {d.private, d.fat_item, d.clone}
  /\ d.private \notin {d.fat_item, d.clone} /\ d.fat_item # d.clone

HeapIsRight ==
  /\ heap \in SUBSET (Nat \ {0}) /\ IsFiniteSet(heap)
  /\ \A fd \in Index : file_descriptors[fd] # Closed =>
       Apart(file_descriptors[fd]) /\ Structures(file_descriptors[fd]) \subseteq heap
  /\ \A fd, other \in Index :
       fd # other /\ file_descriptors[fd] # Closed /\ file_descriptors[other] # Closed
         => Structures(file_descriptors[fd]) \cap Structures(file_descriptors[other]) = {}

FInv == DiskIsRight /\ TableIsRight /\ HeapIsRight

LEMMA ClosedIs ==
  Closed = [item |-> 0, pos |-> 0, desc |-> 0, private |-> 0, fat_item |-> 0, clone |-> 0]
BY DEF Closed, Descriptor, Nothing

LEMMA FilesBegin == Init => FInv
<1> SUFFICES ASSUME Init PROVE FInv
  OBVIOUS
<1>1. DiskIsRight
  <2>1. PICK i \in Images : item = i.item /\ chain = i.chain
    BY DEF Init
  <2> QED  BY <2>1, DiskAssumption DEF DiskIsRight
<1>2. \A fd \in Index : file_descriptors[fd] = Closed
  BY DEF Init
<1>3. TableIsRight
  BY <1>2, ClosedIs DEF Init, TableIsRight, FileDescriptor
<1>4. HeapIsRight
  BY <1>2, FS_EmptySet DEF Init, HeapIsRight
<1> QED  BY <1>1, <1>3, <1>4 DEF FInv

\* What fopen changes: nothing, or an entry that nobody has.
ChangesNothing(args) ==
  /\ UNCHANGED <<file_descriptors, heap>>
  /\ call' = NoCall \/ call' = Call("fopen", args, 0, <<>>)

OpensEntry(args, fd, d) ==
  /\ file_descriptors[fd] = Closed
  /\ file_descriptors' = [file_descriptors EXCEPT ![fd] = d]
  /\ d.item \in DOMAIN item /\ d.pos = 0
  /\ heap' = heap \cup Structures(d) /\ Structures(d) \subseteq 1 .. Cardinality(heap) + 4
  /\ Apart(d) /\ Structures(d) \subseteq heap' \ heap
  /\ heap \subseteq heap' /\ heap' \in SUBSET (Nat \ {0}) /\ IsFiniteSet(heap')
  /\ call' = Call("fopen", args, fd, <<>>)

LEMMA FopenIs ==
  ASSUME FInv, NEW path \in Text, NEW mode, NEW left \in Nat, Fopen(path, mode, left)
  PROVE  \/ ChangesNothing(<<path, mode, left>>)
         \/ \E fd \in Index, d \in FileDescriptor : OpensEntry(<<path, mode, left>>, fd, d)
<1> DEFINE root == Parse(path)
           path_structures == IF root = NoRoot THEN 0 ELSE 1 + 2 * Len(root.parts)
           m == [heap |-> heap, left |-> left - path_structures]
           good == root.parts # <<>> /\ root.drive_no = 0 /\ filesystem # "none" /\ mode = "r"
           opened == IF good THEN Fat16Open(m, root.parts) ELSE Nothing(m)
           desc == Kzalloc(opened.m)
           found == opened.entry # 0 /\ FreeIndices # {}
<1>1. path_structures \in Nat
  <2>1. CASE root = NoRoot
    BY <2>1
  <2>2. CASE root # NoRoot
    <3>1. Len(root.parts) \in Nat
      BY <2>2, ParseIs, LenProperties
    <3> QED  BY <2>2, <3>1
  <2> QED  BY <2>1, <2>2
<1>2. CASE left < path_structures
  BY <1>2 DEF Fopen, Ends, ChangesNothing
<1>3. CASE left >= path_structures /\ ~ found
  BY <1>3 DEF Fopen, ChangesNothing
<1>4. CASE left >= path_structures /\ found /\ desc.ptr = 0
  BY <1>4 DEF Fopen, Ends, ChangesNothing
<1>5. CASE left >= path_structures /\ found /\ desc.ptr # 0
  <2>1. /\ call' = Call("fopen", <<path, mode, left>>, Min(FreeIndices), <<>>)
        /\ file_descriptors' =
             [file_descriptors EXCEPT ![Min(FreeIndices)] = Descriptor(opened, 0, desc.ptr)]
        /\ heap' = desc.m.heap
    BY <1>5 DEF Fopen
  <2> HIDE DEF root, path_structures, desc
  <2>3. MemoryOK(m) /\ m.heap = heap
    BY <1>5, <1>1 DEF MemoryOK, FInv, HeapIsRight
  <2>4. Nothing(m).entry = 0
    BY DEF Nothing
  <2> HIDE DEF m
  <2>5. opened.entry # 0 /\ FreeIndices # {} /\ opened = Fat16Open(m, root.parts)
    BY <1>5, <2>4
  <2> HIDE DEF opened
  <2>6. OpenedOn(heap, opened)
    <3>1. item \in Seq(DirectoryItem)
      BY DEF FInv, DiskIsRight
    <3>2. PICK parts : parts = root.parts
      OBVIOUS
    <3>3. opened = Fat16Open(m, parts)
      BY <2>5, <3>2
    <3>4. OpenedOn(m.heap, opened)
      BY <2>3, <2>5, <3>1, <3>3, Fat16OpenIs
    <3> QED  BY <2>3, <3>4, Zenon
  <2>7. /\ MemoryOK(desc.m) /\ desc.ptr \in Nat /\ desc.ptr \notin opened.m.heap
        /\ desc.m.heap = opened.m.heap \cup {desc.ptr} /\ opened.m.left > 0
        /\ desc.ptr <= Cardinality(opened.m.heap) + 1
    BY <1>5, <2>6, KzallocIs DEF desc, OpenedOn
  <2>8. PICK fd : fd = Min(FreeIndices)
    OBVIOUS
  <2>9. fd \in Index /\ file_descriptors[fd] = Closed
    <3>1. FreeIndices \in SUBSET Nat
      BY TableAssumption DEF FreeIndices, Index
    <3>2. fd \in FreeIndices
      BY <2>5, <2>8, <3>1, MinValue
    <3> QED  BY <3>2 DEF FreeIndices
  <2>10. PICK d : d = Descriptor(opened, 0, desc.ptr)
    OBVIOUS
  <2>11. /\ d \in FileDescriptor /\ d.item = opened.entry /\ d.desc = desc.ptr
         /\ d.private = opened.private /\ d.fat_item = opened.fat_item /\ d.clone = opened.clone
         /\ d.pos = 0
    BY <2>6, <2>7, <2>10 DEF Descriptor, FileDescriptor, OpenedOn
  <2>12. Apart(d) /\ Structures(d) \subseteq heap' \ heap
    BY <2>1, <2>6, <2>7, <2>11 DEF Apart, Structures, OpenedOn
  <2>13. heap \subseteq heap' /\ heap' \in SUBSET (Nat \ {0}) /\ IsFiniteSet(heap')
    BY <2>1, <2>6, <2>7 DEF MemoryOK, OpenedOn
  <2>14. /\ call' = Call("fopen", <<path, mode, left>>, fd, <<>>)
         /\ file_descriptors' = [file_descriptors EXCEPT ![fd] = d]
    BY <2>1, <2>8, <2>10, Zenon
  <2>15. d.item \in DOMAIN item /\ d \in FileDescriptor /\ d.pos = 0
    BY <2>6, <2>11 DEF OpenedOn
  <2>16. opened.clone # 0
    BY <2>6, <2>7 DEF OpenedOn
  <2>17. heap' = heap \cup Structures(d)
    BY <2>1, <2>6, <2>7, <2>11, <2>16 DEF Structures, OpenedOn
  <2>18. Structures(d) \subseteq 1 .. Cardinality(heap) + 4
    <3>1. \A s \in Structures(d) : s \in Nat \ {0}
      BY <2>12, <2>13
    <3>2. desc.ptr <= Cardinality(heap) + 4
      BY <2>6, <2>7, <2>16 DEF OpenedOn
    <3>3. \A s \in Structures(d) : s <= Cardinality(heap) + 4
      BY <2>6, <2>7, <2>11, <3>2 DEF Structures, OpenedOn
    <3> QED  BY <2>6, <3>1, <3>3 DEF OpenedOn
  <2>19. OpensEntry(<<path, mode, left>>, fd, d)
    BY <2>9, <2>12, <2>13, <2>14, <2>15, <2>17, <2>18 DEF OpensEntry
  <2> QED  BY <2>9, <2>15, <2>19, Zenon
<1> HIDE DEF found, desc, path_structures
<1>6. left < path_structures \/ left >= path_structures
  BY <1>1
<1> QED  BY <1>2, <1>3, <1>4, <1>5, <1>6, Zenon

LEMMA CallsOfFopen ==
  ASSUME NEW open \in Opens
  PROVE  open[1] \in Text
<1>1. open[1] \in Seq(STRING)
  BY TableAssumption
<1>2. Len(open[1]) \in Nat /\ open[1] \in [1 .. Len(open[1]) -> STRING]
  BY <1>1, LenProperties
<1>3. open[1] \in [1 .. Len(open[1]) -> Character]
  BY <1>2 DEF Character
<1> QED  BY <1>2, <1>3 DEF Text

\* A step that opens nothing.
KeepsEntry(i) ==
  file_descriptors'[i] # Closed =>
    /\ file_descriptors[i] # Closed
    /\ file_descriptors'[i].item = file_descriptors[i].item
    /\ Structures(file_descriptors'[i]) = Structures(file_descriptors[i])
    /\ Apart(file_descriptors[i]) => Apart(file_descriptors'[i])
    /\ Structures(file_descriptors[i]) \subseteq heap'

LEMMA KeepsFiles ==
  ASSUME FInv, UNCHANGED disk, file_descriptors' \in [Index -> FileDescriptor],
         heap' \subseteq heap, \A i \in Index : KeepsEntry(i)
  PROVE  FInv'
<1>1. DiskIsRight'
  BY DEF FInv, DiskIsRight, disk
<1>2. TableIsRight'
  <2>1. item' = item /\ Closed' = Closed
    BY ClosedIs DEF disk
  <2> QED  BY <2>1 DEF FInv, TableIsRight, KeepsEntry, Index
<1>3. heap' \in SUBSET (Nat \ {0}) /\ IsFiniteSet(heap')
  BY FS_Subset DEF FInv, HeapIsRight
<1>4. ASSUME NEW i \in Index, file_descriptors'[i] # Closed
      PROVE  Apart(file_descriptors'[i]) /\ Structures(file_descriptors'[i]) \subseteq heap'
  BY <1>4 DEF FInv, HeapIsRight, KeepsEntry
<1>5. ASSUME NEW i \in Index, NEW j \in Index, i # j,
             file_descriptors'[i] # Closed, file_descriptors'[j] # Closed
      PROVE  Structures(file_descriptors'[i]) \cap Structures(file_descriptors'[j]) = {}
  BY <1>5 DEF FInv, HeapIsRight, KeepsEntry
<1>6. HeapIsRight'
  BY <1>3, <1>4, <1>5, Zenon DEF HeapIsRight, Index, Apart, Structures, Closed, Nothing, Descriptor
<1> QED  BY <1>1, <1>2, <1>6 DEF FInv

LEMMA FopenKeeps ==
  ASSUME FInv, NEW path \in Text, NEW mode, NEW left \in Nat, Fopen(path, mode, left)
  PROVE  FInv'
<1>1. UNCHANGED disk
  BY DEF Fopen
<1>2. CASE ChangesNothing(<<path, mode, left>>)
  <2>1. file_descriptors' \in [Index -> FileDescriptor] /\ heap' \subseteq heap
    BY <1>2 DEF ChangesNothing, FInv, TableIsRight
  <2>2. \A i \in Index : KeepsEntry(i)
    BY <1>2 DEF ChangesNothing, KeepsEntry, FInv, HeapIsRight
  <2> QED  BY <1>1, <2>1, <2>2, KeepsFiles
<1>3. ASSUME NEW fd \in Index, NEW d \in FileDescriptor, OpensEntry(<<path, mode, left>>, fd, d)
      PROVE  FInv'
  <2>1. /\ item' = item /\ chain' = chain /\ Closed' = Closed /\ Index' = Index
        /\ file_descriptors' \in [Index -> FileDescriptor]
        /\ file_descriptors'[fd] = d
        /\ \A i \in Index \ {fd} : file_descriptors'[i] = file_descriptors[i]
    BY <1>1, <1>3 DEF disk, OpensEntry, FInv, TableIsRight, Index
  <2>2. DiskIsRight'
    BY <2>1 DEF FInv, DiskIsRight
  <2>3. TableIsRight'
    BY <1>3, <2>1 DEF FInv, TableIsRight, OpensEntry
  <2>4. \A i \in Index \ {fd} : file_descriptors[i] # Closed =>
          /\ Apart(file_descriptors[i]) /\ Structures(file_descriptors[i]) \subseteq heap'
          /\ Structures(file_descriptors[i]) \cap Structures(d) = {}
    BY <1>3 DEF OpensEntry, FInv, HeapIsRight
  <2>5. ASSUME NEW i \in Index, file_descriptors'[i] # Closed
        PROVE  Apart(file_descriptors'[i]) /\ Structures(file_descriptors'[i]) \subseteq heap'
    <3>1. CASE i = fd
      BY <1>3, <2>1, <3>1 DEF OpensEntry
    <3>2. CASE i # fd
      BY <2>1, <2>4, <2>5, <3>2
    <3> QED  BY <3>1, <3>2
  <2>6. ASSUME NEW i \in Index, NEW j \in Index, i # j,
               file_descriptors'[i] # Closed, file_descriptors'[j] # Closed
        PROVE  Structures(file_descriptors'[i]) \cap Structures(file_descriptors'[j]) = {}
    <3>1. CASE i = fd
      <4>1. j \in Index \ {fd} /\ file_descriptors[j] # Closed
        BY <2>1, <2>6, <3>1
      <4> QED  BY <2>1, <2>4, <3>1, <4>1
    <3>2. CASE j = fd
      <4>1. i \in Index \ {fd} /\ file_descriptors[i] # Closed
        BY <2>1, <2>6, <3>2
      <4> QED  BY <2>1, <2>4, <3>2, <4>1
    <3>3. CASE i # fd /\ j # fd
      BY <2>1, <2>6, <3>3 DEF FInv, HeapIsRight
    <3> QED  BY <3>1, <3>2, <3>3
  <2>7. heap' \in SUBSET (Nat \ {0}) /\ IsFiniteSet(heap')
    BY <1>3 DEF OpensEntry
  <2>8. HeapIsRight'
    BY <2>5, <2>6, <2>7, Zenon
       DEF HeapIsRight, Index, Apart, Structures, Closed, Nothing, Descriptor
  <2> QED  BY <2>2, <2>3, <2>8 DEF FInv
<1> QED  BY <1>2, <1>3, FopenIs

LEMMA FseekKeeps ==
  ASSUME FInv, NEW fd \in 0 .. MaxDescriptors, NEW offset \in Lengths, NEW whence,
         Fseek(fd, offset, whence)
  PROVE  /\ FInv'
         /\ \A i \in Index : file_descriptors'[i].item = file_descriptors[i].item
<1>1. UNCHANGED disk /\ heap' = heap
  BY DEF Fseek
<1>2. file_descriptors \in [Index -> FileDescriptor] /\ \A i \in Index : i # 0
  BY DEF FInv, TableIsRight, Index
<1>3. /\ file_descriptors' \in [Index -> FileDescriptor]
      /\ \A i \in Index :
           /\ file_descriptors'[i] # Closed => file_descriptors[i] # Closed
           /\ file_descriptors'[i].item = file_descriptors[i].item
           /\ file_descriptors'[i].desc = file_descriptors[i].desc
           /\ file_descriptors'[i].private = file_descriptors[i].private
           /\ file_descriptors'[i].fat_item = file_descriptors[i].fat_item
           /\ file_descriptors'[i].clone = file_descriptors[i].clone
  <2>1. CASE UNCHANGED file_descriptors
    BY <1>2, <2>1
  <2>2. CASE Seeks(fd, offset, whence)
    <3>1. PICK pos : /\ file_descriptors' = [file_descriptors EXCEPT ![fd].pos = pos]
                     /\ pos = offset \/ pos = file_descriptors[fd].pos + offset
      BY <2>2 DEF Fseek
    <3>2. fd \in Index /\ file_descriptors[fd] # Closed
      BY <2>2, TableAssumption DEF Seeks, IsOpen, Handles, Index
    <3>3. pos \in Nat
      BY <1>2, <3>1, <3>2, TableAssumption DEF FileDescriptor
    <3>4. PICK d : d = [file_descriptors[fd] EXCEPT !.pos = pos]
      OBVIOUS
    <3>5. /\ d \in FileDescriptor
          /\ d.item = file_descriptors[fd].item /\ d.desc = file_descriptors[fd].desc
          /\ d.private = file_descriptors[fd].private
          /\ d.fat_item = file_descriptors[fd].fat_item /\ d.clone = file_descriptors[fd].clone
      BY <1>2, <3>2, <3>3, <3>4 DEF FileDescriptor
    <3>6. file_descriptors' = [file_descriptors EXCEPT ![fd] = d]
      BY <3>1, <3>4
    <3>7. /\ file_descriptors' \in [Index -> FileDescriptor] /\ file_descriptors'[fd] = d
          /\ \A i \in Index \ {fd} : file_descriptors'[i] = file_descriptors[i]
      BY <1>2, <3>2, <3>5, <3>6
    <3> QED  BY <3>2, <3>5, <3>7
  <2> QED  BY <2>1, <2>2 DEF Fseek
<1>4. \A i \in Index : KeepsEntry(i)
  BY <1>1, <1>3 DEF KeepsEntry, Structures, Apart, FInv, HeapIsRight
<1>5. FInv'
  BY <1>1, <1>3, <1>4, KeepsFiles
<1> QED  BY <1>3, <1>5

LEMMA FcloseKeeps ==
  ASSUME FInv, NEW fd \in 0 .. MaxDescriptors, Fclose(fd)
  PROVE  /\ FInv'
         /\ \A i \in Index :
              \/ file_descriptors'[i] = file_descriptors[i]
              \/ i = fd /\ file_descriptors'[i] = Closed
<1>1. UNCHANGED disk
  BY DEF Fclose
<1>2. file_descriptors \in [Index -> FileDescriptor]
  BY DEF FInv, TableIsRight
<1>3. \A i \in Index :
        file_descriptors'[i] = IF IsOpen(fd) /\ i = fd THEN Closed ELSE file_descriptors[i]
  BY DEF Fclose
<1>4. file_descriptors' \in [Index -> FileDescriptor]
  <2>1. Closed \in FileDescriptor
    BY ClosedIs DEF FileDescriptor
  <2>2. file_descriptors' =
          [i \in Index |-> IF IsOpen(fd) /\ i = fd THEN Closed ELSE file_descriptors[i]]
    BY DEF Fclose
  <2> HIDE DEF IsOpen, Closed
  <2> QED  BY <1>2, <2>1, <2>2
<1>5. heap' = IF IsOpen(fd) THEN heap \ Structures(file_descriptors[fd]) ELSE heap
  BY DEF Fclose, Fat16Close, Structures
<1>6. heap' \subseteq heap
  BY <1>5
<1>7. ASSUME NEW i \in Index
      PROVE  KeepsEntry(i)
  <2> SUFFICES ASSUME file_descriptors'[i] # Closed PROVE KeepsEntry(i)
    BY DEF KeepsEntry
  <2>1. file_descriptors'[i] = file_descriptors[i] /\ ~ (IsOpen(fd) /\ i = fd)
    BY <1>3
  <2>2. Structures(file_descriptors[i]) \subseteq heap'
    <3>1. CASE ~ IsOpen(fd)
      BY <1>5, <2>1, <3>1 DEF FInv, HeapIsRight
    <3>2. CASE IsOpen(fd)
      <4>1. fd \in Index /\ file_descriptors[fd] # Closed /\ i # fd
        BY <2>1, <3>2, TableAssumption DEF IsOpen, Handles, Index
      <4> QED  BY <1>5, <2>1, <3>2, <4>1 DEF FInv, HeapIsRight
    <3> QED  BY <3>1, <3>2
  <2> QED  BY <2>1, <2>2 DEF KeepsEntry
<1>8. FInv'
  BY <1>1, <1>4, <1>6, <1>7, KeepsFiles
<1> QED  BY <1>3, <1>8

LEMMA FilesStep == FInv /\ [Next]_vars => FInv'
<1> SUFFICES ASSUME FInv, [Next]_vars PROVE FInv'
  OBVIOUS
<1>1. CASE UNCHANGED <<disk, file_descriptors, heap>>
  <2>1. file_descriptors' \in [Index -> FileDescriptor]
    BY <1>1 DEF FInv, TableIsRight
  <2>2. \A i \in Index : KeepsEntry(i)
    BY <1>1 DEF KeepsEntry, FInv, HeapIsRight
  <2> QED  BY <1>1, <2>1, <2>2, KeepsFiles
<1>2. ASSUME NEW open \in Opens, NEW left \in Memory, Fopen(open[1], open[2], left)
      PROVE  FInv'
  BY <1>2, CallsOfFopen, FopenKeeps, TableAssumption
<1>3. ASSUME NEW fd \in 0 .. MaxDescriptors, Fstat(fd)
      PROVE  FInv'
  BY <1>1, <1>3 DEF Fstat
<1>4. ASSUME NEW fd \in 0 .. MaxDescriptors, Fclose(fd)
      PROVE  FInv'
  BY <1>4, FcloseKeeps
<1>5. ASSUME NEW fd \in 0 .. MaxDescriptors, NEW offset \in Lengths,
             NEW whence \in {"SEEK_SET", "SEEK_CUR", "SEEK_END"}, Fseek(fd, offset, whence)
      PROVE  FInv'
  BY <1>5, FseekKeeps
<1>6. ASSUME NEW fd \in 0 .. MaxDescriptors, NEW size \in Lengths, NEW nmemb \in 0 .. 2,
             Fread(fd, size, nmemb)
      PROVE  FInv'
  BY <1>1, <1>6 DEF Fread
<1>7. CASE UNCHANGED vars
  BY <1>1, <1>7 DEF vars
<1> QED  BY <1>2, <1>3, <1>4, <1>5, <1>6, <1>7 DEF Next

LEMMA FilesInvariant == Spec => []FInv
BY FilesBegin, FilesStep, PTL DEF Spec

-----------------------------------------------------------------------------
(* What fopen opens. *)

\* What is behind the drive.
Behind(path) == SubSeq(path, 4, Len(path))
Drive == <<"0", ":", Slash>>

\* An entry that fopen hands out, and the item in it.
LEMMA FopenNames ==
  ASSUME FInv, NEW path \in Text, NEW mode, NEW left \in Nat, Fopen(path, mode, left),
         NEW fd, fd = call'.value, call'.name = "fopen", fd # 0
  PROVE  /\ fd \in Index /\ file_descriptors[fd] = Closed
         /\ IsPrefix(Drive, path) /\ Len(path) <= MaxPath
         /\ PathParts(Behind(path)) # <<>>
         /\ file_descriptors'[fd].item \in 1 .. Total
         /\ HasName(file_descriptors'[fd].item, PathParts(Behind(path))[1])
<1> DEFINE root == Parse(path)
           path_structures == IF root = NoRoot THEN 0 ELSE 1 + 2 * Len(root.parts)
           m == [heap |-> heap, left |-> left - path_structures]
           good == root.parts # <<>> /\ root.drive_no = 0 /\ filesystem # "none" /\ mode = "r"
           opened == IF good THEN Fat16Open(m, root.parts) ELSE Nothing(m)
           desc == Kzalloc(opened.m)
           found == opened.entry # 0 /\ FreeIndices # {}
<1>1. ~ (left < path_structures)
  BY DEF Fopen, Ends, NoCall, Call
<1>2. ~ (left >= path_structures /\ ~ found)
  BY DEF Fopen, Call
<1>3. ~ (left >= path_structures /\ found /\ desc.ptr = 0)
  BY <1>1 DEF Fopen, Ends, NoCall, Call
<1>4. /\ call' = Call("fopen", <<path, mode, left>>, Min(FreeIndices), <<>>)
      /\ file_descriptors' =
           [file_descriptors EXCEPT ![Min(FreeIndices)] = Descriptor(opened, 0, desc.ptr)]
  BY <1>1, <1>2, <1>3 DEF Fopen
<1>5. found
  <2>1. path_structures \in Nat
    <3>1. CASE root = NoRoot
      BY <3>1
    <3>2. CASE root # NoRoot
      <4>1. Len(root.parts) \in Nat
        BY <3>2, ParseIs, LenProperties
      <4> QED  BY <3>2, <4>1
    <3> QED  BY <3>1, <3>2
  <2> HIDE DEF path_structures, found
  <2>2. left >= path_structures
    BY <1>1, <2>1
  <2> QED  BY <1>2, <2>2
<1> HIDE DEF path_structures
<1>6. Nothing(m).entry = 0
  BY DEF Nothing
<1> HIDE DEF m
<1>7. good /\ opened = Fat16Open(m, root.parts) /\ opened.entry # 0 /\ FreeIndices # {}
  BY <1>5, <1>6
<1>8. fd \in Index /\ file_descriptors[fd] = Closed /\ fd = Min(FreeIndices)
  <2>1. fd = Min(FreeIndices)
    BY <1>4 DEF Call
  <2>2. FreeIndices \in SUBSET Nat
    BY TableAssumption DEF FreeIndices, Index
  <2>3. fd \in FreeIndices
    BY <1>7, <2>1, <2>2, MinValue
  <2> QED  BY <2>1, <2>3 DEF FreeIndices
<1>9. file_descriptors'[fd].item = opened.entry
  <2>1. file_descriptors' = [file_descriptors EXCEPT ![fd] = Descriptor(opened, 0, desc.ptr)]
    BY <1>4, <1>8
  <2>2. file_descriptors'[fd] = Descriptor(opened, 0, desc.ptr)
    BY <1>8, <2>1 DEF FInv, TableIsRight
  <2> QED  BY <2>2 DEF Descriptor
<1> HIDE DEF found, desc, opened
<1>10. root # NoRoot /\ root.drive_no = 0 /\ root.parts # <<>>
  BY <1>7 DEF NoRoot
<1>11. IsPrefix(Drive, path) /\ Len(path) <= MaxPath /\ root.parts = PathParts(Behind(path))
  BY <1>10, ParseDrive DEF Drive, Behind
<1>12. root.parts \in Seq(Text)
  BY <1>10, ParseIs
<1> HIDE DEF root, good
<1>13. PICK d : d = Kzalloc(m)
  OBVIOUS
<1>14. PICK entry : entry = FindItem(d.m, root.parts[1]).entry
  OBVIOUS
<1>15. opened.entry = entry /\ entry # 0
  <2>1. ~ (Len(root.parts) > 1)
    BY <1>7, <1>13 DEF Fat16Open, DirectoryEntry, Nothing
  <2>2. DirectoryEntry(d.m, root.parts) = FindItem(d.m, root.parts[1])
    BY <2>1 DEF DirectoryEntry
  <2>3. PICK result : result = DirectoryEntry(d.m, root.parts)
    OBVIOUS
  <2>4. opened = IF d.ptr = 0 \/ result.entry = 0 THEN Nothing(m) ELSE [result EXCEPT !.private = d.ptr]
    BY <1>7, <1>13, <2>3 DEF Fat16Open
  <2>5. result.entry # 0 /\ opened = [result EXCEPT !.private = d.ptr]
    BY <1>6, <1>7, <2>4
  <2>6. opened.entry = result.entry
    BY <2>5
  <2> QED  BY <1>14, <2>2, <2>3, <2>5, <2>6
<1>16. entry \in 1 .. Total /\ HasName(entry, root.parts[1])
  BY <1>14, <1>15, FoundHasName DEF FInv, DiskIsRight
<1> QED  BY <1>8, <1>9, <1>10, <1>11, <1>15, <1>16

\* What is behind the drive, as istrncmp compares it.
LEMMA BehindIs ==
  ASSUME NEW path \in Text, IsPrefix(Drive, path), Len(path) <= MaxPath
  PROVE  /\ Behind(path) \in Text /\ Len(Behind(path)) \in Nat
         /\ MaxPath \in Nat /\ Len(Behind(path)) < MaxPath
<1>1. Len(path) >= 3 /\ Len(path) \in Nat
  BY DriveIs, LenProperties DEF Drive, Text
<1>2. Behind(path) \in Text /\ Len(Behind(path)) = Len(path) - 3
  BY <1>1, ParseDrive DEF Behind
<1> QED  BY <1>1, <1>2, PathAssumption

\* The file has the name that was asked for.
LEMMA FopenOpensNamed ==
  ASSUME FInv, NEW path \in Text, NEW mode, NEW left \in Nat, Fopen(path, mode, left),
         NEW fd, fd = call'.value, call'.name = "fopen", fd # 0,
         NEW i, i = file_descriptors'[fd].item, FieldsEnd(i), ~ Contains(Behind(path), Slash)
  PROVE  Small(Behind(path)) = Small(OwnName(i))
<1>1. PICK rest : rest = Behind(path)
  OBVIOUS
<1>2. /\ IsPrefix(Drive, path) /\ Len(path) <= MaxPath /\ PathParts(rest) # <<>>
      /\ i \in 1 .. Total /\ HasName(i, PathParts(rest)[1])
  BY <1>1, FopenNames
<1>3. rest \in Text /\ MaxPath \in Nat /\ Len(rest) < MaxPath
  BY <1>1, <1>2, BehindIs
<1>4. PathParts(rest)[1] = rest
  <2>1. PathParts(rest) = <<rest>>
    BY <1>1, <1>2, <1>3, OnePart
  <2> QED  BY <2>1
<1>5. item \in Seq(DirectoryItem) /\ i \in DOMAIN item
  BY <1>2, TotalIs, LenProperties DEF FInv, DiskIsRight
<1>6. FullRelativeFilename(i) = OwnName(i) /\ OwnName(i) \in Seq(Byte)
  BY <1>5, NameIsRead
<1>7. SameUpToCase(OwnName(i), rest, MaxPath)
  BY <1>2, <1>4, <1>6 DEF HasName
<1>8. rest \in Seq(Character)
  BY <1>3 DEF Text
<1> QED  BY <1>1, <1>3, <1>6, <1>7, <1>8, SameNames

\* A file whose name ends in its fields is found in front of the first deleted
\* item, when there is an entry and memory for it.
LEMMA FopenFinds ==
  ASSUME FInv, NEW path \in Text, NEW mode, NEW left \in Nat, Fopen(path, mode, left),
         call'.name = "fopen",
         IsPrefix(Drive, path), Len(path) <= MaxPath, mode = "r",
         NEW i \in DOMAIN item, Small(Behind(path)) = Small(OwnName(i)), FieldsEnd(i),
         \A j \in 1 .. i : Live(j),
         filesystem = "fat16", Suffices(left, Behind(path)),
         \E fd \in Index : file_descriptors[fd] = Closed
  PROVE  call'.value # 0
<1>1. PICK rest : rest = Behind(path)
  OBVIOUS
<1>2. rest \in Text /\ MaxPath \in Nat /\ Len(rest) < MaxPath /\ Len(rest) \in Nat
  BY <1>1, BehindIs
<1>3. rest \in Seq(Character)
  BY <1>2 DEF Text
<1>4. item \in Seq(DirectoryItem)
  BY DEF FInv, DiskIsRight
<1>5. PICK own : own = OwnName(i)
  OBVIOUS
<1>6. /\ FullRelativeFilename(i) = own /\ own \in Seq(Byte) /\ Len(own) \in Nat \ {0}
      /\ \A k \in 1 .. Len(own) : own[k] # Slash
  BY <1>4, <1>5, NameIsRead
<1>7. /\ SameUpToCase(own, rest, MaxPath) /\ Len(own) = Len(rest)
      /\ \A k \in 1 .. Len(rest) : ToLower(own[k]) = ToLower(rest[k])
  <2>1. Small(own) = Small(rest)
    BY <1>1, <1>5
  <2> QED  BY <1>2, <1>3, <1>6, <2>1, SameNames
<1>8. ~ Contains(rest, Slash)
  <2>1. \A k \in 1 .. Len(rest) : rest[k] # Slash
    BY <1>6, <1>7, SignsStay
  <2> QED  BY <2>1 DEF Contains
<1>9. rest # <<>>
  BY <1>3, <1>6, <1>7, EmptySeq
<1>10. PathParts(rest) = <<rest>>
  BY <1>2, <1>8, <1>9, OnePart
<1>11. i \in Matches(rest)
  <2>1. i \in 1 .. Total
    BY <1>4, FrontIsSearched
  <2> QED  BY <1>6, <1>7, <2>1 DEF Matches, HasName
<1> DEFINE root == Parse(path)
           path_structures == IF root = NoRoot THEN 0 ELSE 1 + 2 * Len(root.parts)
           m == [heap |-> heap, left |-> left - path_structures]
           good == root.parts # <<>> /\ root.drive_no = 0 /\ filesystem # "none" /\ mode = "r"
           opened == IF good THEN Fat16Open(m, root.parts) ELSE Nothing(m)
           desc == Kzalloc(opened.m)
           found == opened.entry # 0 /\ FreeIndices # {}
<1>12. root # NoRoot /\ root.drive_no = 0 /\ root.parts = <<rest>>
  BY <1>1, <1>10, ParseDrive DEF Drive, Behind
<1>13. path_structures = 3 /\ good /\ opened = Fat16Open(m, <<rest>>)
  <2>1. Len(<<rest>>) = 1 /\ <<rest>> # <<>>
    OBVIOUS
  <2>2. path_structures = 3
    BY <1>12, <2>1
  <2> HIDE DEF path_structures
  <2>3. good
    BY <1>12, <2>1
  <2> QED  BY <1>12, <2>2, <2>3
<1>14. PICK all : all = Cardinality(Matches(rest))
  OBVIOUS
<1>15. all \in Nat /\ left >= 3 + 2 + 4 * all
  <2>1. IsFiniteSet(1 .. Total)
    <3>1. 1 \in Int /\ Total \in Int
      BY <1>4, TotalIs
    <3> QED  BY <3>1, FS_Interval
  <2>2. Matches(rest) \subseteq 1 .. Total
    BY DEF Matches
  <2>3. IsFiniteSet(Matches(rest))
    BY <2>1, <2>2, FS_Subset
  <2> QED  BY <1>1, <1>14, <2>3, FS_CardinalityType DEF Suffices
<1>16. MemoryOK(m) /\ m.left >= 2 + 4 * all
  BY <1>13, <1>15 DEF MemoryOK, FInv, HeapIsRight
<1>17. ~ (left < path_structures) /\ left >= path_structures
  BY <1>13, <1>15
<1> HIDE DEF m, path_structures, good, root
<1>18. PICK d : d = Kzalloc(m)
  OBVIOUS
<1>19. MemoryOK(d.m) /\ d.ptr # 0 /\ d.m.left >= 4 * all
  <2>1. m.left \in Nat /\ m.left # 0
    BY <1>15, <1>16 DEF MemoryOK
  <2>2. d.m.left = m.left - 1
    BY <1>18, <2>1 DEF Kzalloc
  <2>3. MemoryOK(d.m) /\ (d.ptr = 0 => m.left = 0)
    BY <1>16, <1>18, KzallocIs
  <2> QED  BY <1>15, <1>16, <2>1, <2>2, <2>3
<1>20. PICK result : result = FindItem(d.m, rest)
  OBVIOUS
<1>21. result.entry # 0
  <2>1. Matches(rest) # {}
    BY <1>11
  <2> QED  BY <1>4, <1>14, <1>19, <1>20, <2>1, MatchIsFound
<1>22. opened.entry # 0
  <2>1. DirectoryEntry(d.m, <<rest>>) = result
    <3>1. ~ (Len(<<rest>>) > 1) /\ <<rest>>[1] = rest
      OBVIOUS
    <3> QED  BY <1>20, <3>1 DEF DirectoryEntry
  <2>2. opened = [result EXCEPT !.private = d.ptr]
    BY <1>13, <1>18, <1>19, <1>21, <2>1 DEF Fat16Open
  <2>3. Opening(d.m, result)
    BY <1>4, <1>19, <1>20, FindItemIs
  <2>4. opened.entry = result.entry
    BY <2>2, <2>3 DEF Opening
  <2> QED  BY <1>21, <2>4
<1>23. FreeIndices # {} /\ FreeIndices \in SUBSET Nat /\ 0 \notin FreeIndices
  BY TableAssumption DEF FreeIndices, Index
<1>24. Min(FreeIndices) # 0
  BY <1>23, MinValue
<1>25. found
  BY <1>22, <1>23
<1>26. call' = Call("fopen", <<path, mode, left>>, Min(FreeIndices), <<>>) \/ call' = NoCall
  <2> HIDE DEF found
  <2>1. CASE desc.ptr = 0
    BY <1>17, <1>25, <2>1 DEF Fopen, Ends, root, path_structures, m, good, found
  <2>2. CASE desc.ptr # 0
    BY <1>17, <1>25, <2>2 DEF Fopen, root, path_structures, m, good, found
  <2> QED  BY <2>1, <2>2
<1> QED  BY <1>24, <1>26 DEF Call, NoCall

-----------------------------------------------------------------------------
(* The properties of the runs. *)

\* Every open file has its own four structures, and nobody has freed them.
THEOREM FilesWhole == Spec => []OpenFilesAreWhole
<1>1. FInv => OpenFilesAreWhole
  <2> SUFFICES ASSUME FInv PROVE OpenFilesAreWhole
    OBVIOUS
  <2>1. ASSUME NEW fd \in Index, file_descriptors[fd] # Closed
        PROVE  /\ IsInjective(PartsOf(fd)) /\ Range(PartsOf(fd)) \subseteq heap
               /\ Range(PartsOf(fd)) = Structures(file_descriptors[fd])
    <3>1. PICK d : d = file_descriptors[fd]
      OBVIOUS
    <3>2. PICK parts : parts = <<d.desc, d.private, d.fat_item, d.clone>>
      OBVIOUS
    <3>3. /\ DOMAIN parts = 1 .. 4
          /\ parts[1] = d.desc /\ parts[2] = d.private
          /\ parts[3] = d.fat_item /\ parts[4] = d.clone
      BY <3>2
    <3>4. Range(parts) = Structures(d)
      BY <3>3 DEF Range, Structures
    <3>5. Apart(d) /\ Structures(d) \subseteq heap
      BY <2>1, <3>1 DEF FInv, HeapIsRight
    <3>6. IsInjective(parts)
      BY <3>3, <3>5 DEF IsInjective, Apart
    <3> QED  BY <3>1, <3>2, <3>4, <3>5, <3>6 DEF PartsOf
  <2>2. ASSUME NEW fd \in Index, NEW other \in Index, fd # other,
               file_descriptors[fd] # Closed, file_descriptors[other] # Closed
        PROVE  Range(PartsOf(fd)) \cap Range(PartsOf(other)) = {}
    BY <2>1, <2>2 DEF FInv, HeapIsRight
  <2> QED  BY <2>1, <2>2 DEF OpenFilesAreWhole
<1> QED  BY <1>1, FilesInvariant, PTL

\* A handle stands for the same file from its fopen to its own fclose.
THEOREM HandlesStable == Spec => HandlesAreStable
<1> DEFINE Stable ==
      \A fd \in Index :
        file_descriptors'[fd].item # file_descriptors[fd].item =>
          \/ call'.name = "fclose" /\ call'.args[1] = fd /\ file_descriptors'[fd] = Closed
          \/ call'.name = "fopen" /\ call'.value = fd /\ file_descriptors[fd] = Closed
<1>1. ASSUME FInv, [Next]_vars PROVE Stable
  <2>1. CASE UNCHANGED file_descriptors
    BY <2>1
  <2>2. ASSUME NEW open \in Opens, NEW left \in Memory, Fopen(open[1], open[2], left)
        PROVE  Stable
    <3>1. PICK args : args = <<open[1], open[2], left>>
      OBVIOUS
    <3>2. CASE ChangesNothing(args)
      BY <3>2 DEF ChangesNothing
    <3>3. ASSUME NEW fd \in Index, NEW d \in FileDescriptor, OpensEntry(args, fd, d)
          PROVE  Stable
      <4>1. /\ \A i \in Index \ {fd} : file_descriptors'[i] = file_descriptors[i]
            /\ file_descriptors[fd] = Closed
            /\ call'.name = "fopen" /\ call'.value = fd
        BY <1>1, <3>3 DEF OpensEntry, Call, FInv, TableIsRight
      <4> QED  BY <4>1
    <3>4. open[1] \in Text /\ left \in Nat
      BY CallsOfFopen, TableAssumption
    <3>5. ChangesNothing(args) \/ \E fd \in Index, d \in FileDescriptor : OpensEntry(args, fd, d)
      BY <1>1, <2>2, <3>1, <3>4, FopenIs
    <3> QED  BY <3>2, <3>3, <3>5
  <2>3. ASSUME NEW fd \in 0 .. MaxDescriptors, Fclose(fd)
        PROVE  Stable
    <3>1. \A i \in Index :
            \/ file_descriptors'[i] = file_descriptors[i]
            \/ i = fd /\ file_descriptors'[i] = Closed
      BY <1>1, <2>3, FcloseKeeps
    <3>2. call'.name = "fclose" /\ call'.args[1] = fd
      BY <2>3 DEF Fclose, Call
    <3> QED  BY <3>1, <3>2
  <2>4. ASSUME NEW fd \in 0 .. MaxDescriptors, NEW offset \in Lengths,
               NEW whence \in {"SEEK_SET", "SEEK_CUR", "SEEK_END"}, Fseek(fd, offset, whence)
        PROVE  Stable
    BY <1>1, <2>4, FseekKeeps
  <2>5. ASSUME NEW fd \in 0 .. MaxDescriptors,
               Fstat(fd) \/ \E size \in Lengths, nmemb \in 0 .. 2 : Fread(fd, size, nmemb)
        PROVE  Stable
    BY <2>1, <2>5 DEF Fstat, Fread
  <2>6. CASE UNCHANGED vars
    BY <2>1, <2>6 DEF vars
  <2> HIDE DEF Stable
  <2> QED  BY <1>1, <2>2, <2>3, <2>4, <2>5, <2>6 DEF Next
<1>2. Spec => [][Stable]_vars
  <2>1. FInv /\ [Next]_vars => [Stable]_vars
    BY <1>1
  <2> QED  BY <2>1, FilesInvariant, PTL DEF Spec
<1> QED  BY <1>2 DEF HandlesAreStable

\* Before the code reads in the first cluster, the bytes it reads are those of
\* the file.
LEMMA FreadIs ==
  ASSUME FInv, NEW fd \in 0 .. MaxDescriptors, IsOpen(fd),
         NEW size \in Nat \ {0}, NEW nmemb \in Nat \ {0},
         NEW d, d = file_descriptors[fd], d.pos + nmemb * size <= ClusterSize
  PROVE  Fat16Read(Opened(fd).cluster, d.pos, size, nmemb)
           = [ok |-> TRUE, out |-> BytesOfFile(d.item, d.pos, nmemb * size)]
<1>1. fd \in Index /\ d # Closed
  BY TableAssumption DEF IsOpen, Handles, Index
<1>2. d.pos \in Nat /\ d.item \in DOMAIN item
  BY <1>1 DEF FInv, TableIsRight, FileDescriptor
<1>3. PICK first : first = item[d.item].cluster
  OBVIOUS
<1>4. first \in Nat \ {0, 1} /\ chain[first][1] = first /\ Opened(fd).cluster = first
  <2>1. item[d.item] \in DirectoryItem
    BY <1>2, ElementOfSeq, LenProperties DEF FInv, DiskIsRight
  <2>2. chain[first][1] = first
    BY <1>2, <1>3 DEF FInv, DiskIsRight
  <2> QED  BY <1>3, <2>1, <2>2 DEF DirectoryItem, Opened
<1>5. PICK n \in Nat \ {0} : n = nmemb * size
  <2>1. nmemb * size \in Nat /\ nmemb * size # 0
    OBVIOUS
  <2> QED  BY <2>1
<1>6. PICK pos \in Nat : pos = d.pos
  BY <1>2
<1>7. pos + n <= ClusterSize /\ pos \in 0 .. ClusterSize - 1
  <2>1. pos + n <= ClusterSize
    BY <1>5, <1>6
  <2> QED  BY <1>5, <1>6, <2>1, Sizes
<1>8. PICK base \in Nat : base = ClusterToSector(first) * SectorSize
  <2>1. ClusterToSector(first) \in Nat
    <3>1. first - 2 \in Nat
      BY <1>4
    <3>2. (first - 2) * SectorsPerCluster \in Nat
      BY <3>1, Sizes
    <3> QED  BY <3>2, Sizes DEF ClusterToSector
  <2>2. ClusterToSector(first) * SectorSize \in Nat
    BY <2>1, Sizes
  <2> QED  BY <2>2
<1>9. StartingPosition(first, pos) = base + pos
  BY <1>4, <1>7, <1>8, Positions
<1>10. Fat16Read(first, pos, size, nmemb) = [ok |-> TRUE, out |-> Bytes(base + pos, n)]
  BY <1>4, <1>5, <1>7, <1>9, Fat16ReadIs
<1>11. ASSUME NEW k \in 1 .. n
       PROVE  ByteOfFile(d.item, pos + k - 1) = base + pos + k - 1
  <2>1. PICK o \in Nat : o = pos + k - 1 /\ o \in 0 .. ClusterSize - 1
    BY <1>5, <1>6, <1>7, Sizes
  <2>2. o \div ClusterSize = 0 /\ (o % ClusterSize) = o
    BY <2>1, Sizes
  <2>3. chain[item[d.item].cluster][o \div ClusterSize + 1] = first
    BY <1>3, <1>4, <2>2
  <2>4. ByteOfFile(d.item, o) = (DataSector + (first - 2) * SectorsPerCluster) * SectorSize + o
    BY <2>2, <2>3 DEF ByteOfFile
  <2>5. ByteOfFile(d.item, o) = base + o
    BY <1>8, <2>4, DataArea DEF ClusterToSector
  <2> QED  BY <1>6, <1>8, <2>1, <2>5
<1>12. BytesOfFile(d.item, pos, n) = Bytes(base + pos, n)
  <2>1. BytesOfFile(d.item, pos, n) = [k \in 1 .. n |-> ByteOfFile(d.item, pos + k - 1)]
    BY DEF BytesOfFile
  <2>2. Bytes(base + pos, n) = [k \in 1 .. n |-> base + pos + k - 1]
    BY DEF Bytes
  <2> QED  BY <1>11, <2>1, <2>2
<1> QED  BY <1>4, <1>5, <1>6, <1>10, <1>12, Zenon

\* A read inside the first cluster returns the bytes of the file.
THEOREM FirstClusterCorrect == Spec => []ReadsFirstCluster
<1>1. Init => ReadsFirstCluster
  BY DEF Init, ReadsFirstCluster, NoCall, Call
<1>2. ASSUME FInv, ReadsFirstCluster, [Next]_vars PROVE ReadsFirstCluster'
  <2>1. ASSUME NEW fd \in 0 .. MaxDescriptors, NEW size \in Lengths, NEW nmemb \in 0 .. 2,
               Fread(fd, size, nmemb)
        PROVE  ReadsFirstCluster'
    <3>1. PICK d : d = file_descriptors[fd]
      OBVIOUS
    <3>2. /\ UNCHANGED <<disk, file_descriptors>>
          /\ call'.name = "fread" /\ call'.args = <<fd, size, nmemb>>
      BY <2>1 DEF Fread, Call
    <3>3. file_descriptors'[call'.args[1]] = d /\ call'.args[2] = size /\ call'.args[3] = nmemb
      BY <3>1, <3>2
    <3>4. SUFFICES ASSUME call'.value # Failure, d.pos + size * nmemb <= ClusterSize
                   PROVE  call'.out = BytesOfFile(d.item, d.pos, size * nmemb)'
      BY <3>3 DEF ReadsFirstCluster
    <3>5. BytesOfFile(d.item, d.pos, size * nmemb)' = BytesOfFile(d.item, d.pos, size * nmemb)
      BY <3>2 DEF BytesOfFile, ByteOfFile, disk
    <3>6. size # 0 /\ nmemb # 0 /\ IsOpen(fd)
      BY <2>1, <3>4 DEF Fread, Call
    <3>7. PICK r : r = Fat16Read(Opened(fd).cluster, d.pos, size, nmemb)
      OBVIOUS
    <3>8. call'.out = r.out
      BY <2>1, <3>1, <3>6, <3>7 DEF Fread, Call
    <3>9. size \in Nat \ {0} /\ nmemb \in Nat \ {0} /\ size * nmemb = nmemb * size
      BY <3>6, TableAssumption
    <3>10. d.pos + nmemb * size <= ClusterSize
      BY <3>4, <3>9
    <3>11. r = [ok |-> TRUE, out |-> BytesOfFile(d.item, d.pos, nmemb * size)]
      BY <1>2, <3>1, <3>6, <3>7, <3>9, <3>10, FreadIs
    <3> QED  BY <3>5, <3>8, <3>9, <3>11
  <2>2. ASSUME NEW open \in Opens, NEW left \in Memory, Fopen(open[1], open[2], left)
        PROVE  call'.name # "fread"
    BY <2>2 DEF Fopen, Ends, NoCall, Call
  <2>3. ASSUME NEW fd \in 0 .. MaxDescriptors, Fstat(fd) \/ Fclose(fd)
        PROVE  call'.name # "fread"
    BY <2>3 DEF Fstat, Fclose, Call
  <2>4. ASSUME NEW fd \in 0 .. MaxDescriptors, NEW offset \in Lengths,
               NEW whence \in {"SEEK_SET", "SEEK_CUR", "SEEK_END"}, Fseek(fd, offset, whence)
        PROVE  call'.name # "fread"
    BY <2>4 DEF Fseek, Call
  <2>5. CASE UNCHANGED vars
    BY <1>2, <2>5 DEF vars, disk, ReadsFirstCluster, BytesOfFile, ByteOfFile
  <2>6. call'.name # "fread" => ReadsFirstCluster'
    BY DEF ReadsFirstCluster
  <2> QED  BY <1>2, <2>1, <2>2, <2>3, <2>4, <2>5, <2>6 DEF Next
<1> QED  BY <1>1, <1>2, FilesInvariant, PTL DEF Spec

\* What fopen goes by are the names between the slashes of the path.
THEOREM PathCorrect == Spec => []PathIsParsed
<1>1. Init => PathIsParsed
  BY DEF Init, PathIsParsed, NoCall, Call
<1>2. ASSUME PathIsParsed, [Next]_vars PROVE PathIsParsed'
  <2>1. ASSUME NEW open \in Opens, NEW left \in Memory, Fopen(open[1], open[2], left)
        PROVE  PathIsParsed'
    <3>1. SUFFICES ASSUME call'.name = "fopen" PROVE PathIsParsed'
      BY DEF PathIsParsed
    <3>2. PICK path \in Text : path = open[1]
      BY CallsOfFopen
    <3>3. call'.args[1] = path
      BY <2>1, <3>1, <3>2 DEF Fopen, Ends, NoCall, Call
    <3>4. Parse(path) # NoRoot => /\ ArePartsOf(Parse(path).parts, path)
                                 /\ path[1] = Digits[Parse(path).drive_no + 1]
      BY ParseIs
    <3> QED  BY <3>3, <3>4 DEF PathIsParsed
  <2>2. ASSUME NEW fd \in 0 .. MaxDescriptors, Fstat(fd) \/ Fclose(fd)
        PROVE  call'.name # "fopen"
    BY <2>2 DEF Fstat, Fclose, Call
  <2>3. ASSUME NEW fd \in 0 .. MaxDescriptors, NEW offset \in Lengths,
               NEW whence \in {"SEEK_SET", "SEEK_CUR", "SEEK_END"}, Fseek(fd, offset, whence)
        PROVE  call'.name # "fopen"
    BY <2>3 DEF Fseek, Call
  <2>4. ASSUME NEW fd \in 0 .. MaxDescriptors, NEW size \in Lengths, NEW nmemb \in 0 .. 2,
               Fread(fd, size, nmemb)
        PROVE  call'.name # "fopen"
    BY <2>4 DEF Fread, Call
  <2>5. CASE UNCHANGED vars
    BY <1>2, <2>5 DEF vars, PathIsParsed
  <2>6. call'.name # "fopen" => PathIsParsed'
    BY DEF PathIsParsed
  <2> QED  BY <1>2, <2>1, <2>2, <2>3, <2>4, <2>5, <2>6 DEF Next
<1> QED  BY <1>1, <1>2, PTL DEF Spec

\* Only fopen is recorded as a call of it.
LEMMA OthersAreNotFopen ==
  ASSUME [Next]_vars, ~ UNCHANGED vars, call'.name = "fopen"
  PROVE  \E open \in Opens, left \in Memory : Fopen(open[1], open[2], left)
<1>1. ASSUME NEW fd \in 0 .. MaxDescriptors, Fstat(fd) \/ Fclose(fd)
      PROVE  call'.name # "fopen"
  BY <1>1 DEF Fstat, Fclose, Call
<1>2. ASSUME NEW fd \in 0 .. MaxDescriptors, NEW offset \in Lengths,
             NEW whence \in {"SEEK_SET", "SEEK_CUR", "SEEK_END"}, Fseek(fd, offset, whence)
      PROVE  call'.name # "fopen"
  BY <1>2 DEF Fseek, Call
<1>3. ASSUME NEW fd \in 0 .. MaxDescriptors, NEW size \in Lengths, NEW nmemb \in 0 .. 2,
             Fread(fd, size, nmemb)
      PROVE  call'.name # "fopen"
  BY <1>3 DEF Fread, Call
<1> QED  BY <1>1, <1>2, <1>3 DEF Next

\* fopen hands out a free entry for the file that was named, and it finds every
\* file that it can tell apart and has room for.
THEOREM OpenCorrect == Spec => OpenGivesTheFile
<1> DEFINE Gives ==
      call'.name = "fopen" =>
        LET path == call'.args[1]
            fd == call'.value
            rest == SubSeq(path, 4, Len(path))
            Names(i) == Small(rest) = Small(OwnName(i))
        IN  /\ fd # 0 =>
                 LET i == file_descriptors'[fd].item
                 IN  /\ file_descriptors[fd] = Closed
                     /\ IsPrefix(Drive, path)
                     /\ FieldsEnd(i) /\ ~Contains(rest, Slash) => Names(i)
            /\ /\ IsPrefix(Drive, path) /\ Len(path) <= MaxPath
               /\ call'.args[2] = "r"
               /\ \E i \in DOMAIN item :
                    Names(i) /\ FieldsEnd(i) /\ \A j \in 1 .. i : Live(j)
               /\ filesystem = "fat16" /\ Suffices(call'.args[3], rest)
               /\ \E i \in Index : file_descriptors[i] = Closed
               => fd # 0
<1>1. ASSUME FInv, [Next]_vars, ~ UNCHANGED vars PROVE Gives
  <2> SUFFICES ASSUME call'.name = "fopen" PROVE Gives
    OBVIOUS
  <2>1. PICK open \in Opens, left \in Memory : Fopen(open[1], open[2], left)
    BY <1>1, OthersAreNotFopen
  <2>2. PICK path : path = open[1]
    OBVIOUS
  <2>3. PICK mode : mode = open[2]
    OBVIOUS
  <2>4. PICK fd : fd = call'.value
    OBVIOUS
  <2>5. PICK rest : rest = Behind(path)
    OBVIOUS
  <2>6. path \in Text /\ left \in Nat /\ Fopen(path, mode, left)
    BY <2>1, <2>2, <2>3, CallsOfFopen, TableAssumption
  <2>7. call'.args = <<path, mode, left>>
    BY <2>6 DEF Fopen, Ends, NoCall, Call
  <2>8. call'.args[1] = path /\ call'.args[2] = mode /\ call'.args[3] = left
    BY <2>7
  <2>9. rest = SubSeq(path, 4, Len(path))
    BY <2>5 DEF Behind
  <2>10. ASSUME fd # 0, NEW i, i = file_descriptors'[fd].item
         PROVE  /\ file_descriptors[fd] = Closed /\ IsPrefix(Drive, path)
                /\ FieldsEnd(i) /\ ~ Contains(rest, Slash) => Small(rest) = Small(OwnName(i))
    <3>1. file_descriptors[fd] = Closed /\ IsPrefix(Drive, path)
      BY <1>1, <2>4, <2>6, <2>10, FopenNames
    <3>2. FieldsEnd(i) /\ ~ Contains(rest, Slash) => Small(rest) = Small(OwnName(i))
      BY <1>1, <2>4, <2>5, <2>6, <2>10, FopenOpensNamed
    <3> QED  BY <3>1, <3>2
  <2>11. ASSUME IsPrefix(Drive, path), Len(path) <= MaxPath, mode = "r",
                NEW i \in DOMAIN item, Small(rest) = Small(OwnName(i)), FieldsEnd(i),
                \A j \in 1 .. i : Live(j),
                filesystem = "fat16", Suffices(left, rest),
                \E k \in Index : file_descriptors[k] = Closed
         PROVE  fd # 0
    BY <1>1, <2>4, <2>5, <2>6, <2>11, FopenFinds
  <2> QED  BY <2>4, <2>8, <2>9, <2>10, <2>11
<1>2. OpenGivesTheFile <=> [][Gives]_vars
  BY DEF OpenGivesTheFile, Drive
<1>3. FInv /\ [Next]_vars => [Gives]_vars
  <2> HIDE DEF Gives
  <2> QED  BY <1>1
<1> HIDE DEF Gives
<1> QED  BY <1>2, <1>3, FilesInvariant, PTL DEF Spec

-----------------------------------------------------------------------------
(* The heap holds four structures for every open entry and nothing else, so *)
(* that it never outgrows the table; and what is open was named.            *)

\* Four structures more.
LEMMA FourMore ==
  ASSUME NEW h, IsFiniteSet(h), NEW d, Apart(d), Structures(d) \cap h = {}
  PROVE  /\ IsFiniteSet(h \cup Structures(d))
         /\ Cardinality(h) \in Nat /\ Cardinality(h \cup Structures(d)) = Cardinality(h) + 4
<1>1. PICK a : a = h \cup {d.desc}
  OBVIOUS
<1>2. PICK b : b = a \cup {d.private}
  OBVIOUS
<1>3. PICK c : c = b \cup {d.fat_item}
  OBVIOUS
<1>4. h \cup Structures(d) = c \cup {d.clone}
  BY <1>1, <1>2, <1>3 DEF Structures
<1>5. d.desc \notin h /\ d.private \notin a /\ d.fat_item \notin b /\ d.clone \notin c
  BY <1>1, <1>2, <1>3 DEF Structures, Apart
<1>6. Cardinality(h) \in Nat
  BY FS_CardinalityType
<1>7. IsFiniteSet(a) /\ Cardinality(a) = Cardinality(h) + 1
  BY <1>1, <1>5, FS_AddElement
<1>8. IsFiniteSet(b) /\ Cardinality(b) = Cardinality(a) + 1
  BY <1>2, <1>5, <1>7, FS_AddElement
<1>9. IsFiniteSet(c) /\ Cardinality(c) = Cardinality(b) + 1
  BY <1>3, <1>5, <1>8, FS_AddElement
<1>10. /\ IsFiniteSet(h \cup Structures(d))
       /\ Cardinality(h \cup Structures(d)) = Cardinality(c) + 1
  BY <1>4, <1>5, <1>9, FS_AddElement
<1> QED  BY <1>6, <1>7, <1>8, <1>9, <1>10

\* A path without the mark of a deleted item opens no deleted item, whose name
\* as the code reads it begins with the mark.
LEMMA FopenOpensLive ==
  ASSUME FInv, NEW path \in Text, NEW mode, NEW left \in Nat, Fopen(path, mode, left),
         NEW fd, fd = call'.value, call'.name = "fopen", fd # 0,
         ~ Contains(path, DeletedMark)
  PROVE  Live(file_descriptors'[fd].item)
<1>1. PICK i : i = file_descriptors'[fd].item
  OBVIOUS
<1>2. PICK rest : rest = Behind(path)
  OBVIOUS
<1>3. PICK name : name = PathPart(rest).part
  OBVIOUS
<1>4. /\ IsPrefix(Drive, path) /\ Len(path) <= MaxPath /\ PathParts(rest) # <<>>
      /\ i \in 1 .. Total /\ HasName(i, PathParts(rest)[1])
  BY <1>1, <1>2, FopenNames
<1>5. rest \in Text /\ Len(rest) \in Nat /\ MaxPath \in Nat /\ Len(rest) < MaxPath
  BY <1>2, <1>4, BehindIs
<1>6. HasName(i, name) /\ name # <<>>
  BY <1>3, <1>4, <1>5, FirstPart
<1>7. name \in Text /\ Len(name) \in Nat \ {0}
  <2>1. name \in Text
    BY <1>3, <1>5, PathPartIs
  <2> QED  BY <1>6, <2>1, EmptySeq, LenProperties DEF Text
<1>8. Len(name) <= Len(rest) /\ name[1] = rest[1]
  <2>1. PICK more \in Text : name = rest \/ rest = (name \o <<Slash>>) \o more
    BY <1>3, <1>5, PathPartIs
  <2>2. CASE name = rest
    BY <1>5, <2>2
  <2>3. CASE rest = (name \o <<Slash>>) \o more
    <3>1. PICK begin : begin = name \o <<Slash>>
      OBVIOUS
    <3>2. /\ begin \in Seq(Character) /\ Len(begin) = Len(name) + 1
          /\ \A k \in 1 .. Len(name) + 1 : begin[k] = IF k <= Len(name) THEN name[k] ELSE <<Slash>>[k - Len(name)]
      <4>1. <<Slash>> \in Seq(Character) /\ Len(<<Slash>>) = 1 /\ name \in Seq(Character)
        BY <1>7, SlashIsText DEF Text
      <4> HIDE DEF Slash
      <4>2. PICK slash : slash = <<Slash>>
        OBVIOUS
      <4>3. /\ begin \in Seq(Character) /\ Len(begin) = Len(name) + Len(slash)
            /\ \A k \in 1 .. Len(name) + Len(slash) : begin[k] = IF k <= Len(name) THEN name[k] ELSE slash[k - Len(name)]
        BY <3>1, <4>1, <4>2, ConcatProperties
      <4> QED  BY <4>1, <4>2, <4>3
    <3>3. more \in Seq(Character) /\ Len(more) \in Nat
      BY <2>1, LenProperties DEF Text
    <3>4. /\ Len(rest) = Len(begin) + Len(more)
          /\ \A k \in 1 .. Len(begin) + Len(more) : rest[k] = IF k <= Len(begin) THEN begin[k] ELSE more[k - Len(begin)]
      BY <2>3, <3>1, <3>2, <3>3, ConcatProperties
    <3>5. 1 \in 1 .. Len(name) + 1 /\ 1 <= Len(name) /\ 1 \in 1 .. Len(begin) + Len(more) /\ 1 <= Len(begin)
      BY <1>7, <3>2, <3>3
    <3>6. rest[1] = begin[1] /\ begin[1] = name[1]
      BY <3>2, <3>4, <3>5
    <3> QED  BY <1>7, <3>2, <3>3, <3>4, <3>6
  <2> QED  BY <2>1, <2>2, <2>3
<1>9. name[1] # DeletedMark
  <2>1. PICK k \in 1 .. Len(path) : rest[1] = path[k]
    <3>1. 1 \in 1 .. Len(rest)
      BY <1>5, <1>7, <1>8
    <3> QED  BY <1>2, <3>1, ParseDrive DEF Behind
  <2> QED  BY <1>8, <2>1 DEF Contains
<1>10. item \in Seq(DirectoryItem) /\ i \in DOMAIN item
  BY <1>4, TotalIs, LenProperties DEF FInv, DiskIsRight
<1>11. ASSUME item[i].filename[1] = DeletedMark PROVE FALSE
  <2>1. DeletedMark \notin {Space, Zero}
    BY DEF DeletedMark, Space, Zero
  <2>2. PICK full : full = FullRelativeFilename(i)
    OBVIOUS
  <2>3. full \in Seq(Byte) /\ Len(full) \in Nat \ {0} /\ full[1] = DeletedMark
    BY <1>10, <1>11, <2>1, <2>2, ReadName
  <2>4. SameUpToCase(full, name, MaxPath)
    BY <1>6, <2>2 DEF HasName
  <2>5. name \in Seq(Character) /\ Len(name) < MaxPath
    BY <1>5, <1>7, <1>8 DEF Text
  <2>6. \A k \in 1 .. Len(name) : ToLower(full[k]) = ToLower(name[k])
    BY <1>5, <2>3, <2>4, <2>5, SameNames
  <2>7. ToLower(full[1]) = ToLower(name[1])
    <3>1. 1 \in 1 .. Len(name)
      BY <1>7
    <3> QED  BY <2>6, <3>1
  <2> QED  BY <1>9, <2>3, <2>7, SignsStay
<1> QED  BY <1>1, <1>10, <1>11 DEF Live

OpenEntries == {fd \in Index : file_descriptors[fd] # Closed}

EntriesAreRight ==
  \A fd \in Index : file_descriptors[fd] # Closed =>
    /\ file_descriptors[fd].pos <= MaxPosition
    /\ PathsAreNames => Live(file_descriptors[fd].item)

HeapIsFull ==
  /\ heap \subseteq 1 .. 4 * MaxDescriptors
  /\ Cardinality(heap) = 4 * Cardinality(OpenEntries)

RestIsRight ==
  /\ filesystem \in {"fat16", "none"}
  /\ wild \in {"no", "pathparser_parse", "file_new_descriptor"}
  /\ call.name \in {"none", "fopen", "fstat", "fseek", "fread", "fclose"}
  /\ call.value \in Failure .. MaxDescriptors

TInv == EntriesAreRight /\ HeapIsFull /\ RestIsRight

LEMMA EntriesAreFinite ==
  ASSUME NEW S, S \subseteq Index
  PROVE  IsFiniteSet(S) /\ Cardinality(S) \in Nat /\ Cardinality(S) <= MaxDescriptors
<1>1. MaxDescriptors \in Nat /\ 1 \in Int /\ MaxDescriptors \in Int
  BY TableAssumption
<1>2. IsFiniteSet(Index) /\ Cardinality(Index) = MaxDescriptors
  <2>1. IsFiniteSet(1 .. MaxDescriptors) /\ Cardinality(1 .. MaxDescriptors) = IF 1 > MaxDescriptors THEN 0 ELSE MaxDescriptors - 1 + 1
    BY <1>1, FS_Interval
  <2> QED  BY <1>1, <2>1, TableAssumption DEF Index
<1> QED  BY <1>2, FS_Subset, FS_CardinalityType

LEMMA TypingBegins == Init => TInv
<1> SUFFICES ASSUME Init PROVE TInv
  OBVIOUS
<1>1. OpenEntries = {} /\ heap = {}
  BY DEF Init, OpenEntries
<1>2. HeapIsFull
  BY <1>1, FS_EmptySet DEF HeapIsFull
<1>3. EntriesAreRight
  BY DEF Init, EntriesAreRight
<1>4. RestIsRight
  BY TableAssumption DEF Init, RestIsRight, Resolve, NoCall, Call, Failure
<1> QED  BY <1>2, <1>3, <1>4 DEF TInv

\* A step that opens nothing.
LEMMA KeepsEntries ==
  ASSUME TInv, UNCHANGED disk,
         \A i \in Index : file_descriptors'[i] # Closed =>
           /\ file_descriptors[i] # Closed /\ file_descriptors'[i].item = file_descriptors[i].item
           /\ file_descriptors'[i].pos <= MaxPosition
  PROVE  EntriesAreRight'
<1>1. item' = item /\ Closed' = Closed
  BY ClosedIs DEF disk
<1>2. \A i : Live(i)' <=> Live(i)
  BY <1>1 DEF Live
<1>3. ASSUME NEW i \in Index, file_descriptors'[i] # Closed
      PROVE  /\ file_descriptors'[i].pos <= MaxPosition
             /\ PathsAreNames => Live(file_descriptors'[i].item)
  BY <1>3 DEF TInv, EntriesAreRight
<1> QED  BY <1>1, <1>2, <1>3 DEF EntriesAreRight, Index, Live

LEMMA FopenTyped ==
  ASSUME FInv, TInv, NEW open \in Opens, NEW left \in Memory, Fopen(open[1], open[2], left)
  PROVE  TInv'
<1>1. PICK path : path = open[1]
  OBVIOUS
<1>2. PICK mode : mode = open[2]
  OBVIOUS
<1>3. path \in Text /\ left \in Nat /\ Fopen(path, mode, left)
  BY <1>1, <1>2, CallsOfFopen, TableAssumption
<1>4. UNCHANGED disk /\ filesystem' = filesystem
  BY <1>3 DEF Fopen
<1>5. wild' \in {"no", "pathparser_parse", "file_new_descriptor"}
  BY <1>3 DEF Fopen, Ends, TInv, RestIsRight
<1>6. MaxDescriptors \in Nat \ {0}
  BY TableAssumption
<1>7. CASE ChangesNothing(<<path, mode, left>>)
  <2>1. file_descriptors' = file_descriptors /\ heap' = heap
    BY <1>7 DEF ChangesNothing
  <2>2. call'.name \in {"none", "fopen"} /\ call'.value = 0
    BY <1>7 DEF ChangesNothing, NoCall, Call
  <2>3. EntriesAreRight'
    BY <1>4, <2>1, KeepsEntries DEF TInv, EntriesAreRight
  <2>4. HeapIsFull'
    BY <2>1 DEF TInv, HeapIsFull, OpenEntries, Index, Closed, Descriptor, Nothing
  <2>5. RestIsRight'
    BY <1>4, <1>5, <1>6, <2>2 DEF TInv, RestIsRight, Failure
  <2> QED  BY <2>3, <2>4, <2>5 DEF TInv
<1>8. ASSUME NEW fd \in Index, NEW d \in FileDescriptor, OpensEntry(<<path, mode, left>>, fd, d)
      PROVE  TInv'
  <2>1. /\ file_descriptors[fd] = Closed /\ file_descriptors'[fd] = d
        /\ \A i \in Index \ {fd} : file_descriptors'[i] = file_descriptors[i]
    BY <1>8 DEF OpensEntry, FInv, TableIsRight
  <2>2. d # Closed
    <3>1. d.desc # d.private
      BY <1>8 DEF OpensEntry, Apart
    <3> QED  BY <3>1, ClosedIs
  <2>3. /\ d.pos = 0 /\ Apart(d) /\ Structures(d) \cap heap = {}
        /\ heap' = heap \cup Structures(d) /\ Structures(d) \subseteq 1 .. Cardinality(heap) + 4
    BY <1>8 DEF OpensEntry
  <2>4. call'.name = "fopen" /\ call'.value = fd /\ fd # 0 /\ fd \in 1 .. MaxDescriptors
    BY <1>6, <1>8 DEF OpensEntry, Call, Index
  <2>5. PathsAreNames => Live(d.item)
    <3> SUFFICES ASSUME PathsAreNames PROVE Live(d.item)
      OBVIOUS
    <3>1. ~ Contains(path, DeletedMark)
      BY <1>1 DEF PathsAreNames
    <3> QED  BY <1>3, <2>1, <2>4, <3>1, FopenOpensLive
  <2>6. OpenEntries' = OpenEntries \cup {fd} /\ fd \notin OpenEntries
    <3>1. OpenEntries' = {i \in Index : file_descriptors'[i] # Closed}
      BY DEF OpenEntries, Index, Closed, Descriptor, Nothing
    <3> QED  BY <2>1, <2>2, <3>1 DEF OpenEntries
  <2>7. EntriesAreRight'
    <3>1. item' = item /\ Closed' = Closed
      BY <1>4, ClosedIs DEF disk
    <3>2. \A i : Live(i)' <=> Live(i)
      BY <3>1 DEF Live
    <3>3. ASSUME NEW i \in Index, file_descriptors'[i] # Closed
          PROVE  /\ file_descriptors'[i].pos <= MaxPosition
                 /\ PathsAreNames => Live(file_descriptors'[i].item)
      <4>1. CASE i = fd
        BY <2>1, <2>3, <2>5, <4>1, TableAssumption
      <4>2. CASE i # fd
        BY <2>1, <3>3, <4>2 DEF TInv, EntriesAreRight
      <4> QED  BY <4>1, <4>2
    <3> QED  BY <3>1, <3>2, <3>3 DEF EntriesAreRight, Index, Live
  <2>8. HeapIsFull'
    <3>1. PICK open1 : open1 = OpenEntries
      OBVIOUS
    <3>2. IsFiniteSet(open1) /\ Cardinality(open1) \in Nat
      BY <3>1, EntriesAreFinite DEF OpenEntries
    <3>3. Cardinality(open1 \cup {fd}) = Cardinality(open1) + 1
      BY <2>6, <3>1, <3>2, FS_AddElement
    <3>4. Cardinality(open1 \cup {fd}) <= MaxDescriptors
      <4>1. open1 \cup {fd} \subseteq Index
        BY <3>1 DEF OpenEntries
      <4> QED  BY <4>1, EntriesAreFinite
    <3>5. Cardinality(heap) = 4 * Cardinality(open1) /\ heap \subseteq 1 .. 4 * MaxDescriptors
      BY <3>1 DEF TInv, HeapIsFull
    <3>6. Cardinality(heap \cup Structures(d)) = Cardinality(heap) + 4
      BY <2>3, FourMore DEF FInv, HeapIsRight
    <3>7. Cardinality(heap') = 4 * Cardinality(OpenEntries')
      BY <2>3, <2>6, <3>1, <3>2, <3>3, <3>5, <3>6
    <3>8. \A s \in Structures(d) : s \in 1 .. 4 * MaxDescriptors
      <4>1. Cardinality(heap) + 4 <= 4 * MaxDescriptors
        BY <1>6, <3>2, <3>3, <3>4, <3>5
      <4>2. Cardinality(heap) \in Nat
        BY <3>2, <3>5
      <4> QED  BY <1>6, <2>3, <4>1, <4>2
    <3> QED  BY <2>3, <3>5, <3>7, <3>8 DEF HeapIsFull
  <2>9. RestIsRight'
    BY <1>4, <1>5, <1>6, <2>4 DEF TInv, RestIsRight, Failure
  <2> QED  BY <2>7, <2>8, <2>9 DEF TInv
<1> QED  BY <1>3, <1>7, <1>8, FopenIs

LEMMA FcloseTyped ==
  ASSUME FInv, TInv, NEW fd \in 0 .. MaxDescriptors, Fclose(fd)
  PROVE  TInv'
<1>1. UNCHANGED disk /\ filesystem' = filesystem /\ wild' = wild
  BY DEF Fclose
<1>2. \A i \in Index :
        file_descriptors'[i] = IF IsOpen(fd) /\ i = fd THEN Closed ELSE file_descriptors[i]
  BY DEF Fclose
<1>3. heap' = IF IsOpen(fd) THEN heap \ Structures(file_descriptors[fd]) ELSE heap
  BY DEF Fclose, Fat16Close, Structures
<1>4. MaxDescriptors \in Nat \ {0}
  BY TableAssumption
<1>5. EntriesAreRight'
  <2>1. \A i \in Index : file_descriptors'[i] # Closed => file_descriptors'[i] = file_descriptors[i]
    BY <1>2
  <2> QED  BY <1>1, <2>1, KeepsEntries DEF TInv, EntriesAreRight
<1>6. RestIsRight'
  <2>1. call'.name = "fclose" /\ call'.value \in {0, Failure}
    BY DEF Fclose, Call
  <2> QED  BY <1>1, <1>4, <2>1 DEF TInv, RestIsRight, Failure
<1>7. OpenEntries' = {i \in Index : file_descriptors'[i] # Closed}
  BY DEF OpenEntries, Index, Closed, Descriptor, Nothing
<1>8. HeapIsFull'
  <2>1. CASE ~ IsOpen(fd)
    <3>1. OpenEntries' = OpenEntries /\ heap' = heap
      BY <1>2, <1>3, <1>7, <2>1 DEF OpenEntries
    <3> QED  BY <3>1 DEF TInv, HeapIsFull
  <2>2. CASE IsOpen(fd)
    <3>1. fd \in Index /\ file_descriptors[fd] # Closed
      BY <2>2, TableAssumption DEF IsOpen, Handles, Index
    <3>2. PICK d : d = file_descriptors[fd]
      OBVIOUS
    <3>3. PICK h : h = heap \ Structures(d)
      OBVIOUS
    <3>4. Apart(d) /\ Structures(d) \subseteq heap /\ IsFiniteSet(heap)
      BY <3>1, <3>2 DEF FInv, HeapIsRight
    <3>5. h \cup Structures(d) = heap /\ Structures(d) \cap h = {} /\ h \subseteq heap
      BY <3>3, <3>4
    <3>6. IsFiniteSet(h)
      BY <3>4, <3>5, FS_Subset
    <3>7. Cardinality(h) \in Nat /\ Cardinality(heap) = Cardinality(h) + 4
      BY <3>4, <3>5, <3>6, FourMore
    <3>8. PICK rest : rest = OpenEntries'
      OBVIOUS
    <3>9. OpenEntries = rest \cup {fd} /\ fd \notin rest /\ rest \subseteq Index
      BY <1>2, <1>7, <2>2, <3>1, <3>8 DEF OpenEntries
    <3>10. IsFiniteSet(rest) /\ Cardinality(rest) \in Nat
      BY <3>9, EntriesAreFinite
    <3>11. Cardinality(OpenEntries) = Cardinality(rest) + 1
      BY <3>9, <3>10, FS_AddElement
    <3>12. heap' = h
      BY <1>3, <2>2, <3>2, <3>3
    <3>13. Cardinality(heap) = 4 * Cardinality(OpenEntries) /\ heap \subseteq 1 .. 4 * MaxDescriptors
      BY DEF TInv, HeapIsFull
    <3>14. Cardinality(h) = 4 * Cardinality(rest)
      BY <3>7, <3>10, <3>11, <3>13
    <3> QED  BY <3>5, <3>8, <3>12, <3>13, <3>14 DEF HeapIsFull
  <2> QED  BY <2>1, <2>2
<1> QED  BY <1>5, <1>6, <1>8 DEF TInv

LEMMA FseekTyped ==
  ASSUME FInv, TInv, NEW fd \in 0 .. MaxDescriptors, NEW offset \in Lengths, NEW whence,
         Fseek(fd, offset, whence)
  PROVE  TInv'
<1>1. UNCHANGED disk /\ filesystem' = filesystem /\ wild' = wild /\ heap' = heap
  BY DEF Fseek
<1>2. file_descriptors \in [Index -> FileDescriptor]
  BY DEF FInv, TableIsRight
<1>3. ASSUME NEW i \in Index
      PROVE  /\ file_descriptors'[i].item = file_descriptors[i].item
             /\ file_descriptors'[i] = Closed <=> file_descriptors[i] = Closed
             /\ file_descriptors'[i] # Closed => file_descriptors'[i].pos <= MaxPosition
  <2>1. CASE UNCHANGED file_descriptors
    BY <2>1 DEF TInv, EntriesAreRight
  <2>2. CASE Seeks(fd, offset, whence) /\ ~ UNCHANGED file_descriptors
    <3>1. PICK pos : /\ file_descriptors' = [file_descriptors EXCEPT ![fd].pos = pos]
                     /\ pos = offset \/ pos = file_descriptors[fd].pos + offset
      BY <2>2 DEF Fseek
    <3>2. file_descriptors'[fd].pos <= MaxPosition
      BY <2>2 DEF Fseek
    <3>3. fd \in Index /\ file_descriptors[fd] # Closed
      BY <2>2, TableAssumption DEF Seeks, IsOpen, Handles, Index
    <3>4. CASE i # fd
      BY <1>2, <3>1, <3>4 DEF TInv, EntriesAreRight
    <3>5. CASE i = fd
      <4>1. PICK d : d = file_descriptors[fd]
        OBVIOUS
      <4>2. PICK e : e = [d EXCEPT !.pos = pos]
        OBVIOUS
      <4>3. file_descriptors' = [file_descriptors EXCEPT ![fd] = e]
        BY <3>1, <4>1, <4>2
      <4>4. file_descriptors'[fd] = e
        BY <1>2, <3>3, <4>3
      <4>5. d \in FileDescriptor /\ d # Closed
        BY <1>2, <3>3, <4>1
      <4>6. e.item = d.item /\ e.desc = d.desc /\ e.private = d.private
        BY <4>2, <4>5 DEF FileDescriptor
      <4>7. d.desc # d.private
        BY <3>3, <4>1 DEF FInv, HeapIsRight, Apart
      <4>8. e # Closed
        BY <4>6, <4>7, ClosedIs
      <4> QED  BY <3>2, <3>3, <3>5, <4>1, <4>4, <4>6, <4>8
    <3> QED  BY <3>4, <3>5
  <2> QED  BY <2>1, <2>2 DEF Fseek
<1>4. EntriesAreRight'
  BY <1>1, <1>3, KeepsEntries
<1>5. HeapIsFull'
  <2>1. OpenEntries' = OpenEntries
    <3>1. OpenEntries' = {i \in Index : file_descriptors'[i] # Closed}
      BY DEF OpenEntries, Index, Closed, Descriptor, Nothing
    <3> QED  BY <1>3, <3>1 DEF OpenEntries
  <2> QED  BY <1>1, <2>1 DEF TInv, HeapIsFull
<1>6. RestIsRight'
  <2>1. call'.name = "fseek" /\ call'.value \in {0, Failure}
    BY DEF Fseek, Call
  <2> QED  BY <1>1, <2>1, TableAssumption DEF TInv, RestIsRight, Failure
<1> QED  BY <1>4, <1>5, <1>6 DEF TInv

\* fstat and fread change nothing but what they return: a number of members is
\* only returned for an open file, and there is none unless the table has two
\* entries.
LEMMA ReadersTyped ==
  ASSUME FInv, TInv, UNCHANGED <<disk, filesystem, file_descriptors, heap, wild>>,
         NEW fd \in 0 .. MaxDescriptors,
         Fstat(fd) \/ \E size \in Lengths, nmemb \in 0 .. 2 : Fread(fd, size, nmemb)
  PROVE  TInv'
<1>1. UNCHANGED disk /\ file_descriptors' = file_descriptors /\ heap' = heap
  OBVIOUS
<1>2. EntriesAreRight'
  BY <1>1, KeepsEntries DEF TInv, EntriesAreRight
<1>3. HeapIsFull'
  BY <1>1 DEF TInv, HeapIsFull, OpenEntries, Index, Closed, Descriptor, Nothing
<1>4. call'.name \in {"fstat", "fread"} /\ call'.value \in Failure .. MaxDescriptors
  <2>1. MaxDescriptors \in Nat \ {0}
    BY TableAssumption
  <2>2. CASE Fstat(fd)
    BY <2>1, <2>2 DEF Fstat, Call, Failure
  <2>3. ASSUME NEW size \in Lengths, NEW nmemb \in 0 .. 2, Fread(fd, size, nmemb)
        PROVE  call'.name = "fread" /\ call'.value \in Failure .. MaxDescriptors
    <3>1. call'.name = "fread" /\ (call'.value # Failure => call'.value = nmemb /\ IsOpen(fd))
      BY <2>3 DEF Fread, Call
    <3>2. IsOpen(fd) => MaxDescriptors >= 2
      BY <2>1 DEF IsOpen, Handles
    <3> QED  BY <2>1, <3>1, <3>2 DEF Failure
  <2> QED  BY <2>2, <2>3
<1>5. RestIsRight'
  BY <1>4 DEF TInv, RestIsRight
<1> QED  BY <1>2, <1>3, <1>5 DEF TInv

LEMMA TypingStep == FInv /\ TInv /\ [Next]_vars => TInv'
<1> SUFFICES ASSUME FInv, TInv, [Next]_vars PROVE TInv'
  OBVIOUS
<1>1. ASSUME NEW open \in Opens, NEW left \in Memory, Fopen(open[1], open[2], left)
      PROVE  TInv'
  BY <1>1, FopenTyped
<1>2. ASSUME NEW fd \in 0 .. MaxDescriptors,
             Fstat(fd) \/ \E size \in Lengths, nmemb \in 0 .. 2 : Fread(fd, size, nmemb)
      PROVE  TInv'
  <2>1. UNCHANGED <<disk, filesystem, file_descriptors, heap, wild>>
    BY <1>2 DEF Fstat, Fread
  <2> QED  BY <1>2, <2>1, ReadersTyped
<1>3. ASSUME NEW fd \in 0 .. MaxDescriptors, Fclose(fd)
      PROVE  TInv'
  BY <1>3, FcloseTyped
<1>4. ASSUME NEW fd \in 0 .. MaxDescriptors, NEW offset \in Lengths,
             NEW whence \in {"SEEK_SET", "SEEK_CUR", "SEEK_END"}, Fseek(fd, offset, whence)
      PROVE  TInv'
  BY <1>4, FseekTyped
<1>5. CASE UNCHANGED vars
  <2>1. /\ UNCHANGED disk /\ file_descriptors' = file_descriptors /\ heap' = heap
        /\ filesystem' = filesystem /\ wild' = wild /\ call' = call
    BY <1>5 DEF vars
  <2>2. EntriesAreRight'
    BY <2>1, KeepsEntries DEF TInv, EntriesAreRight
  <2>3. HeapIsFull'
    BY <2>1 DEF TInv, HeapIsFull, OpenEntries, Index, Closed, Descriptor, Nothing
  <2>4. RestIsRight'
    BY <2>1 DEF TInv, RestIsRight
  <2> QED  BY <2>2, <2>3, <2>4 DEF TInv
<1> QED  BY <1>1, <1>2, <1>3, <1>4, <1>5 DEF Next

\* Open files are items of the disk, and no deleted ones unless a path spells the
\* mark of those; the heap never outgrows the table.
THEOREM FilesTyping == Spec => []TypeOK
<1>1. FInv /\ TInv => TypeOK
  <2> SUFFICES ASSUME FInv, TInv PROVE TypeOK
    OBVIOUS
  <2>1. ASSUME NEW fd \in Index, file_descriptors[fd] # Closed, NEW d, d = file_descriptors[fd]
        PROVE  /\ d.item \in DOMAIN item /\ d.pos \in 0 .. MaxPosition
               /\ PathsAreNames => Live(d.item)
    <3>1. d.pos \in Nat
      BY <2>1 DEF FInv, TableIsRight, FileDescriptor
    <3>2. d.item \in DOMAIN item
      BY <2>1 DEF FInv, TableIsRight
    <3>3. d.pos <= MaxPosition /\ (PathsAreNames => Live(d.item))
      BY <2>1 DEF TInv, EntriesAreRight
    <3> QED  BY <3>1, <3>2, <3>3, TableAssumption
  <2> QED  BY <2>1 DEF TypeOK, TInv, HeapIsFull, RestIsRight
<1>2. FInv /\ TInv /\ [Next]_vars => TInv'
  BY TypingStep
<1> QED  BY <1>1, <1>2, TypingBegins, FilesInvariant, PTL DEF Spec
=============================================================================
