--------------------------- MODULE KeyboardProofs ---------------------------
(***************************************************************************)
(* Proofs about Keyboard, for every size of the buffer and every range of  *)
(* the counters of which it is a divisor: the rings are queues of the keys *)
(* that were typed, and each process reads its own.                        *)
(***************************************************************************)
EXTENDS Keyboard, KernelProofs

(* Remainders. *)

LEMMA DivMod ==
  ASSUME NEW a \in Int, NEW m \in Nat \ {0}
  PROVE  /\ a % m \in 0 .. m - 1
         /\ a \div m \in Int
         /\ a = (a \div m) * m + (a % m)
OBVIOUS

LEMMA Distributed ==
  ASSUME NEW p \in Int, NEW q \in Int, NEW k \in Int, NEW m \in Int
  PROVE  /\ p * m \in Int
         /\ (p - q) * m = p * m - q * m
         /\ (p - q - k) * m = p * m - q * m - k * m
         /\ (-p) * m = -(p * m)
         /\ (p + q) * m = p * m + q * m
OBVIOUS

\* A multiple of m that is nearer to 0 than m is 0.
LEMMA SmallMultiple ==
  ASSUME NEW z \in Int, NEW m \in Nat \ {0}, -m < z * m, z * m < m
  PROVE  z = 0
<1>1. z >= 1 => z * m >= m
  OBVIOUS
<1>2. z <= -1 => z * m <= -m
  OBVIOUS
<1> QED  BY <1>1, <1>2

\* Numbers that differ by a multiple of m have the same remainder.
LEMMA SameRemainder ==
  ASSUME NEW a \in Int, NEW b \in Int, NEW m \in Nat \ {0}, NEW k \in Int, a = b + k * m
  PROVE  a % m = b % m
<1> DEFINE p == a \div m
           q == b \div m
           x == a % m
           y == b % m
           z == p - q - k
<1>1. /\ x \in 0 .. m - 1 /\ p \in Int /\ a = p * m + x
      /\ y \in 0 .. m - 1 /\ q \in Int /\ b = q * m + y
  BY DivMod
<1> HIDE DEF p, q, x, y
<1>2. z \in Int /\ z * m = p * m - q * m - k * m
  BY <1>1, Distributed
<1>3. p * m \in Int /\ q * m \in Int /\ k * m \in Int
  BY <1>1, Distributed
<1> HIDE DEF z
<1>4. z * m = y - x
  BY <1>1, <1>2, <1>3
<1>5. z = 0
  BY <1>1, <1>2, <1>4, SmallMultiple
<1>6. x = y
  BY <1>1, <1>4, <1>5
<1> QED  BY <1>6 DEF x, y

\* The remainder of a number is a number that differs by a multiple.
LEMMA RemainderDiffers ==
  ASSUME NEW a \in Int, NEW m \in Nat \ {0}
  PROVE  \E k \in Int : a % m = a + k * m
<1>1. a \div m \in Int /\ a = (a \div m) * m + (a % m) /\ a % m \in Int
  BY DivMod
<1>2. (-(a \div m)) * m = -((a \div m) * m) /\ (a \div m) * m \in Int
  BY <1>1, Distributed
<1>3. a % m = a + (-(a \div m)) * m /\ -(a \div m) \in Int
  BY <1>1, <1>2
<1> QED  BY <1>3

LEMMA SmallRemainder ==
  ASSUME NEW m \in Nat \ {0}, NEW a \in 0 .. m - 1
  PROVE  a % m = a
OBVIOUS

\* Two numbers less than m apart have the same remainder only if they are equal.
LEMMA NearRemainders ==
  ASSUME NEW a \in Int, NEW b \in Int, NEW m \in Nat \ {0}, -m < a - b, a - b < m,
         a % m = b % m
  PROVE  a = b
<1> DEFINE p == a \div m
           q == b \div m
           z == p - q
<1>1. /\ p \in Int /\ a = p * m + (a % m) /\ q \in Int /\ b = q * m + (b % m)
      /\ a % m \in Int /\ b % m \in Int
  BY DivMod
<1> HIDE DEF p, q
<1>2. z \in Int /\ z * m = a - b
  <2>1. z * m = p * m - q * m /\ p * m \in Int /\ q * m \in Int
    BY <1>1, Distributed
  <2> QED  BY <1>1, <2>1
<1>3. z = 0
  BY <1>2, SmallMultiple
<1> QED  BY <1>2, <1>3

\* a and b differ by a multiple of m.
Congruent(a, b, m) == \E k \in Int : a = b + k * m

LEMMA CongruentRemainders ==
  ASSUME NEW a \in Int, NEW b \in Int, NEW m \in Nat \ {0}, Congruent(a, b, m)
  PROVE  a % m = b % m
BY SameRemainder DEF Congruent

-----------------------------------------------------------------------------
(* The ring. *)

RingType ==
  [buffer : [Cells -> Typed \cup {0}], head : 0 .. IntRange - 1, tail : 0 .. IntRange - 1]

\* The i-th cell of the ring from its head.
Cell(r, i) == (r.head + i) % BufferSize

\* What RingIsQueue says of one ring.
HoldsUnread(r) ==
  /\ Unread(r) \in 0 .. BufferSize
  /\ \A i \in Cells : r.buffer[Cell(r, i)] = 0 <=> i >= Unread(r)

LEMMA Sizes ==
  /\ BufferSize \in Nat \ {0} /\ IntRange \in Nat \ {0} /\ BufferSize < IntRange
  /\ \E n \in Int : IntRange = n * BufferSize
<1>1. BufferSize \in Nat \ {0} /\ IntRange \in Nat \ {0} /\ BufferSize < IntRange
  BY RingAssumption
<1> DEFINE n == IntRange \div BufferSize
           x == IntRange % BufferSize
<1>2. n \in Int /\ IntRange = n * BufferSize + x
  BY <1>1, DivMod
<1>3. x = 0
  BY RingAssumption
<1> HIDE DEF n, x
<1>4. n * BufferSize \in Int
  BY <1>1, <1>2, Distributed
<1>5. IntRange = n * BufferSize
  BY <1>2, <1>3, <1>4
<1> QED  BY <1>1, <1>2, <1>5

\* A multiple of the counters' range is a multiple of the buffer's size.
LEMMA RangeMultiple ==
  ASSUME NEW k \in Int
  PROVE  \E j \in Int : k * IntRange = j * BufferSize
<1>1. PICK n \in Int : IntRange = n * BufferSize
  BY Sizes
<1>2. BufferSize \in Int
  BY Sizes
<1> DEFINE b == BufferSize
<1>3. k * (n * b) = (k * n) * b /\ k * n \in Int
  BY <1>2
<1> QED  BY <1>1, <1>3

\* A counter that has wrapped selects the cell that it would have selected.
LEMMA WrappedCell ==
  ASSUME NEW a \in Int, NEW i \in Int
  PROVE  /\ ((a % IntRange) + i) % BufferSize = (a + i) % BufferSize
         /\ a % IntRange \in 0 .. IntRange - 1
<1>1. PICK k \in Int : a % IntRange = a + k * IntRange
  BY Sizes, RemainderDiffers
<1>2. PICK j \in Int : k * IntRange = j * BufferSize
  BY RangeMultiple
<1> DEFINE x == a % IntRange
           y == j * BufferSize
<1>3. a % IntRange \in 0 .. IntRange - 1
  BY Sizes, DivMod
<1>4. x = a + y /\ x \in Int /\ y \in Int
  BY <1>1, <1>2, <1>3, Sizes, Distributed
<1> DEFINE u == x + i
           v == a + i
<1> HIDE DEF x, y
<1>5. u = v + y /\ u \in Int /\ v \in Int
  BY <1>4
<1> HIDE DEF u, v
<1>6. Congruent(u, v, BufferSize)
  BY <1>5 DEF y, Congruent
<1>7. u % BufferSize = v % BufferSize
  BY <1>5, <1>6, Sizes, CongruentRemainders
<1> QED  BY <1>3, <1>7 DEF x, u, v

LEMMA CellFacts ==
  ASSUME NEW r \in RingType
  PROVE  /\ \A i \in Int : Cell(r, i) \in Cells
         /\ \A i, j \in Cells : Cell(r, i) = Cell(r, j) => i = j
         /\ HeadIndex(r) = Cell(r, 0)
         /\ TailIndex(r) = Cell(r, Unread(r))
         /\ Cell(r, BufferSize) = Cell(r, 0)
         /\ Unread(r) \in 0 .. IntRange - 1
<1>1. r.head \in Int /\ r.tail \in Int
  BY DEF RingType
<1>2. \A i \in Int : Cell(r, i) \in Cells
  <2> TAKE i \in Int
  <2>1. r.head + i \in Int
    BY <1>1
  <2> QED  BY <2>1, Sizes, DivMod DEF Cell, Cells
<1>3. \A i, j \in Cells : Cell(r, i) = Cell(r, j) => i = j
  <2> SUFFICES ASSUME NEW i \in Cells, NEW j \in Cells, Cell(r, i) = Cell(r, j) PROVE i = j
    OBVIOUS
  <2> DEFINE a == r.head + i
             b == r.head + j
  <2>1. /\ a \in Int /\ b \in Int /\ i \in Int /\ j \in Int
        /\ -BufferSize < a - b /\ a - b < BufferSize
    BY <1>1, Sizes DEF Cells
  <2>2. a % BufferSize = b % BufferSize
    BY DEF Cell
  <2> HIDE DEF a, b
  <2>3. a = b
    BY <2>1, <2>2, Sizes, NearRemainders
  <2> QED  BY <1>1, <2>1, <2>3 DEF a, b
<1>4. HeadIndex(r) = Cell(r, 0)
  BY <1>1 DEF HeadIndex, Cell
<1>5. /\ TailIndex(r) = Cell(r, Unread(r))
      /\ Unread(r) \in 0 .. IntRange - 1
  <2> DEFINE d == r.tail - r.head
  <2>1. d \in Int /\ d + r.head = r.tail
    BY <1>1
  <2>2. /\ ((d % IntRange) + r.head) % BufferSize = (d + r.head) % BufferSize
        /\ d % IntRange \in 0 .. IntRange - 1
    BY <1>1, <2>1, WrappedCell
  <2>3. Unread(r) = d % IntRange
    BY DEF Unread
  <2> HIDE DEF d
  <2>4. Unread(r) + r.head = r.head + Unread(r)
    BY <1>1, <2>2, <2>3
  <2> QED  BY <2>1, <2>2, <2>3, <2>4 DEF TailIndex, Cell
<1>6. Cell(r, BufferSize) = Cell(r, 0)
  <2>1. /\ r.head + BufferSize = (r.head + 0) + 1 * BufferSize
        /\ r.head + BufferSize \in Int /\ r.head + 0 \in Int /\ 1 \in Int
    BY <1>1, Sizes
  <2> QED  BY <2>1, Sizes, SameRemainder DEF Cell
<1> QED  BY <1>2, <1>3, <1>4, <1>5, <1>6

\* How counting on changes the number of unread keys.
LEMMA CountOn ==
  ASSUME NEW h \in Int, NEW t \in Int
  PROVE  /\ LET n == (t - h) % IntRange
            IN  /\ n < BufferSize => (((t + 1) % IntRange) - h) % IntRange = n + 1
                /\ n > 0 => (t - ((h + 1) % IntRange)) % IntRange = n - 1
<1> DEFINE R == IntRange
           n == (t - h) % R
           x == (t + 1) % R
           y == (h + 1) % R
<1>1. R \in Nat \ {0} /\ BufferSize \in Nat \ {0} /\ BufferSize < R
  BY Sizes
<1>2. t - h \in Int /\ t + 1 \in Int /\ h + 1 \in Int
  OBVIOUS
<1>3. PICK k \in Int : n = (t - h) + k * R
  BY <1>1, <1>2, RemainderDiffers
<1>4. PICK j \in Int : x = (t + 1) + j * R
  BY <1>1, <1>2, RemainderDiffers
<1>5. PICK i \in Int : y = (h + 1) + i * R
  BY <1>1, <1>2, RemainderDiffers
<1>6. n \in 0 .. R - 1 /\ x \in 0 .. R - 1 /\ y \in 0 .. R - 1
  BY <1>1, <1>2, DivMod
<1> HIDE DEF R, n, x, y
<1>7. /\ k * R \in Int /\ j * R \in Int /\ i * R \in Int
      /\ (j - k) * R = j * R - k * R
      /\ (-(k + i)) * R = -((k + i) * R) /\ (k + i) * R = k * R + i * R
  BY <1>1, Distributed
<1>8. /\ x - h = (n + 1) + (j - k) * R
      /\ t - y = (n - 1) + (-(k + i)) * R
  BY <1>3, <1>4, <1>5, <1>6, <1>7
<1>9. /\ (x - h) % R = (n + 1) % R
      /\ (t - y) % R = (n - 1) % R
  <2> DEFINE u == x - h
             v == n + 1
             w == t - y
             z == n - 1
             p == j - k
             q == -(k + i)
  <2>1. u \in Int /\ v \in Int /\ p \in Int /\ w \in Int /\ z \in Int /\ q \in Int
    BY <1>6
  <2>2. u = v + p * R /\ w = z + q * R
    BY <1>8
  <2> HIDE DEF u, v, w, z, p, q
  <2>3. Congruent(u, v, R) /\ Congruent(w, z, R)
    BY <2>1, <2>2 DEF Congruent
  <2>4. u % R = v % R /\ w % R = z % R
    BY <1>1, <2>1, <2>3, CongruentRemainders
  <2> QED  BY <2>4 DEF u, v, w, z
<1>10. n < BufferSize => (n + 1) % R = n + 1
  BY <1>1, <1>6, SmallRemainder
<1>11. n > 0 => (n - 1) % R = n - 1
  BY <1>1, <1>6, SmallRemainder
<1> QED  BY <1>9, <1>10, <1>11 DEF R, n, x, y

LEMMA PushType ==
  ASSUME NEW r \in RingType, NEW c \in Typed
  PROVE  /\ Push(r, c) \in RingType
         /\ Push(r, c).head = r.head
         /\ Push(r, c).tail = (r.tail + 1) % IntRange
         /\ Push(r, c).buffer = [r.buffer EXCEPT ![TailIndex(r)] = c]
<1>1. r.tail + 1 \in Int
  BY DEF RingType
<1>2. (r.tail + 1) % IntRange \in 0 .. IntRange - 1
  BY <1>1, Sizes, DivMod
<1> DEFINE x == (r.tail + 1) % IntRange
<1> HIDE DEF x
<1>3. Push(r, c) = [r EXCEPT !.buffer[TailIndex(r)] = c, !.tail = x]
  BY DEF Push, x
<1> QED  BY <1>2, <1>3 DEF RingType, x

LEMMA PopType ==
  ASSUME NEW r \in RingType
  PROVE  /\ Pop(r) \in RingType /\ Popped(r) \in Typed \cup {0}
         /\ Popped(r) # 0 =>
              /\ Pop(r).head = (r.head + 1) % IntRange
              /\ Pop(r).tail = r.tail
              /\ Pop(r).buffer = [r.buffer EXCEPT ![HeadIndex(r)] = 0]
<1>1. r.head + 1 \in Int
  BY DEF RingType
<1>2. (r.head + 1) % IntRange \in 0 .. IntRange - 1
  BY <1>1, Sizes, DivMod
<1> DEFINE x == (r.head + 1) % IntRange
<1> HIDE DEF x
<1>3. Popped(r) # 0 => Pop(r) = [r EXCEPT !.buffer[HeadIndex(r)] = 0, !.head = x]
  BY DEF Pop, x
<1>4. Popped(r) = 0 => Pop(r) = r
  BY DEF Pop
<1>5. HeadIndex(r) \in Cells
  BY CellFacts
<1> QED  BY <1>2, <1>3, <1>4, <1>5 DEF RingType, Popped, x

\* The unread keys as a sequence.
LEMMA ContentsFacts ==
  ASSUME NEW r \in RingType, HoldsUnread(r)
  PROVE  /\ Contents(r) \in Seq(Typed) /\ Len(Contents(r)) = Unread(r)
         /\ \A i \in 1 .. Unread(r) : Contents(r)[i] = r.buffer[Cell(r, i - 1)]
         /\ Unread(r) \in 0 .. BufferSize
<1> DEFINE n == Unread(r)
<1>1. n \in Nat /\ n <= BufferSize /\ r.head \in Int
  BY Sizes DEF HoldsUnread, RingType
<1>2. \A i \in 1 .. n : (r.head + i - 1) % BufferSize = Cell(r, i - 1)
  <2> TAKE i \in 1 .. n
  <2>1. r.head + i - 1 = r.head + (i - 1)
    BY <1>1
  <2> QED  BY <2>1 DEF Cell
<1>3. Contents(r) = [i \in 1 .. n |-> r.buffer[Cell(r, i - 1)]]
  BY <1>2 DEF Contents
<1>4. \A i \in 1 .. n : r.buffer[Cell(r, i - 1)] \in Typed
  <2> TAKE i \in 1 .. n
  <2>1. i - 1 \in Cells /\ ~ (i - 1 >= n)
    BY <1>1, Sizes DEF Cells
  <2>2. r.buffer[Cell(r, i - 1)] # 0
    BY <2>1 DEF HoldsUnread
  <2>3. Cell(r, i - 1) \in Cells
    BY <2>1, CellFacts, Sizes DEF Cells
  <2> QED  BY <2>2, <2>3 DEF RingType
<1> HIDE DEF n
<1>5. Contents(r) \in Seq(Typed) /\ Len(Contents(r)) = n
  BY <1>1, <1>3, <1>4
<1> QED  BY <1>1, <1>3, <1>5, Sizes DEF n

\* A key that finds room is the last one of the queue.
LEMMA PushRing ==
  ASSUME NEW r \in RingType, NEW c \in Typed, HoldsUnread(r), Unread(r) # BufferSize
  PROVE  /\ HoldsUnread(Push(r, c))
         /\ Unread(Push(r, c)) = Unread(r) + 1
         /\ Contents(Push(r, c)) = Append(Contents(r), c)
<1> DEFINE n == Unread(r)
           p == Push(r, c)
<1>1. n \in Cells /\ n \in Nat /\ n < BufferSize
  BY Sizes DEF HoldsUnread, Cells
<1>2. p \in RingType /\ p.head = r.head /\ p.buffer = [r.buffer EXCEPT ![Cell(r, n)] = c]
  BY PushType, CellFacts
<1>3. Unread(p) = n + 1
  <2>1. r.head \in Int /\ r.tail \in Int
    BY DEF RingType
  <2>2. (((r.tail + 1) % IntRange) - r.head) % IntRange = n + 1
    BY <1>1, <2>1, CountOn DEF Unread
  <2>3. Unread(p) = (((r.tail + 1) % IntRange) - r.head) % IntRange
    BY PushType DEF Unread
  <2> QED  BY <2>2, <2>3
<1> HIDE DEF p, n
<1>4. \A i \in Int : Cell(p, i) = Cell(r, i)
  BY <1>2 DEF Cell
<1>5. \A i \in Cells : p.buffer[Cell(r, i)] = IF i = n THEN c ELSE r.buffer[Cell(r, i)]
  <2> TAKE i \in Cells
  <2>1. Cell(r, i) \in Cells /\ (Cell(r, i) = Cell(r, n) => i = n)
    BY <1>1, CellFacts DEF Cells
  <2> QED  BY <1>2, <2>1 DEF RingType
<1>6. c # 0
  BY DEF Typed
<1>7. HoldsUnread(p)
  <2>1. \A i \in Cells : p.buffer[Cell(p, i)] = 0 <=> i >= n + 1
    <3> TAKE i \in Cells
    <3>1. i \in Int /\ (r.buffer[Cell(r, i)] = 0 <=> i >= n)
      BY DEF HoldsUnread, Cells, n
    <3> QED  BY <1>1, <1>4, <1>5, <1>6, <3>1
  <2>2. n + 1 \in 0 .. BufferSize
    BY <1>1, Sizes
  <2> QED  BY <1>3, <2>1, <2>2 DEF HoldsUnread
<1>8. Contents(p) = Append(Contents(r), c)
  <2>1. /\ Contents(r) \in Seq(Typed) /\ Len(Contents(r)) = n
        /\ \A i \in 1 .. n : Contents(r)[i] = r.buffer[Cell(r, i - 1)]
    BY ContentsFacts DEF n
  <2>2. /\ Contents(p) \in Seq(Typed) /\ Len(Contents(p)) = n + 1
        /\ \A i \in 1 .. n + 1 : Contents(p)[i] = p.buffer[Cell(p, i - 1)]
    BY <1>2, <1>3, <1>7, ContentsFacts
  <2>3. \A i \in 1 .. n + 1 :
          /\ i - 1 \in Cells
          /\ i \notin 1 .. n => i = n + 1 /\ i - 1 = n
          /\ i \in 1 .. n => i - 1 # n
    BY <1>1, Sizes DEF Cells
  <2>4. \A i \in 1 .. n + 1 :
          Contents(p)[i] = IF i = n + 1 THEN c ELSE Contents(r)[i]
    <3> TAKE i \in 1 .. n + 1
    <3>1. Contents(p)[i] = p.buffer[Cell(r, i - 1)]
      BY <1>4, <2>2, <2>3
    <3>2. p.buffer[Cell(r, i - 1)] =
            IF i - 1 = n THEN c ELSE r.buffer[Cell(r, i - 1)]
      <4> DEFINE j == i - 1
      <4>1. j \in Cells
        BY <2>3
      <4> HIDE DEF j
      <4>2. p.buffer[Cell(r, j)] = IF j = n THEN c ELSE r.buffer[Cell(r, j)]
        BY <1>5, <4>1
      <4> QED  BY <4>2 DEF j
    <3>3. i \in 1 .. n => Contents(r)[i] = r.buffer[Cell(r, i - 1)]
      BY <2>1
    <3> QED  BY <1>1, <2>3, <3>1, <3>2, <3>3
  <2>5. /\ Append(Contents(r), c) \in Seq(Typed) /\ Len(Append(Contents(r), c)) = n + 1
        /\ \A i \in 1 .. n + 1 :
             Append(Contents(r), c)[i] = IF i = n + 1 THEN c ELSE Contents(r)[i]
    BY <1>1, <2>1
  <2> DEFINE x == Contents(p)
             y == Append(Contents(r), c)
  <2> HIDE DEF x, y
  <2>6. /\ x \in Seq(Typed) /\ y \in Seq(Typed) /\ Len(x) = Len(y)
        /\ \A i \in 1 .. Len(x) : x[i] = y[i]
    BY <2>2, <2>4, <2>5 DEF x, y
  <2>7. x = y
    BY <2>6, SeqEqual
  <2> QED  BY <2>7 DEF x, y
<1> QED  BY <1>3, <1>7, <1>8 DEF n, p

\* keyboard_pop takes the first key of the queue, and finds none exactly if
\* there is none.
LEMMA PopRing ==
  ASSUME NEW r \in RingType, HoldsUnread(r)
  PROVE  /\ HoldsUnread(Pop(r))
         /\ Contents(r) = <<>> =>
              Popped(r) = 0 /\ Contents(Pop(r)) = Contents(r)
         /\ Contents(r) # <<>> =>
              /\ Popped(r) = Head(Contents(r))
              /\ Contents(Pop(r)) = Tail(Contents(r))
<1> DEFINE n == Unread(r)
           q == Pop(r)
<1>1. n \in Nat /\ n <= BufferSize /\ r.head \in Int /\ 0 \in Cells
  BY Sizes DEF HoldsUnread, RingType, Cells
<1>2. /\ Contents(r) \in Seq(Typed) /\ Len(Contents(r)) = n
      /\ \A i \in 1 .. n : Contents(r)[i] = r.buffer[Cell(r, i - 1)]
  BY ContentsFacts
<1>3. Popped(r) = r.buffer[Cell(r, 0)] /\ (Popped(r) = 0 <=> n = 0)
  BY <1>1, CellFacts DEF Popped, HoldsUnread
<1>4. CASE n = 0
  BY <1>2, <1>3, <1>4 DEF Pop
<1>5. CASE n # 0
  <2>1. /\ q \in RingType /\ q.head = (r.head + 1) % IntRange /\ q.tail = r.tail
        /\ q.buffer = [r.buffer EXCEPT ![Cell(r, 0)] = 0]
    BY <1>3, <1>5, PopType, CellFacts
  <2>2. Unread(q) = n - 1
    <3>1. r.tail \in Int /\ n > 0
      BY <1>1, <1>5 DEF RingType
    <3>2. (r.tail - ((r.head + 1) % IntRange)) % IntRange = n - 1
      BY <1>1, <3>1, CountOn DEF Unread
    <3> QED  BY <2>1, <3>2 DEF Unread
  <2> HIDE DEF n, q
  <2>3. \A i \in Int : Cell(q, i) = Cell(r, i + 1)
    <3> TAKE i \in Int
    <3> DEFINE a == r.head + 1
    <3>1. a \in Int /\ a + i = r.head + (i + 1)
      BY <1>1
    <3>2. q.head = a % IntRange
      BY <2>1
    <3> HIDE DEF a
    <3>3. ((a % IntRange) + i) % BufferSize = (a + i) % BufferSize
      BY <3>1, WrappedCell
    <3> QED  BY <3>1, <3>2, <3>3 DEF Cell
  <2>4. \A i \in Cells : q.buffer[Cell(r, i)] = IF i = 0 THEN 0 ELSE r.buffer[Cell(r, i)]
    <3> TAKE i \in Cells
    <3>1. Cell(r, i) \in Cells /\ (Cell(r, i) = Cell(r, 0) => i = 0)
      BY <1>1, CellFacts DEF Cells
    <3> QED  BY <2>1, <3>1 DEF RingType
  <2>5. HoldsUnread(q)
    <3>1. \A i \in Cells : q.buffer[Cell(q, i)] = 0 <=> i >= n - 1
      <4> TAKE i \in Cells
      <4>1. i \in Int /\ Cell(q, i) = Cell(r, i + 1)
        BY <2>3 DEF Cells
      <4>2. CASE i + 1 \in Cells
        <5>1. r.buffer[Cell(r, i + 1)] = 0 <=> i + 1 >= n
          BY <4>2 DEF HoldsUnread, n
        <5>2. i + 1 # 0
          BY DEF Cells
        <5> QED  BY <1>1, <2>4, <4>1, <4>2, <5>1, <5>2
      <4>3. CASE i + 1 \notin Cells
        <5>1. i + 1 = BufferSize /\ i >= n - 1
          BY <1>1, <4>3, Sizes DEF Cells
        <5>2. Cell(q, i) = Cell(r, 0)
          BY <4>1, <5>1, CellFacts
        <5> QED  BY <1>1, <2>4, <5>1, <5>2
      <4> QED  BY <4>2, <4>3
    <3>2. n - 1 \in 0 .. BufferSize
      BY <1>1, <1>5, Sizes
    <3> QED  BY <2>2, <3>1, <3>2 DEF HoldsUnread
  <2>6. /\ Contents(q) \in Seq(Typed) /\ Len(Contents(q)) = n - 1
        /\ \A i \in 1 .. n - 1 : Contents(q)[i] = q.buffer[Cell(q, i - 1)]
    BY <2>1, <2>2, <2>5, ContentsFacts
  <2>7. Contents(r) # <<>>
    BY <1>2, <1>5
  <2>8. /\ Tail(Contents(r)) \in Seq(Typed) /\ Len(Tail(Contents(r))) = n - 1
        /\ \A i \in 1 .. n - 1 : Tail(Contents(r))[i] = Contents(r)[i + 1]
    BY <1>1, <1>2, <2>7
  <2>9. \A i \in 1 .. n - 1 : Contents(q)[i] = Contents(r)[i + 1]
    <3> TAKE i \in 1 .. n - 1
    <3>1. /\ i \in Cells /\ i # 0 /\ i - 1 \in Int /\ (i - 1) + 1 = i
          /\ i + 1 \in 1 .. n /\ (i + 1) - 1 = i
      BY <1>1, Sizes DEF Cells
    <3>2. Contents(q)[i] = q.buffer[Cell(q, i - 1)]
      BY <2>6
    <3>3. Cell(q, i - 1) = Cell(r, i)
      BY <2>3, <3>1
    <3>4. q.buffer[Cell(r, i)] = r.buffer[Cell(r, i)]
      BY <2>4, <3>1
    <3>5. Contents(r)[i + 1] = r.buffer[Cell(r, i)]
      BY <1>2, <3>1
    <3> QED  BY <3>2, <3>3, <3>4, <3>5
  <2> DEFINE x == Contents(q)
             y == Tail(Contents(r))
  <2> HIDE DEF x, y
  <2>10. /\ x \in Seq(Typed) /\ y \in Seq(Typed) /\ Len(x) = Len(y)
         /\ \A i \in 1 .. Len(x) : x[i] = y[i]
    BY <2>6, <2>8, <2>9 DEF x, y
  <2>11. x = y
    BY <2>10, SeqEqual
  <2>12. Popped(r) = Head(Contents(r))
    <3>1. 1 \in 1 .. n /\ 1 - 1 = 0
      BY <1>1, <1>5
    <3> QED  BY <1>2, <1>3, <2>7, <3>1
  <2> QED  BY <2>5, <2>7, <2>11, <2>12 DEF q, x, y
<1> QED  BY <1>4, <1>5

LEMMA EmptyRingHolds ==
  EmptyRing \in RingType /\ HoldsUnread(EmptyRing) /\ Contents(EmptyRing) = <<>>
<1> DEFINE r == EmptyRing
<1>1. r \in RingType /\ r.head = 0 /\ r.tail = 0 /\ r.buffer = [i \in Cells |-> 0]
  BY Sizes DEF EmptyRing, RingType
<1>2. Unread(r) = 0
  <2>1. 0 \in 0 .. IntRange - 1 /\ 0 - 0 = 0
    BY Sizes
  <2>2. 0 % IntRange = 0
    BY <2>1, Sizes, SmallRemainder
  <2> QED  BY <1>1, <2>1, <2>2 DEF Unread
<1> HIDE DEF r
<1>3. HoldsUnread(r)
  <2>1. \A i \in Cells : Cell(r, i) \in Cells /\ i >= 0
    BY <1>1, CellFacts DEF Cells
  <2> QED  BY <1>1, <1>2, <2>1, Sizes DEF HoldsUnread
<1>4. Contents(r) = <<>>
  BY <1>1, <1>2, <1>3, ContentsFacts
<1> QED  BY <1>1, <1>3, <1>4 DEF r

-----------------------------------------------------------------------------
(* The inductive invariant.  RingIsQueue speaks of the loaded processes; the *)
(* rings of free slots are whole too, which the steps need not tell apart.   *)

RingsAreWhole == \A s \in Slots \ overrun : HoldsUnread(keyboard[s])

KbInv ==
  /\ KInv
  /\ keyboard \in [Slots -> RingType] /\ overrun \in SUBSET Slots
  /\ answer \in Typed \cup {0}
  /\ RingsAreWhole

\* What KeyQueues sees of the state.
Queues == [s \in Slots |-> IF s \in overrun THEN <<>> ELSE Contents(keyboard[s])]
Reader == IF phase = "user" THEN process[list.current] ELSE None

\* The processes that have the keyboard and the CPU are in the table.
LEMMA ActorsAreSlots ==
  KInv => /\ current_process \in Slots \cup {None}
          /\ Reader \in Slots \cup {None}
          /\ phase = "user" => process[list.current] \in Slots
<1> SUFFICES ASSUME KInv
             PROVE  /\ current_process \in Slots \cup {None}
                    /\ phase = "user" => process[list.current] \in Slots
  BY DEF Reader
<1>1. TableFacts
  BY Facts
<1>2. phase = "user" => list.current \in live
  BY DEF KInv, IInv, RunsATask
<1>3. Used(processes) \subseteq Slots
  BY DEF Used
<1> QED  BY <1>1, <1>2, <1>3 DEF TableFacts

LEMMA QueuesAfter ==
  ASSUME keyboard \in [Slots -> RingType], NEW p \in Slots, NEW r,
         keyboard' = [keyboard EXCEPT ![p] = r], overrun' \ {p} = overrun \ {p}
  PROVE  Queues' = [Queues EXCEPT ![p] = IF p \in overrun' THEN <<>> ELSE Contents(r)]
<1>1. \A s \in Slots \ {p} : keyboard'[s] = keyboard[s] /\ (s \in overrun' <=> s \in overrun)
  OBVIOUS
<1>2. keyboard'[p] = r
  OBVIOUS
<1> QED  BY <1>1, <1>2 DEF Queues

\* keyboard_push from the interrupt.
LEMMA DeliverStep ==
  ASSUME KbInv, NEW c \in Typed \cup {0}, Deliver(c), UNCHANGED <<kernelVars, answer>>
  PROVE  KbInv' /\ [KQ!Next]_(KQ!vars)
<1>1. KInv' /\ Reader' = Reader /\ current_process' = current_process /\ answer' = answer
  BY KernelStep DEF KbInv, kernelVars, vars, table, Reader
<1>2. CASE UNCHANGED <<keyboard, overrun>>
  BY <1>1, <1>2 DEF KbInv, RingsAreWhole, KQ!vars, KQ!actors, Reader
<1>3. CASE ~ UNCHANGED <<keyboard, overrun>>
  <2> DEFINE p == current_process
             r == keyboard[p]
  <2>1. /\ c \in Typed /\ p # None
        /\ keyboard' = [keyboard EXCEPT ![p] = Push(r, c)]
        /\ overrun' = IF Unread(r) = BufferSize THEN overrun \cup {p} ELSE overrun
    BY <1>3 DEF Deliver
  <2>2. p \in Slots /\ r \in RingType /\ Push(r, c) \in RingType
    BY <2>1, ActorsAreSlots, PushType DEF KbInv
  <2> HIDE DEF p, r
  <2>3. keyboard' \in [Slots -> RingType] /\ overrun' \in SUBSET Slots
    BY <2>1, <2>2 DEF KbInv
  <2>4. Queues' = [Queues EXCEPT ![p] = IF p \in overrun' THEN <<>> ELSE Contents(Push(r, c))]
    BY <2>1, <2>2, QueuesAfter DEF KbInv
  <2>5. p \notin overrun /\ Unread(r) # BufferSize =>
          /\ HoldsUnread(r) /\ HoldsUnread(Push(r, c))
          /\ Contents(Push(r, c)) = Append(Contents(r), c)
          /\ Len(Contents(r)) = Unread(r) /\ Unread(r) < BufferSize
    <3> SUFFICES ASSUME p \notin overrun, Unread(r) # BufferSize
                 PROVE  /\ HoldsUnread(r) /\ HoldsUnread(Push(r, c))
                        /\ Contents(Push(r, c)) = Append(Contents(r), c)
                        /\ Len(Contents(r)) = Unread(r) /\ Unread(r) < BufferSize
      OBVIOUS
    <3>1. HoldsUnread(r)
      BY <2>2 DEF KbInv, RingsAreWhole, r
    <3>2. Unread(r) < BufferSize
      BY <3>1, Sizes DEF HoldsUnread
    <3> QED  BY <2>1, <2>2, <3>1, <3>2, PushRing, ContentsFacts
  <2>6. RingsAreWhole'
    <3> SUFFICES ASSUME NEW s \in Slots \ overrun' PROVE HoldsUnread(keyboard'[s])
      BY DEF RingsAreWhole, HoldsUnread, Unread, Cell
    <3>1. CASE s = p
      BY <2>1, <2>2, <2>5, <3>1 DEF KbInv
    <3>2. CASE s # p
      BY <2>1, <3>2 DEF KbInv, RingsAreWhole
    <3> QED  BY <3>1, <3>2
  <2>7. Queues[p] = IF p \in overrun THEN <<>> ELSE Contents(r)
    BY <2>2 DEF Queues, r
  <2>8. [KQ!Next]_(KQ!vars)
    <3>1. CASE p \in overrun
      <4>1. overrun' = overrun /\ Queues' = Queues
        BY <2>1, <2>2, <2>4, <2>7, <3>1 DEF Queues
      <4> QED
        BY <1>1, <4>1 DEF KQ!vars, KQ!actors, Queues, Reader
    <3>2. CASE p \notin overrun
      <4>1. CASE Unread(r) = BufferSize
        <5>1. HoldsUnread(r)
          BY <2>2, <3>2 DEF KbInv, RingsAreWhole, r
        <5>2. Len(Queues[p]) = BufferSize
          BY <2>2, <2>7, <3>2, <4>1, <5>1, ContentsFacts
        <5>3. overrun' = overrun \cup {p} /\ Queues' = [Queues EXCEPT ![p] = <<>>]
          BY <2>1, <2>4, <4>1
        <5>4. KQ!Type(p, c)
          BY <1>1, <3>2, <5>2, <5>3 DEF KQ!Type, KQ!actors, Queues, Reader
        <5> QED  BY <2>1, <5>4 DEF KQ!Next, p
      <4>2. CASE Unread(r) # BufferSize
        <5>1. /\ Len(Queues[p]) < BufferSize /\ overrun' = overrun
              /\ Queues' = [Queues EXCEPT ![p] = Append(Queues[p], c)]
          BY <2>1, <2>4, <2>5, <2>7, <3>2, <4>2
        <5>2. KQ!Type(p, c)
          BY <1>1, <3>2, <5>1 DEF KQ!Type, KQ!actors, Queues, Reader
        <5> QED  BY <2>1, <5>2 DEF KQ!Next, p
      <4> QED  BY <4>1, <4>2
    <3> QED  BY <3>1, <3>2
  <2> QED  BY <1>1, <2>3, <2>6, <2>8 DEF KbInv
<1> QED  BY <1>2, <1>3

\* keyboard_pop from command 2.
LEMMA GetkeyStep ==
  ASSUME KbInv, Getkey
  PROVE  KbInv' /\ [KQ!Next]_(KQ!vars)
<1> DEFINE p == process[list.current]
           r == keyboard[p]
<1>1. /\ phase = "user" /\ answer' = Popped(r)
      /\ keyboard' = [keyboard EXCEPT ![p] = Pop(r)]
      /\ overrun' = overrun /\ UNCHANGED kernelVars
  BY DEF Getkey
<1>2. KInv' /\ Reader' = Reader /\ current_process' = current_process
  BY <1>1, KernelStep DEF KbInv, kernelVars, vars, table, Reader
<1>3. p \in Slots /\ p = Reader /\ p # None
  BY <1>1, ActorsAreSlots, NoneIsNoSlot DEF KbInv, Reader
<1>4. r \in RingType /\ Pop(r) \in RingType /\ Popped(r) \in Typed \cup {0}
  BY <1>3, PopType DEF KbInv
<1>5. p \notin overrun => HoldsUnread(r) /\ HoldsUnread(Pop(r))
  BY <1>3, <1>4, PopRing DEF KbInv, RingsAreWhole
<1> HIDE DEF p, r
<1>6. RingsAreWhole'
  <2> SUFFICES ASSUME NEW s \in Slots \ overrun' PROVE HoldsUnread(keyboard'[s])
    BY DEF RingsAreWhole, HoldsUnread, Unread, Cell
  <2>1. CASE s = p
    BY <1>1, <1>3, <1>5, <2>1 DEF KbInv
  <2>2. CASE s # p
    BY <1>1, <2>2 DEF KbInv, RingsAreWhole
  <2> QED  BY <2>1, <2>2
<1>7. Queues[p] = IF p \in overrun THEN <<>> ELSE Contents(r)
  BY <1>3 DEF Queues, r
<1>8. Queues' = [Queues EXCEPT ![p] = IF p \in overrun THEN <<>> ELSE Contents(Pop(r))]
  BY <1>1, <1>3, QueuesAfter DEF KbInv
<1>9. KQ!Read(p)
  <2>1. UNCHANGED <<overrun, current_process, Reader>>
    BY <1>1, <1>2
  <2>2. CASE p \in overrun
    <3>1. Queues' = Queues
      BY <1>3, <1>7, <1>8, <2>2 DEF Queues
    <3> QED  BY <1>1, <1>4, <2>1, <2>2, <3>1 DEF KQ!Read, KQ!actors, Queues, Reader
  <2>3. CASE p \notin overrun /\ Contents(r) = <<>>
    <3>1. answer' = 0 /\ Queues[p] = <<>> /\ Contents(Pop(r)) = Contents(r)
      BY <1>1, <1>4, <1>5, <1>7, <2>3, PopRing
    <3>2. Queues' = Queues
      BY <1>3, <1>7, <1>8, <2>3, <3>1 DEF Queues
    <3> QED  BY <2>1, <2>3, <3>1, <3>2 DEF KQ!Read, KQ!actors, Queues, Reader
  <2>4. CASE p \notin overrun /\ Contents(r) # <<>>
    <3>1. /\ Queues[p] # <<>> /\ answer' = Head(Queues[p])
          /\ Queues' = [Queues EXCEPT ![p] = Tail(Queues[p])]
      BY <1>1, <1>4, <1>5, <1>7, <1>8, <2>4, PopRing
    <3> QED  BY <2>1, <2>4, <3>1 DEF KQ!Read, KQ!actors, Queues, Reader
  <2> QED  BY <2>2, <2>3, <2>4
<1>10. KQ!Next
  <2>1. Reader # None /\ KQ!Read(Reader)
    BY <1>3, <1>9 DEF KQ!Read
  <2> QED  BY <2>1, Zenon DEF KQ!Next, Reader
<1>11. keyboard' \in [Slots -> RingType] /\ overrun' \in SUBSET Slots /\ answer' \in Typed \cup {0}
  BY <1>1, <1>3, <1>4 DEF KbInv
<1> QED  BY <1>2, <1>6, <1>10, <1>11 DEF KbInv

\* A program is loaded: its buffer is cleared.
LEMMA LoadStep ==
  ASSUME KbInv, NEW t \in Task,
         LoadAtBoot(t) \/ StartCommand(t) \/ StartWithoutArguments(t), ClearedBuffer
  PROVE  KbInv' /\ [KQ!Next]_(KQ!vars)
<1> DEFINE f == FreeSlot
<1>1. KInv'
  BY LoadAtBootStep, StartStep DEF KbInv
<1>2. f \in Slots
  <2>1. Free(processes) # {}
    BY DEF LoadAtBoot, StartCommand, StartWithoutArguments, Enter
  <2>2. Free(processes) \in SUBSET Nat
    BY SlotsAreNatural DEF Free
  <2> QED  BY <2>1, <2>2, MinValue DEF FreeSlot, Free
<1> HIDE DEF f
<1>3. /\ keyboard' = [keyboard EXCEPT ![f] = EmptyRing]
      /\ overrun' = overrun \ {f} /\ answer' = answer
  BY DEF ClearedBuffer, f
<1>4. keyboard' \in [Slots -> RingType] /\ overrun' \in SUBSET Slots
  BY <1>2, <1>3, EmptyRingHolds DEF KbInv
<1>5. RingsAreWhole'
  <2> SUFFICES ASSUME NEW s \in Slots \ overrun' PROVE HoldsUnread(keyboard'[s])
    BY DEF RingsAreWhole, HoldsUnread, Unread, Cell
  <2>1. CASE s = f
    BY <1>2, <1>3, <2>1, EmptyRingHolds DEF KbInv
  <2>2. CASE s # f
    BY <1>3, <2>2 DEF KbInv, RingsAreWhole
  <2> QED  BY <2>1, <2>2
<1>6. Queues' = [Queues EXCEPT ![f] = <<>>]
  BY <1>2, <1>3, QueuesAfter, EmptyRingHolds DEF KbInv
<1>7. KQ!Begin(f)
  BY <1>3, <1>6 DEF KQ!Begin, Queues
<1>8. KQ!Move
  <2>1. (current_process \in Slots \cup {None} /\ Reader \in Slots \cup {None})'
    BY <1>1, ActorsAreSlots, PTL
  <2> QED  BY <1>3, <2>1 DEF KQ!Move, Reader
<1>9. KQ!Next
  BY <1>2, <1>7, <1>8 DEF KQ!Next, KQ!Begin
<1> QED  BY <1>1, <1>3, <1>4, <1>5, <1>9 DEF KbInv

LEMMA CasedIsTyped ==
  ASSUME NEW c \in {ScanSet[i] : i \in DOMAIN ScanSet} \cup BeyondTable,
         NEW caps \in BOOLEAN
  PROVE  Cased(c, caps) \in Typed \cup {0}
<1> DEFINE B == {ScanSet[i] : i \in DOMAIN ScanSet} \cup BeyondTable
           x == Cased(c, caps)
<1>1. Typed = {Cased(b, k) : b \in B, k \in BOOLEAN} \ {0}
  BY DEF Typed
<1>2. x = Cased(c, caps) /\ c \in B
  OBVIOUS
<1> HIDE DEF B, x
<1>3. x \in {Cased(b, k) : b \in B, k \in BOOLEAN}
  BY <1>2
<1> QED  BY <1>1, <1>3 DEF x

LEMMA CharactersAreTyped ==
  ASSUME NEW code \in 0 .. ScanSize + 1, NEW caps \in BOOLEAN
  PROVE  Characters(code, caps) \subseteq Typed \cup {0}
<1>1. code \in Int /\ ScanSize \in Int
  BY ScanAssumption
<1>2. CASE code > ScanSize
  BY <1>2 DEF Characters
<1>3. CASE code = ScanSize
  <2>1. Characters(code, caps) = {Cased(c, caps) : c \in BeyondTable}
    BY <1>1, <1>3 DEF Characters
  <2>2. \A c \in BeyondTable : Cased(c, caps) \in Typed \cup {0}
    BY CasedIsTyped
  <2> QED  BY <2>1, <2>2
<1>4. CASE code < ScanSize
  <2>1. Characters(code, caps) = {Cased(ScanSet[code], caps)}
    BY <1>1, <1>4 DEF Characters
  <2>2. code \in DOMAIN ScanSet
    BY <1>1, <1>4, ScanAssumption
  <2>3. ScanSet[code] \in {ScanSet[i] : i \in DOMAIN ScanSet} \cup BeyondTable
    BY <2>2
  <2>4. Cased(ScanSet[code], caps) \in Typed \cup {0}
    BY <2>3, CasedIsTyped
  <2> QED  BY <2>1, <2>4
<1> QED  BY <1>1, <1>2, <1>3, <1>4

\* A step of the kernel that touches no buffer.
LEMMA KernelOnlyStep ==
  ASSUME KbInv, KernelNext, UNCHANGED keys
  PROVE  KbInv' /\ [KQ!Next]_(KQ!vars)
<1>1. KInv' /\ keyboard' = keyboard /\ overrun' = overrun /\ answer' = answer
  BY KernelStep DEF KbInv, keys
<1>2. RingsAreWhole'
  BY <1>1 DEF KbInv, RingsAreWhole, HoldsUnread, Unread, Cell
<1>3. (current_process \in Slots \cup {None} /\ Reader \in Slots \cup {None})'
  BY <1>1, ActorsAreSlots, PTL
<1>4. Queues' = Queues
  BY <1>1 DEF Queues
<1>5. KQ!Move
  BY <1>1, <1>3 DEF KQ!Move, Reader
<1>6. KQ!Next
  BY <1>1, <1>4, <1>5 DEF KQ!Next, Queues
<1> QED  BY <1>1, <1>2, <1>6 DEF KbInv

LEMMA KeyboardStep ==
  KbInv /\ [KeyboardNext]_keyboardVars =>
    /\ KbInv'
    /\ [KernelNext]_kernelVars
    /\ [KQ!Next]_(KQ!vars)
<1> SUFFICES ASSUME KbInv, [KeyboardNext]_keyboardVars
             PROVE  /\ KbInv'
                    /\ [KernelNext]_kernelVars
                    /\ [KQ!Next]_(KQ!vars)
  OBVIOUS
<1>1. CASE Getkey
  <2>1. UNCHANGED kernelVars
    BY <1>1 DEF Getkey
  <2> QED  BY <1>1, <2>1, GetkeyStep
<1>2. ASSUME NEW code \in 0 .. ScanSize + 1, KeyPress(code)
      PROVE  /\ KbInv'
             /\ [KernelNext]_kernelVars
             /\ [KQ!Next]_(KQ!vars)
  <2>1. /\ UNCHANGED <<kernelVars, answer>>
        /\ capslock' \in BOOLEAN
        /\ \E c \in Characters(code, capslock') : Deliver(c)
    BY <1>2 DEF KeyPress
  <2>2. PICK c \in Typed \cup {0} : Deliver(c)
    BY <2>1, CharactersAreTyped
  <2> QED  BY <2>1, <2>2, DeliverStep
<1>3. CASE (BootFails \/ Run \/ ExitCommand) /\ UNCHANGED keys
  <2>1. KernelNext
    BY <1>3 DEF KernelNext
  <2> QED  BY <1>3, <2>1, KernelOnlyStep
<1>4. ASSUME NEW t \in Task, StartUnmapped(t), UNCHANGED keys
      PROVE  /\ KbInv'
             /\ [KernelNext]_kernelVars
             /\ [KQ!Next]_(KQ!vars)
  <2>1. KernelNext
    BY <1>4 DEF KernelNext
  <2> QED  BY <1>4, <2>1, KernelOnlyStep
<1>5. ASSUME NEW t \in Task, ClearedBuffer,
             LoadAtBoot(t) \/ StartCommand(t) \/ StartWithoutArguments(t)
      PROVE  /\ KbInv'
             /\ [KernelNext]_kernelVars
             /\ [KQ!Next]_(KQ!vars)
  <2>1. KernelNext
    BY <1>5 DEF KernelNext
  <2> QED  BY <1>5, <2>1, LoadStep
<1>6. CASE UNCHANGED keyboardVars
  <2>1. UNCHANGED <<kernelVars, keyboard, overrun, answer>>
    BY <1>6 DEF keyboardVars, keys
  <2>2. Deliver(0)
    BY <2>1 DEF Deliver
  <2> QED  BY <2>1, <2>2, DeliverStep
<1> QED  BY <1>1, <1>2, <1>3, <1>4, <1>5, <1>6 DEF KeyboardNext

LEMMA KeyboardInitKbInv == KeyboardInit => KbInv /\ KQ!Init
<1> SUFFICES ASSUME KeyboardInit PROVE KbInv /\ KQ!Init
  OBVIOUS
<1>1. /\ KInv /\ current_process = None /\ phase = "boot"
      /\ keyboard = [s \in Slots |-> EmptyRing] /\ answer = 0 /\ overrun = {}
  BY KernelInitKInv DEF KeyboardInit, KernelInit, Init
<1>2. KbInv
  BY <1>1, EmptyRingHolds DEF KbInv, RingsAreWhole
<1>3. Queues = [s \in Slots |-> <<>>]
  BY <1>1, EmptyRingHolds DEF Queues
<1> QED  BY <1>1, <1>2, <1>3 DEF KQ!Init, Queues

LEMMA KeyboardInvariant == KeyboardSpec => []KbInv
BY KeyboardInitKbInv, KeyboardStep, PTL DEF KeyboardSpec

\* Until it is overrun, the ring of every loaded process holds exactly its
\* unread keys, for every buffer size and every range of the counters of which
\* it is a divisor (RingIsQueue).
THEOREM RingsCorrect == KeyboardSpec => []RingIsQueue
<1>1. KbInv => RingIsQueue
  BY DEF KbInv, RingsAreWhole, RingIsQueue, HoldsUnread, Cell, Used
<1> QED  BY KeyboardInvariant, <1>1, PTL

\* With the keyboard connected, the kernel is still the kernel: what is proved
\* of the process table and the scheduler holds of it.
THEOREM KeyboardIsKernel == KeyboardSpec => KernelSpec
<1>1. KeyboardInit => KernelInit
  BY DEF KeyboardInit
<1> QED  BY <1>1, KeyboardInitKbInv, KeyboardStep, PTL DEF KeyboardSpec, KernelSpec

\* keyboard_push, keyboard_pop and the clearing at load implement one queue of
\* keys for each process, wherever focus and CPU go (KeyQueuesSpec).
THEOREM QueuesImplemented == KeyboardSpec => KeyQueuesSpec
BY KeyboardInitKbInv, KeyboardStep, PTL DEF KeyboardSpec, KeyQueuesSpec, KQ!Spec
=============================================================================
