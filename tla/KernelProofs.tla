---------------------------- MODULE KernelProofs ----------------------------
(***************************************************************************)
(* Proofs about Scheduler and about Kernel, which extends it: the list is  *)
(* the queue of the live tasks and implements the round robin, for every   *)
(* set of addresses and every bound on the number of processes; and for    *)
(* every number of slots the process table, the tasks and the keyboard     *)
(* focus agree, and the table makes the decisions that the scheduler       *)
(* assumes.                                                                *)
(***************************************************************************)
EXTENDS Kernel, FiniteSetTheorems, SequenceTheorems, TLAPS

(* Queues. *)

\* What RemoveAt returns, position by position.
LEMMA RemoveAtValue ==
  ASSUME NEW S, NEW q \in Seq(S), NEW i \in 1 .. Len(q)
  PROVE  /\ RemoveAt(q, i) \in Seq(S)
         /\ Len(RemoveAt(q, i)) = Len(q) - 1
         /\ \A j \in 1 .. Len(q) - 1 :
              RemoveAt(q, i)[j] = IF j < i THEN q[j] ELSE q[j + 1]
<1> DEFINE a == SubSeq(q, 1, i - 1)
           b == SubSeq(q, i + 1, Len(q))
<1>1. /\ a \in Seq(S) /\ Len(a) = i - 1
      /\ \A j \in 1 .. i - 1 : a[j] = q[j]
  OBVIOUS
<1>2. /\ b \in Seq(S) /\ Len(b) = Len(q) - i
      /\ \A j \in 1 .. Len(q) - i : b[j] = q[j + i]
  OBVIOUS
<1>3. RemoveAt(q, i) = a \o b
  BY DEF RemoveAt
<1> HIDE DEF a, b
<1>4. /\ a \o b \in Seq(S) /\ Len(a \o b) = Len(q) - 1
      /\ \A j \in 1 .. Len(q) - 1 :
           (a \o b)[j] = IF j < i THEN a[j] ELSE b[j - i + 1]
  <2>1. /\ a \o b \in Seq(S)
        /\ Len(a \o b) = Len(a) + Len(b)
        /\ \A j \in 1 .. Len(a) + Len(b) :
             (a \o b)[j] = IF j <= Len(a) THEN a[j] ELSE b[j - Len(a)]
    BY <1>1, <1>2, ConcatProperties
  <2>2. Len(a) + Len(b) = Len(q) - 1
    BY <1>1, <1>2
  <2>3. \A j \in 1 .. Len(q) - 1 :
          (j <= Len(a) <=> j < i) /\ j - Len(a) = j - i + 1
    BY <1>1
  <2> QED  BY <2>1, <2>2, <2>3
<1>5. \A j \in 1 .. Len(q) - 1 : j >= i => b[j - i + 1] = q[j + 1]
  BY <1>2
<1> QED  BY <1>1, <1>3, <1>4, <1>5

\* A queued task has exactly one position.
LEMMA PositionValue ==
  ASSUME NEW q \in Seq(Task), NEW t \in ToSet(q)
  PROVE  Position(q, t) \in 1 .. Len(q) /\ q[Position(q, t)] = t
<1>1. PICK i \in DOMAIN q : q[i] = t
  BY DEF ToSet
<1> QED  BY <1>1 DEF Position

\* Without takes out one task and keeps the order of the others.
LEMMA WithoutValue ==
  ASSUME NEW q \in Seq(Task), Distinct(q), NEW t \in ToSet(q)
  PROVE  /\ Without(q, t) \in Seq(Task)
         /\ Len(Without(q, t)) = Len(q) - 1
         /\ \A j \in 1 .. Len(q) - 1 :
              Without(q, t)[j] = IF j < Position(q, t) THEN q[j] ELSE q[j + 1]
         /\ Distinct(Without(q, t))
         /\ ToSet(Without(q, t)) = ToSet(q) \ {t}
<1> DEFINE i == Position(q, t)
           w == Without(q, t)
<1>1. i \in 1 .. Len(q) /\ q[i] = t
  BY PositionValue
<1>2. /\ w \in Seq(Task) /\ Len(w) = Len(q) - 1
      /\ \A j \in 1 .. Len(q) - 1 : w[j] = IF j < i THEN q[j] ELSE q[j + 1]
  BY <1>1, RemoveAtValue DEF Without
<1> HIDE DEF i, w
<1>3. Distinct(w)
  <2> SUFFICES ASSUME NEW j \in 1 .. Len(w), NEW k \in 1 .. Len(w), w[j] = w[k]
               PROVE  j = k
    BY <1>2 DEF Distinct
  <2> DEFINE old(n) == IF n < i THEN n ELSE n + 1
  <2>1. q[old(j)] = q[old(k)] /\ old(j) \in DOMAIN q /\ old(k) \in DOMAIN q
    BY <1>1, <1>2
  <2>2. old(j) = old(k)
    BY <2>1 DEF Distinct
  <2> QED  BY <1>1, <1>2, <2>2
<1>4. \A j \in 1 .. Len(w) : w[j] \in ToSet(q) \ {t}
  BY <1>1, <1>2 DEF Distinct, ToSet
<1>5. \A k \in 1 .. Len(q) : k # i => q[k] \in ToSet(w)
  <2> TAKE k \in 1 .. Len(q)
  <2> HAVE k # i
  <2> DEFINE j == IF k < i THEN k ELSE k - 1
  <2>1. j \in 1 .. Len(w) /\ w[j] = q[k]
    BY <1>1, <1>2
  <2> QED  BY <2>1, <1>2 DEF ToSet
<1>6. ToSet(w) = ToSet(q) \ {t}
  BY <1>1, <1>2, <1>4, <1>5 DEF ToSet
<1> QED  BY <1>2, <1>3, <1>6 DEF i, w

\* Taking out the task that was appended last gives the queue back.
LEMMA WithoutLast ==
  ASSUME NEW q \in Seq(Task), Distinct(q), NEW t \in Task, t \notin ToSet(q)
  PROVE  /\ Without(Append(q, t), t) = q
         /\ Position(Append(q, t), t) = Len(q) + 1
<1> DEFINE p == Append(q, t)
<1>1. /\ p \in Seq(Task) /\ Len(p) = Len(q) + 1
      /\ p[Len(q) + 1] = t /\ \A j \in 1 .. Len(q) : p[j] = q[j]
  OBVIOUS
<1> HIDE DEF p
<1>2. t \in ToSet(p) /\ \A j \in 1 .. Len(q) : p[j] # t
  BY <1>1 DEF ToSet
<1>3. Position(p, t) = Len(q) + 1
  BY <1>1, <1>2, PositionValue
<1>4. /\ RemoveAt(p, Len(q) + 1) \in Seq(Task)
      /\ Len(RemoveAt(p, Len(q) + 1)) = Len(q)
      /\ \A j \in 1 .. Len(q) : RemoveAt(p, Len(q) + 1)[j] = q[j]
  <2>1. Len(q) + 1 \in 1 .. Len(p) /\ Len(p) - 1 = Len(q)
    BY <1>1
  <2>2. /\ RemoveAt(p, Len(q) + 1) \in Seq(Task)
        /\ Len(RemoveAt(p, Len(q) + 1)) = Len(p) - 1
        /\ \A j \in 1 .. Len(p) - 1 :
             RemoveAt(p, Len(q) + 1)[j] = IF j < Len(q) + 1 THEN p[j] ELSE p[j + 1]
    BY <1>1, <2>1, RemoveAtValue
  <2>3. \A j \in 1 .. Len(q) : j < Len(q) + 1
    OBVIOUS
  <2> QED  BY <1>1, <2>1, <2>2, <2>3
<1>5. RemoveAt(p, Len(q) + 1) = q
  BY <1>4, SeqEqual
<1> QED  BY <1>3, <1>5 DEF Without, p

\* Append adds one task behind the others.
LEMMA AppendValue ==
  ASSUME NEW q \in Seq(Task), Distinct(q), NEW t \in Task, t \notin ToSet(q)
  PROVE  /\ Append(q, t) \in Seq(Task)
         /\ Distinct(Append(q, t))
         /\ ToSet(Append(q, t)) = ToSet(q) \cup {t}
<1> DEFINE p == Append(q, t)
<1>1. /\ p \in Seq(Task) /\ Len(p) = Len(q) + 1
      /\ p[Len(q) + 1] = t /\ \A j \in 1 .. Len(q) : p[j] = q[j]
  OBVIOUS
<1> HIDE DEF p
<1>2. Distinct(p)
  BY <1>1 DEF Distinct, ToSet
<1>3. ToSet(p) = ToSet(q) \cup {t}
  <2>1. \A j \in 1 .. Len(p) : p[j] \in ToSet(q) \cup {t}
    BY <1>1 DEF ToSet
  <2>2. \A j \in 1 .. Len(q) : q[j] \in ToSet(p)
    BY <1>1 DEF ToSet
  <2>3. t \in ToSet(p)
    BY <1>1 DEF ToSet
  <2> QED  BY <2>1, <2>2, <2>3, <1>1 DEF ToSet
<1> QED  BY <1>1, <1>2, <1>3 DEF p

\* Behind is the next task of the queue, if there is one.
LEMMA BehindValue ==
  ASSUME NEW q \in Seq(Task), Distinct(q), NEW t \in ToSet(q)
  PROVE  Behind(q, t) = IF Position(q, t) = Len(q) THEN {}
                        ELSE {q[Position(q, t) + 1]}
<1> DEFINE i == Position(q, t)
<1>1. i \in 1 .. Len(q) /\ q[i] = t
  BY PositionValue
<1> HIDE DEF i
<1>2. \A j \in 1 .. Len(q) : (j # 1 /\ q[j - 1] = t) <=> j = i + 1
  BY <1>1 DEF Distinct
<1> DEFINE after == {j \in DOMAIN q : j # 1 /\ q[j - 1] = t}
<1>3. after = IF i = Len(q) THEN {} ELSE {i + 1}
  BY <1>1, <1>2
<1>4. Behind(q, t) = {q[j] : j \in after}
  BY DEF Behind
<1> HIDE DEF after
<1>5. CASE i = Len(q)
  BY <1>3, <1>4, <1>5 DEF i
<1>6. CASE i # Len(q)
  BY <1>3, <1>4, <1>6 DEF i
<1> QED  BY <1>5, <1>6

-----------------------------------------------------------------------------
(* The list operations of task.c. *)

\* The list operations never store anything but pointers.
LEMMA NewTyped ==
  ASSUME NEW l \in TaskLists, NEW t \in Task
  PROVE  /\ TaskNew(l, t) \in TaskLists
         /\ TaskSwitch(TaskNew(l, t), t) \in TaskLists
<1> DEFINE z == Cleared(l, t)
<1>1. z \in TaskLists
  BY DEF Cleared, TaskLists, Pointer
<1> HIDE DEF z
<1>2. TaskNew(l, t) \in TaskLists
  <2>1. TaskNew(l, t) =
          IF z.head = NULL
            THEN [z EXCEPT !.head = t, !.tail = t, !.current = t]
            ELSE [z EXCEPT !.next[z.tail] = t, !.prev[t] = z.tail, !.tail = t]
    BY DEF TaskNew, z
  <2>2. CASE z.head = NULL
    BY <1>1, <2>1, <2>2 DEF TaskLists, Pointer
  <2>3. CASE z.head # NULL
    <3> DEFINE nx == [z.next EXCEPT ![z.tail] = t]
               pv == [z.prev EXCEPT ![t] = z.tail]
    <3>1. nx \in [Task -> Pointer] /\ pv \in [Task -> Pointer]
      BY <1>1 DEF TaskLists, Pointer
    <3>2. TaskNew(l, t) = [z EXCEPT !.next = nx, !.prev = pv, !.tail = t]
      BY <1>1, <2>1, <2>3 DEF TaskLists
    <3> HIDE DEF nx, pv
    <3> QED  BY <1>1, <3>1, <3>2 DEF TaskLists, Pointer
  <2> QED  BY <2>2, <2>3
<1> QED  BY <1>2 DEF TaskSwitch, TaskLists, Pointer

LEMMA NextTyped ==
  ASSUME NEW l \in TaskLists, l.current \in Task
  PROVE  TaskGetNext(l) \in Pointer /\ TaskNext(l) \in TaskLists
<1>1. TaskGetNext(l) \in Pointer
  BY DEF TaskGetNext, TaskLists
<1> QED  BY <1>1 DEF TaskNext, TaskSwitch, TaskLists

\* The fields of the list after task_list_remove: its four steps in one.
LEMMA RemoveFields ==
  ASSUME NEW l \in TaskLists, NEW t \in Task
  PROVE  LET r == TaskListRemove(l, t)
         IN  /\ r \in TaskLists
             /\ r.prev = l.prev
             /\ r.next = IF l.prev[t] = NULL THEN l.next
                         ELSE [l.next EXCEPT ![l.prev[t]] = l.next[t]]
             /\ r.head = IF t = l.head THEN l.next[t] ELSE l.head
             /\ r.tail = IF t = l.tail THEN l.prev[t] ELSE l.tail
             /\ r.current = IF t # l.current THEN l.current
                            ELSE IF l.next[t] = NULL THEN r.head ELSE l.next[t]
<1> DEFINE u == Unlinked(l, t)
           h == HeadFixed(u, t)
           x == TailFixed(h, t)
           r == CurrentFixed(x, t)
<1>1. /\ u \in TaskLists
      /\ u.head = l.head /\ u.tail = l.tail /\ u.current = l.current
      /\ u.prev = l.prev
      /\ u.next = IF l.prev[t] = NULL THEN l.next
                  ELSE [l.next EXCEPT ![l.prev[t]] = l.next[t]]
      /\ u.next[t] = l.next[t]
  BY DEF Unlinked, TaskLists, Pointer
<1> HIDE DEF u
<1>2. /\ h \in TaskLists
      /\ h.tail = u.tail /\ h.current = u.current
      /\ h.prev = u.prev /\ h.next = u.next
      /\ h.head = IF t = u.head THEN u.next[t] ELSE u.head
  BY <1>1 DEF HeadFixed, TaskLists
<1> HIDE DEF h
<1>3. /\ x \in TaskLists
      /\ x.head = h.head /\ x.current = h.current
      /\ x.prev = h.prev /\ x.next = h.next
      /\ x.tail = IF t = h.tail THEN h.prev[t] ELSE h.tail
  BY <1>2 DEF TailFixed, TaskLists
<1> HIDE DEF x
<1>4. /\ r \in TaskLists
      /\ r.head = x.head /\ r.tail = x.tail
      /\ r.prev = x.prev /\ r.next = x.next
      /\ r.current = IF t # x.current THEN x.current
                     ELSE IF x.next[t] = NULL THEN x.head ELSE x.next[t]
  BY <1>3 DEF CurrentFixed, TaskGetNext, TaskLists
<1> HIDE DEF r
<1>5. TaskListRemove(l, t) = r
  BY DEF TaskListRemove, r, x, h, u
<1> QED  BY <1>1, <1>2, <1>3, <1>4, <1>5

\* task_new appends to the represented queue, and makes the first task the
\* current one.
LEMMA NewRepresents ==
  ASSUME NEW l \in TaskLists, NEW q \in Seq(Task), Distinct(q), NEW o,
         NEW t \in Task, t \notin ToSet(q), Represents(l, q, o)
  PROVE  /\ Represents(TaskNew(l, t), Append(q, t), o)
         /\ TaskNew(l, t).current = IF q = <<>> THEN t ELSE l.current
<1> DEFINE n == TaskNew(l, t)
           p == Append(q, t)
<1>1. /\ p \in Seq(Task) /\ p # <<>> /\ Len(p) = Len(q) + 1
      /\ p[Len(q) + 1] = t /\ \A j \in 1 .. Len(q) : p[j] = q[j]
  OBVIOUS
<1>2. \A j \in 1 .. Len(q) : q[j] # t
  BY DEF ToSet
<1> HIDE DEF p
<1>3. CASE q = <<>>
  <2>1. /\ n.head = t /\ n.tail = t /\ n.current = t
        /\ n.next[t] = NULL /\ n.prev[t] = NULL
    BY <1>3 DEF Represents, EndsMatch, TaskNew, Cleared, TaskLists
  <2> QED  BY <1>1, <1>3, <2>1, NullIsNoTask
           DEF Represents, EndsMatch, NextMatches, PrevMatches, p
<1>4. CASE q # <<>>
  <2>1. /\ l.head = q[1] /\ l.tail = q[Len(q)]
        /\ Len(q) \in Nat \ {0} /\ q[1] \in Task /\ q[Len(q)] \in Task
    BY <1>4 DEF Represents, EndsMatch
  <2>2. /\ n.head = l.head /\ n.tail = t /\ n.current = l.current
        /\ n.next = [l.next EXCEPT ![t] = NULL, ![l.tail] = t]
        /\ n.prev = [l.prev EXCEPT ![t] = l.tail]
    BY <2>1, NullIsNoTask DEF TaskNew, Cleared, TaskLists
  <2>3. EndsMatch(n, p)
    BY <1>1, <2>1, <2>2 DEF EndsMatch
  <2>4. /\ n.next[t] = NULL /\ n.next[q[Len(q)]] = t
        /\ \A j \in 1 .. Len(q) : q[j] # q[Len(q)] => n.next[q[j]] = l.next[q[j]]
    BY <1>2, <2>1, <2>2 DEF TaskLists
  <2>5. NextMatches(n, p)
    <3> SUFFICES ASSUME NEW i \in 1 .. Len(q) + 1
                 PROVE  n.next[p[i]] = IF i = Len(p) THEN NULL ELSE p[i + 1]
      BY <1>1 DEF NextMatches
    <3>1. CASE i = Len(q) + 1
      BY <1>1, <2>4, <3>1
    <3>2. CASE i = Len(q)
      BY <1>1, <2>1, <2>4, <3>2
    <3>3. CASE i < Len(q)
      <4>1. q[i] # q[Len(q)]
        BY <2>1, <3>3 DEF Distinct
      <4>2. n.next[q[i]] = q[i + 1]
        BY <2>4, <3>3, <4>1 DEF Represents, NextMatches
      <4> QED  BY <1>1, <3>3, <4>2
    <3> QED  BY <3>1, <3>2, <3>3
  <2>6. PrevMatches(n, p, o)
    <3> SUFFICES ASSUME NEW i \in 1 .. Len(q) + 1, p[i] \notin o
                 PROVE  n.prev[p[i]] = IF i = 1 THEN NULL ELSE p[i - 1]
      BY <1>1 DEF PrevMatches
    <3>1. CASE i = Len(q) + 1
      BY <1>1, <2>1, <2>2, <3>1 DEF TaskLists
    <3>2. CASE i <= Len(q)
      <4>1. p[i] = q[i] /\ q[i] # t /\ q[i] \notin o /\ q[i] \in Task
        BY <1>1, <1>2, <3>2
      <4>2. n.prev[q[i]] = IF i = 1 THEN NULL ELSE q[i - 1]
        BY <2>2, <3>2, <4>1 DEF Represents, PrevMatches, TaskLists
      <4> QED  BY <1>1, <3>2, <4>1, <4>2
    <3> QED  BY <3>1, <3>2
  <2> QED  BY <1>4, <2>2, <2>3, <2>5, <2>6 DEF Represents, p
<1> QED  BY <1>3, <1>4

\* task_list_remove takes a task that is no orphan out of the represented
\* queue; the task behind it becomes an orphan.
LEMMA RemoveRepresents ==
  ASSUME NEW l \in TaskLists, NEW q \in Seq(Task), Distinct(q), NEW o,
         NEW t \in ToSet(q), t \notin o, Represents(l, q, o)
  PROVE  Represents(TaskListRemove(l, t), Without(q, t),
                    (o \cup Behind(q, t)) \ {t})
<1> DEFINE r == TaskListRemove(l, t)
           w == Without(q, t)
           i == Position(q, t)
           n == Len(q)
           o2 == (o \cup Behind(q, t)) \ {t}
<1>1. /\ i \in 1 .. n /\ q[i] = t /\ n \in Nat
      /\ \A j \in 1 .. n : q[j] \in Task
  BY PositionValue
<1>2. /\ w \in Seq(Task) /\ Len(w) = n - 1
      /\ \A j \in 1 .. n - 1 : w[j] = IF j < i THEN q[j] ELSE q[j + 1]
  BY WithoutValue
<1>3. Behind(q, t) = IF i = n THEN {} ELSE {q[i + 1]}
  BY BehindValue
<1>4. /\ l.head = q[1] /\ l.tail = q[n]
      /\ \A j \in 1 .. n : l.next[q[j]] = IF j = n THEN NULL ELSE q[j + 1]
      /\ \A j \in 1 .. n :
           q[j] \notin o => l.prev[q[j]] = IF j = 1 THEN NULL ELSE q[j - 1]
  BY <1>1 DEF Represents, EndsMatch, NextMatches, PrevMatches
<1>5. /\ r.prev = l.prev
      /\ r.next = IF l.prev[t] = NULL THEN l.next
                  ELSE [l.next EXCEPT ![l.prev[t]] = l.next[t]]
      /\ r.head = IF t = l.head THEN l.next[t] ELSE l.head
      /\ r.tail = IF t = l.tail THEN l.prev[t] ELSE l.tail
  BY <1>1, RemoveFields
<1>6. \A j, k \in 1 .. n : q[j] = q[k] => j = k
  BY DEF Distinct
<1> HIDE DEF r, w, i, n
<1>7. /\ l.prev[t] = IF i = 1 THEN NULL ELSE q[i - 1]
      /\ l.next[t] = IF i = n THEN NULL ELSE q[i + 1]
  BY <1>1, <1>4
<1>8. EndsMatch(r, w)
  <2>1. CASE n = 1
    BY <1>1, <1>2, <1>4, <1>5, <1>7, <2>1 DEF EndsMatch
  <2>2. CASE n # 1
    <3>1. w # <<>> /\ Len(w) \in 1 .. n - 1
      BY <1>1, <1>2, <2>2
    <3>2. r.head = w[1]
      BY <1>1, <1>2, <1>4, <1>5, <1>6, <1>7, <2>2
    <3>3. r.tail = w[n - 1]
      BY <1>1, <1>2, <1>4, <1>5, <1>6, <1>7, <2>2
    <3> QED  BY <1>2, <3>1, <3>2, <3>3 DEF EndsMatch
  <2> QED  BY <2>1, <2>2
<1>9. \A j \in 1 .. n : r.next[q[j]] = IF j = i - 1 THEN l.next[t] ELSE l.next[q[j]]
  BY <1>1, <1>5, <1>6, <1>7, NullIsNoTask DEF TaskLists
<1>10. NextMatches(r, w)
  <2> SUFFICES ASSUME NEW j \in 1 .. n - 1
               PROVE  r.next[w[j]] = IF j = n - 1 THEN NULL ELSE w[j + 1]
    BY <1>1, <1>2 DEF NextMatches
  <2>1. CASE j < i - 1
    <3>1. j \in 1 .. n /\ j # n /\ j # n - 1 /\ j + 1 \in 1 .. n - 1 /\ j + 1 < i
      BY <1>1, <2>1
    <3>2. w[j] = q[j] /\ w[j + 1] = q[j + 1]
      BY <1>1, <1>2, <2>1, <3>1
    <3> QED  BY <1>4, <1>9, <2>1, <3>1, <3>2
  <2>2. CASE j = i - 1
    BY <1>1, <1>2, <1>7, <1>9, <2>2
  <2>3. CASE j >= i
    <3>1. j + 1 \in 1 .. n /\ ~(j < i) /\ j + 1 # i - 1
      BY <1>1, <2>3
    <3>2. r.next[w[j]] = IF j + 1 = n THEN NULL ELSE q[j + 2]
      BY <1>2, <1>4, <1>9, <3>1
    <3>3. CASE j = n - 1
      BY <1>1, <3>2, <3>3
    <3>4. CASE j # n - 1
      <4>1. j + 1 \in 1 .. n - 1 /\ ~(j + 1 < i) /\ (j + 1) + 1 = j + 2
        BY <1>1, <2>3, <3>4
      <4>2. w[j + 1] = q[j + 2]
        BY <1>2, <4>1
      <4> QED  BY <1>1, <3>2, <3>4, <4>2
    <3> QED  BY <3>3, <3>4
  <2> QED  BY <1>1, <2>1, <2>2, <2>3
<1>11. PrevMatches(r, w, o2)
  <2> SUFFICES ASSUME NEW j \in 1 .. n - 1, w[j] \notin o2
               PROVE  r.prev[w[j]] = IF j = 1 THEN NULL ELSE w[j - 1]
    BY <1>1, <1>2 DEF PrevMatches
  <2>1. w[j] # t
    BY <1>1, <1>2, <1>6
  <2>2. w[j] \notin o
    BY <2>1
  <2>3. CASE j < i
    BY <1>1, <1>2, <1>4, <1>5, <2>2, <2>3
  <2>4. CASE j = i
    <3>1. w[j] = q[i + 1] /\ i # n
      BY <1>1, <1>2, <2>4
    <3> QED  BY <1>3, <2>1, <3>1
  <2>5. CASE j > i
    <3>1. /\ j + 1 \in 1 .. n /\ j # 1 /\ j - 1 \in 1 .. n - 1
          /\ ~(j < i) /\ ~(j - 1 < i) /\ (j - 1) + 1 = j
      BY <1>1, <2>5
    <3>2. w[j] = q[j + 1] /\ w[j - 1] = q[j]
      BY <1>2, <3>1
    <3>3. l.prev[q[j + 1]] = q[(j + 1) - 1]
      BY <1>4, <2>2, <3>1, <3>2
    <3> QED  BY <1>5, <3>1, <3>2, <3>3
  <2> QED  BY <1>1, <2>3, <2>4, <2>5
<1> QED  BY <1>8, <1>10, <1>11 DEF Represents, r, w

\* In a represented queue, task_get_next is the next turn.
LEMMA NextIsTurn ==
  ASSUME NEW l \in TaskLists, NEW q \in Seq(Task), NEW o,
         l.current \in ToSet(q), Represents(l, q, o)
  PROVE  /\ TaskGetNext(l) = TurnAfter(q, l.current)
         /\ TaskGetNext(l) \in ToSet(q)
<1> DEFINE i == Position(q, l.current)
<1>1. i \in 1 .. Len(q) /\ q[i] = l.current
  BY PositionValue
<1> HIDE DEF i
<1>2. TurnAfter(q, l.current) = IF i = Len(q) THEN q[1] ELSE q[i + 1]
  BY DEF TurnAfter, i
<1>3. /\ q[1] \in ToSet(q) /\ l.head = q[1]
      /\ l.next[l.current] = IF i = Len(q) THEN NULL ELSE q[i + 1]
      /\ i # Len(q) => q[i + 1] \in ToSet(q) /\ q[i + 1] # NULL
  BY <1>1, NullIsNoTask DEF Represents, EndsMatch, NextMatches, ToSet
<1> QED  BY <1>2, <1>3 DEF TaskGetNext

\* When the current task is removed, current_task moves to the next turn, or
\* to null when there is none left.
LEMMA RemoveCurrent ==
  ASSUME NEW l \in TaskLists, NEW q \in Seq(Task), Distinct(q), NEW o,
         l.current \in ToSet(q), l.current \notin o, Represents(l, q, o)
  PROVE  LET c == TaskListRemove(l, l.current).current
         IN  /\ Len(q) = 1 => c = NULL
             /\ Len(q) # 1 => c = TurnAfter(q, l.current)
             /\ Len(q) # 1 => c \in ToSet(Without(q, l.current))
<1> DEFINE t == l.current
           r == TaskListRemove(l, t)
           i == Position(q, t)
<1>1. i \in 1 .. Len(q) /\ q[i] = t /\ t \in Task
  BY PositionValue
<1>2. /\ r.head = IF t = l.head THEN l.next[t] ELSE l.head
      /\ r.current = IF l.next[t] = NULL THEN r.head ELSE l.next[t]
  BY <1>1, RemoveFields
<1>3. TurnAfter(q, t) = IF i = Len(q) THEN q[1] ELSE q[i + 1]
  BY DEF TurnAfter
<1>4. ToSet(Without(q, t)) = ToSet(q) \ {t}
  BY WithoutValue
<1> HIDE DEF i, r, t
<1>5. /\ l.head = q[1] /\ q[1] \in ToSet(q)
      /\ l.next[t] = IF i = Len(q) THEN NULL ELSE q[i + 1]
      /\ i # Len(q) => q[i + 1] \in ToSet(q) /\ q[i + 1] # NULL /\ q[i + 1] # t
      /\ Len(q) # 1 => (q[1] = t => i = 1)
  BY <1>1, NullIsNoTask DEF Represents, EndsMatch, NextMatches, ToSet, Distinct
<1>6. CASE Len(q) = 1
  BY <1>1, <1>2, <1>5, <1>6 DEF r, t
<1>7. CASE Len(q) # 1
  <2>1. r.current = TurnAfter(q, t) /\ r.current \in ToSet(q) \ {t}
    BY <1>1, <1>2, <1>3, <1>5, <1>7
  <2> QED  BY <1>4, <1>7, <2>1 DEF r, t
<1> QED  BY <1>6, <1>7

-----------------------------------------------------------------------------
(* The inductive invariant.  ListIsQueue alone is not inductive: that an    *)
(* exit finds its task in the queue is RunsATask, that the first task of    *)
(* all exists is BootIsSound with the type invariant, and the type          *)
(* invariant ties the queue of the history to the allocated tasks.          *)

BootIsSound == phase = "boot" => sound

IInv == TypeOK /\ ListIsQueue /\ RunsATask /\ BootIsSound

\* task_new, whichever way its caller goes on.
LEMMA AllocateStep ==
  ASSUME IInv, NEW t \in Task, Allocate(t)
  PROVE  /\ live' = ToSet(queue') /\ live' \in SUBSET Task
         /\ queue' \in Seq(Task) /\ Distinct(queue')
         /\ orphans' \in SUBSET live' /\ sound' = sound
         /\ TaskNew(list, t) \in TaskLists
         /\ TaskSwitch(TaskNew(list, t), t) \in TaskLists
         /\ sound => Represents(TaskNew(list, t), queue', orphans')
         /\ (sound /\ phase = "user") => TaskNew(list, t).current = list.current
<1>1. /\ t \notin live /\ live' = live \cup {t} /\ queue' = Append(queue, t)
      /\ orphans' = orphans /\ sound' = sound
  BY DEF Allocate
<1>2. /\ list \in TaskLists /\ live \in SUBSET Task /\ queue \in Seq(Task)
      /\ ToSet(queue) = live /\ Distinct(queue) /\ orphans \in SUBSET live
      /\ sound \in BOOLEAN
  BY DEF IInv, TypeOK
<1>3. /\ queue' \in Seq(Task) /\ Distinct(queue') /\ ToSet(queue') = live'
  BY <1>1, <1>2, AppendValue
<1>4. /\ TaskNew(list, t) \in TaskLists
      /\ TaskSwitch(TaskNew(list, t), t) \in TaskLists
  BY <1>2, NewTyped
<1>5. sound => /\ Represents(TaskNew(list, t), queue', orphans')
               /\ queue # <<>> => TaskNew(list, t).current = list.current
  BY <1>1, <1>2, NewRepresents DEF IInv, ListIsQueue
<1>6. phase = "user" => queue # <<>>
  <2>1. phase = "user" => list.current \in ToSet(queue)
    BY <1>2 DEF IInv, RunsATask
  <2> QED  BY <1>2, <2>1 DEF ToSet
<1> QED  BY <1>1, <1>2, <1>3, <1>4, <1>5, <1>6

\* process_load, and command 7 without arguments.
LEMMA SpawnStep ==
  ASSUME IInv, NEW t \in Task, phase \in {"boot", "user"}, Spawn(t)
  PROVE  IInv'
<1> DEFINE n == TaskNew(list, t)
<1>1. Allocate(t) /\ list' = n /\ phase' = Returned(n)
  BY DEF Spawn
<1>2. /\ live' = ToSet(queue') /\ live' \in SUBSET Task
      /\ queue' \in Seq(Task) /\ Distinct(queue')
      /\ orphans' \in SUBSET live' /\ sound' = sound
      /\ n \in TaskLists
      /\ sound => Represents(n, queue', orphans')
      /\ (sound /\ phase = "user") => n.current = list.current
  BY <1>1, AllocateStep
<1> HIDE DEF n
<1>3. /\ phase' \in {"boot", "user", "undefined"}
      /\ phase' = "boot" => phase = "boot"
      /\ phase' = "user" => phase = "user" /\ n.current = list.current
      /\ sound => phase' = phase
  BY <1>1, <1>2 DEF Returned
<1>4. live \in SUBSET live' /\ sound \in BOOLEAN
  BY <1>1 DEF Allocate, IInv, TypeOK
<1> QED
  BY <1>1, <1>2, <1>3, <1>4
  DEF IInv, TypeOK, ListIsQueue, RunsATask, BootIsSound

\* Commands 6 and 7.
LEMMA ExecStep ==
  ASSUME IInv, NEW t \in Task, phase = "user", Exec(t)
  PROVE  IInv'
<1> DEFINE n == TaskNew(list, t)
           s == TaskSwitch(n, t)
<1>1. Allocate(t) /\ list' = s /\ phase' = phase
  BY DEF Exec
<1>2. /\ live' = ToSet(queue') /\ live' \in SUBSET Task
      /\ queue' \in Seq(Task) /\ Distinct(queue')
      /\ orphans' \in SUBSET live' /\ sound' = sound
      /\ n \in TaskLists /\ s \in TaskLists
      /\ sound => Represents(n, queue', orphans')
  BY <1>1, AllocateStep
<1> HIDE DEF n
<1>3. /\ s.current = t /\ s.head = n.head /\ s.tail = n.tail
      /\ s.next = n.next /\ s.prev = n.prev
  BY <1>2 DEF TaskSwitch, TaskLists
<1> HIDE DEF s
<1>4. sound => Represents(s, queue', orphans')
  BY <1>2, <1>3 DEF Represents, EndsMatch, NextMatches, PrevMatches
<1>5. t \in live' /\ sound \in BOOLEAN
  BY <1>1 DEF Allocate, IInv, TypeOK
<1> QED
  BY <1>1, <1>2, <1>3, <1>4, <1>5
  DEF IInv, TypeOK, ListIsQueue, RunsATask, BootIsSound

\* A load that fails after task_new.
LEMMA FailToMapStep ==
  ASSUME IInv, NEW t \in Task, phase = "user", FailToMap(t)
  PROVE  IInv'
<1> DEFINE n == TaskNew(list, t)
           r == TaskListRemove(n, t)
<1>1. /\ list' = r /\ phase' = Returned(r) /\ t \notin live
      /\ live' = live /\ queue' = queue /\ orphans' = orphans /\ sound' = sound
  BY DEF FailToMap, history
<1>2. /\ list \in TaskLists /\ queue \in Seq(Task) /\ ToSet(queue) = live
      /\ Distinct(queue) /\ orphans \in SUBSET live
      /\ sound => Represents(list, queue, orphans)
      /\ phase = "user" => list.current \in live
  BY DEF IInv, TypeOK, ListIsQueue, RunsATask
<1>3. n \in TaskLists
  BY <1>2, NewTyped
<1>4. /\ r \in TaskLists
      /\ r.current = IF t # n.current THEN n.current
                     ELSE IF n.next[t] = NULL THEN r.head ELSE n.next[t]
  BY <1>3, RemoveFields
<1>5. ASSUME sound
      PROVE  Represents(r, queue, orphans) /\ r.current = list.current
  <2> DEFINE p == Append(queue, t)
  <2>1. p \in Seq(Task) /\ Distinct(p) /\ ToSet(p) = live \cup {t}
    BY <1>1, <1>2, AppendValue
  <2>2. /\ Represents(n, p, orphans)
        /\ n.current = IF queue = <<>> THEN t ELSE list.current
    BY <1>1, <1>2, <1>5, NewRepresents
  <2>3. Without(p, t) = queue /\ Position(p, t) = Len(queue) + 1
    BY <1>1, <1>2, WithoutLast
  <2>4. Len(p) = Len(queue) + 1
    BY <1>2
  <2>5. Behind(p, t) = {}
    BY <2>1, <2>3, <2>4, BehindValue
  <2> HIDE DEF n, p
  <2>6. Represents(r, queue, (orphans \cup {}) \ {t})
    BY <1>1, <1>2, <1>3, <2>1, <2>2, <2>3, <2>5, RemoveRepresents
  <2>7. (orphans \cup {}) \ {t} = orphans
    BY <1>1, <1>2
  <2>8. queue # <<>>
    BY <1>2 DEF ToSet
  <2>9. r.current = list.current
    BY <1>1, <1>2, <1>4, <2>2, <2>8
  <2> QED  BY <2>6, <2>7, <2>9
<1> HIDE DEF r
<1>6. /\ phase' \in {"user", "undefined"}
      /\ phase' = "user" => r.current = list.current
      /\ sound => phase' = "user"
  BY <1>1, <1>5 DEF Returned
<1> QED
  BY <1>1, <1>4, <1>5, <1>6
  DEF IInv, TypeOK, ListIsQueue, RunsATask, BootIsSound

\* task_next, in a list that is sound: the next turn gets the CPU, and the
\* list represents the same queue.
LEMMA TaskNextSound ==
  ASSUME NEW l \in TaskLists, NEW q \in Seq(Task), NEW o,
         l.current \in ToSet(q), Represents(l, q, o)
  PROVE  /\ Represents(TaskNext(l), q, o)
         /\ TaskNext(l).current = TurnAfter(q, l.current)
         /\ TaskNext(l).current \in ToSet(q)
<1> DEFINE m == TaskNext(l)
<1>1. /\ m.current = TaskGetNext(l) /\ m.head = l.head /\ m.tail = l.tail
      /\ m.next = l.next /\ m.prev = l.prev
  BY DEF TaskNext, TaskSwitch, TaskLists
<1> HIDE DEF m
<1>2. Represents(m, q, o)
  BY <1>1 DEF Represents, EndsMatch, NextMatches, PrevMatches
<1> QED  BY <1>1, <1>2, NextIsTurn DEF m

\* Command 9 and the exceptions.
LEMMA ExitStep ==
  ASSUME IInv, Exit
  PROVE  IInv'
<1> DEFINE t == list.current
           halts == live = {t}
           freed == TaskListRemove(list, t)
           after == IF halts \/ freed.current = NULL THEN freed ELSE TaskNext(freed)
<1>1. /\ phase = "user"
      /\ live' = live \ {t} /\ list' = after
      /\ phase' = IF halts THEN "panic" ELSE Resumed(after, live')
      /\ queue' = Without(queue, t)
      /\ orphans' = (orphans \cup Behind(queue, t)) \ {t}
      /\ sound' = (sound /\ t \notin orphans)
  BY DEF Exit, Terminate, Kept
<1>2. /\ list \in TaskLists /\ live \in SUBSET Task /\ queue \in Seq(Task)
      /\ ToSet(queue) = live /\ Distinct(queue) /\ orphans \in SUBSET live
      /\ sound \in BOOLEAN
      /\ sound => Represents(list, queue, orphans)
      /\ t \in live /\ t \in Task
  BY <1>1 DEF IInv, TypeOK, ListIsQueue, RunsATask
<1>3. /\ queue' \in Seq(Task) /\ Distinct(queue') /\ ToSet(queue') = live'
      /\ Len(queue') = Len(queue) - 1
  BY <1>1, <1>2, WithoutValue
<1>4. orphans' \in SUBSET live'
  <2>1. Behind(queue, t) \in SUBSET live
    BY <1>2 DEF Behind, ToSet
  <2> QED  BY <1>1, <1>2, <2>1
<1>5. freed \in TaskLists
  BY <1>2, RemoveFields
<1> HIDE DEF freed
<1>6. after \in TaskLists
  <2>1. freed.current # NULL => freed.current \in Task
    BY <1>5 DEF TaskLists, Pointer
  <2> QED  BY <1>5, <2>1, NextTyped
<1>7. ASSUME sound'
      PROVE  /\ Represents(after, queue', orphans')
             /\ ~halts => after.current \in live'
  <2>1. sound /\ t \notin orphans
    BY <1>1, <1>2, <1>7
  <2>2. Represents(freed, queue', orphans')
    BY <1>1, <1>2, <2>1, RemoveRepresents DEF freed
  <2>3. CASE halts
    BY <2>2, <2>3
  <2>4. CASE ~halts
    <3>1. Len(queue) # 1
      BY <1>2, <2>4 DEF ToSet
    <3>2. freed.current \in ToSet(queue')
      BY <1>1, <1>2, <2>1, <3>1, RemoveCurrent DEF freed
    <3>3. freed.current # NULL
      BY <1>1, <1>2, <1>3, <3>2, NullIsNoTask
    <3>4. /\ Represents(TaskNext(freed), queue', orphans')
          /\ TaskNext(freed).current \in ToSet(queue')
      BY <1>3, <1>5, <2>2, <3>2, TaskNextSound
    <3> QED  BY <1>3, <2>4, <3>3, <3>4
  <2> QED  BY <2>3, <2>4
<1> HIDE DEF after, halts
<1>8. /\ phase' \in {"user", "panic", "undefined"}
      /\ phase' = "user" => after.current \in live'
      /\ sound' => phase' # "undefined"
  BY <1>1, <1>7 DEF Resumed
<1>9. live' \in SUBSET Task /\ sound' \in BOOLEAN
  BY <1>1, <1>2
<1> QED
  BY <1>1, <1>3, <1>4, <1>6, <1>7, <1>8, <1>9
  DEF IInv, TypeOK, ListIsQueue, RunsATask, BootIsSound

\* idt_clock.
LEMMA TickStep ==
  ASSUME IInv, Tick
  PROVE  IInv'
<1> DEFINE m == TaskNext(list)
<1>1. /\ phase = "user" /\ list' = m /\ phase' = Resumed(m, live)
      /\ live' = live /\ queue' = queue /\ orphans' = orphans /\ sound' = sound
  BY DEF Tick, history
<1>2. /\ list \in TaskLists /\ live \in SUBSET Task /\ queue \in Seq(Task)
      /\ ToSet(queue) = live /\ list.current \in live
      /\ sound => Represents(list, queue, orphans)
  BY <1>1 DEF IInv, TypeOK, ListIsQueue, RunsATask
<1>3. m \in TaskLists
  BY <1>2, NextTyped
<1>4. sound => Represents(m, queue, orphans) /\ m.current \in live
  BY <1>2, TaskNextSound
<1> HIDE DEF m
<1>5. /\ phase' \in {"user", "undefined"}
      /\ phase' = "user" => m.current \in live
      /\ sound => phase' # "undefined"
  BY <1>1, <1>4 DEF Resumed
<1> QED
  BY <1>1, <1>3, <1>4, <1>5
  DEF IInv, TypeOK, ListIsQueue, RunsATask, BootIsSound

\* task_run_first_ever_task.
LEMMA RunFirstStep ==
  ASSUME IInv, RunFirst
  PROVE  IInv'
<1> DEFINE m == TaskSwitch(list, list.head)
<1>1. /\ phase = "boot" /\ Cardinality(live) = BootTasks
      /\ list' = m /\ phase' = Resumed(m, live)
      /\ live' = live /\ queue' = queue /\ orphans' = orphans /\ sound' = sound
  BY DEF RunFirst, history
<1>2. /\ list \in TaskLists /\ queue \in Seq(Task) /\ ToSet(queue) = live
      /\ sound /\ Represents(list, queue, orphans)
  BY <1>1 DEF IInv, TypeOK, ListIsQueue, BootIsSound
<1>3. live # {}
  BY <1>1, BoundsAssumption, FS_EmptySet
<1>4. list.head \in live
  <2>1. queue # <<>>
    BY <1>2, <1>3 DEF ToSet
  <2> QED  BY <1>2, <2>1 DEF Represents, EndsMatch, ToSet
<1>5. /\ m \in TaskLists /\ m.current = list.head
      /\ m.head = list.head /\ m.tail = list.tail
      /\ m.next = list.next /\ m.prev = list.prev
  BY <1>2 DEF TaskSwitch, TaskLists
<1> HIDE DEF m
<1>6. Represents(m, queue, orphans)
  BY <1>2, <1>5 DEF Represents, EndsMatch, NextMatches, PrevMatches
<1>7. phase' = "user" /\ m.current \in live
  BY <1>1, <1>4, <1>5 DEF Resumed
<1> QED
  BY <1>1, <1>5, <1>6, <1>7
  DEF IInv, TypeOK, ListIsQueue, RunsATask, BootIsSound

-----------------------------------------------------------------------------
\* The invariant holds initially.
LEMMA InitIInv == Init => IInv
<1> SUFFICES ASSUME Init PROVE IInv
  OBVIOUS
<1>1. EmptyList \in TaskLists /\ EmptyList.head = NULL /\ EmptyList.tail = NULL
  BY DEF EmptyList, TaskLists, Pointer
<1>2. ToSet(<<>>) = {} /\ Distinct(<<>>)
  BY DEF ToSet, Distinct
<1>3. Represents(EmptyList, <<>>, {})
  BY <1>1 DEF Represents, EndsMatch, NextMatches, PrevMatches
<1> QED
  BY <1>1, <1>2, <1>3
  DEF Init, IInv, TypeOK, ListIsQueue, RunsATask, BootIsSound

\* Every step preserves it.
LEMMA NextIInv == IInv /\ [Next]_vars => IInv'
<1> SUFFICES ASSUME IInv, [Next]_vars PROVE IInv'
  OBVIOUS
<1>1. CASE BootFail
  BY <1>1 DEF BootFail, history, IInv, TypeOK, ListIsQueue, RunsATask, BootIsSound
<1>2. CASE RunFirst
  BY <1>2, RunFirstStep
<1>3. CASE Tick
  BY <1>3, TickStep
<1>4. CASE Exit
  BY <1>4, ExitStep
<1>5. ASSUME NEW t \in Task, BootLoad(t) PROVE IInv'
  BY <1>5, SpawnStep DEF BootLoad
<1>6. ASSUME NEW t \in Task, StartProgram(t) PROVE IInv'
  BY <1>6, ExecStep DEF StartProgram
<1>7. ASSUME NEW t \in Task, StartFails(t) PROVE IInv'
  BY <1>7, SpawnStep, FailToMapStep DEF StartFails
<1>8. CASE UNCHANGED vars
  BY <1>8 DEF vars, IInv, TypeOK, ListIsQueue, RunsATask, BootIsSound
<1> QED
  BY <1>1, <1>2, <1>3, <1>4, <1>5, <1>6, <1>7, <1>8 DEF Next

\* The pointers have their types and every allocated task is accounted for, in
\* every state of every run of the scheduler (TypeOK).
THEOREM Typing == Spec => []TypeOK
<1>1. IInv => TypeOK
  BY DEF IInv
<1> QED  BY InitIInv, NextIInv, <1>1, PTL DEF Spec

\* As long as no orphan has been freed, the linked list of task.c is the queue
\* of the live tasks (ListIsQueue).
THEOREM ListCorrect == Spec => []ListIsQueue
<1>1. IInv => ListIsQueue
  BY DEF IInv
<1> QED  BY InitIInv, NextIInv, <1>1, PTL DEF Spec

\* As long as no orphan has been freed, the CPU never runs what is no task
\* (RunsATask).
THEOREM CPUSafe == Spec => []RunsATask
<1>1. IInv => RunsATask
  BY DEF IInv
<1> QED  BY InitIInv, NextIInv, <1>1, PTL DEF Spec

-----------------------------------------------------------------------------
(* Also in a list that is not sound task_tail is null only if task_head is. *)
(* The queue of the history says nothing of such a list, so the invariant   *)
(* has a queue p of its own: all that the pointers reach, as long as they   *)
(* are right; later only the part of it, from the first task on, whose prev *)
(* pointers still are.  The tail is then behind that part and stays there,  *)
(* because no task that the CPU can get to leads back into it.  "e" holds   *)
(* the addresses that the pointers can lead to.                             *)

\* The list's pointers are the queue p of tasks.
Whole(l, tasks, p) ==
  /\ p \in Seq(Task) /\ Distinct(p) /\ ToSet(p) \subseteq tasks
  /\ Represents(l, p, {})

\* p are the tasks at the front whose prev pointers are right; what e holds leads
\* nowhere else, and the other tasks do not lead back into p.
Linked(l, tasks, e, p) ==
  /\ p \in Seq(Task) /\ Distinct(p) /\ ToSet(p) \subseteq tasks \cap e
  /\ e \subseteq Task
  /\ l.head \in e \cup {NULL} /\ l.tail \in e \cup {NULL} /\ l.current \in e \cup {NULL}
  /\ \A x \in e : l.next[x] \in e \cup {NULL} /\ l.prev[x] \in e \cup {NULL}
  /\ \A i \in 2 .. Len(p) : l.prev[p[i]] = p[i - 1]
  /\ \A x \in (tasks \cap e) \ ToSet(p) : l.prev[x] \notin ToSet(p) \cup {NULL}

\* The tail is behind p.
Broken(l, tasks, e, p) == Linked(l, tasks, e, p) /\ l.tail \notin ToSet(p) \cup {NULL}

\* The list is broken somewhere in front of its tail.
IsBroken(l, tasks) == \E e, p : Broken(l, tasks, e, p)

\* The list is whole until init has run; from then on the CPU is in it, or it is
\* broken.
TailInv ==
  /\ phase = "boot" => \E p : Whole(list, live, p)
  /\ phase = "user" => \/ \E p : Whole(list, live, p) /\ list.current \in ToSet(p)
                       \/ IsBroken(list, live)

\* The fields of the list after task_new.
LEMMA NewFields ==
  ASSUME NEW l \in TaskLists, NEW t \in Task
  PROVE  LET n == TaskNew(l, t)
         IN  /\ n \in TaskLists
             /\ l.head = NULL =>
                  /\ n.head = t /\ n.tail = t /\ n.current = t
                  /\ n.next[t] = NULL /\ n.prev[t] = NULL
             /\ l.head # NULL /\ l.tail # NULL =>
                  /\ n.head = l.head /\ n.tail = t /\ n.current = l.current
                  /\ n.prev = [l.prev EXCEPT ![t] = l.tail]
                  /\ n.next = [[l.next EXCEPT ![t] = NULL] EXCEPT ![l.tail] = t]
<1> DEFINE z == Cleared(l, t)
           nx == [z.next EXCEPT ![z.tail] = t]
           pv == [z.prev EXCEPT ![t] = z.tail]
<1>1. /\ z \in TaskLists /\ z.head = l.head /\ z.tail = l.tail /\ z.current = l.current
      /\ z.next = [l.next EXCEPT ![t] = NULL] /\ z.prev = [l.prev EXCEPT ![t] = NULL]
  BY DEF Cleared, TaskLists, Pointer
<1>2. TaskNew(l, t) \in TaskLists
  BY NewTyped
<1> HIDE DEF z
<1>3. CASE l.head = NULL
  <2>1. TaskNew(l, t) = [z EXCEPT !.head = t, !.tail = t, !.current = t]
    BY <1>1, <1>3 DEF TaskNew, z
  <2> QED  BY <1>1, <1>2, <1>3, <2>1 DEF TaskLists
<1>4. CASE l.head # NULL
  <2>1. TaskNew(l, t) = [z EXCEPT !.next = nx, !.prev = pv, !.tail = t]
    BY <1>1, <1>4 DEF TaskNew, z, TaskLists
  <2>2. pv = [l.prev EXCEPT ![t] = l.tail]
    BY <1>1 DEF TaskLists
  <2>3. nx = [[l.next EXCEPT ![t] = NULL] EXCEPT ![l.tail] = t]
    BY <1>1
  <2> HIDE DEF nx, pv
  <2>4. LET n == TaskNew(l, t)
        IN n.head = z.head /\ n.tail = t /\ n.current = z.current /\ n.prev = pv /\ n.next = nx
    BY <1>1, <2>1 DEF TaskLists
  <2> QED  BY <1>1, <1>2, <1>4, <2>2, <2>3, <2>4
<1> QED  BY <1>3, <1>4

\* The first task of a list, whatever the list was like before it got empty.
LEMMA FirstIsWhole ==
  ASSUME NEW l \in TaskLists, NEW tasks \in SUBSET Task, NEW t \in Task, l.head = NULL
  PROVE  /\ Whole(TaskNew(l, t), tasks \cup {t}, <<t>>)
         /\ ToSet(<<t>>) = {t}
<1>0. PICK n, p : n = TaskNew(l, t) /\ p = <<t>>
  OBVIOUS
<1>1. n.head = t /\ n.tail = t /\ n.next[t] = NULL /\ n.prev[t] = NULL
  BY <1>0, NewFields
<1>2. p \in Seq(Task) /\ Len(p) = 1 /\ p[1] = t /\ DOMAIN p = 1 .. 1
  BY <1>0
<1>3. \A i \in 1 .. 1 : i = 1
  OBVIOUS
<1>4. ToSet(p) = {t} /\ Distinct(p)
  BY <1>2, <1>3 DEF ToSet, Distinct
<1>5. p # <<>>
  BY <1>0
<1>6. Represents(n, p, {})
  BY <1>1, <1>2, <1>3, <1>5 DEF Represents, EndsMatch, NextMatches, PrevMatches
<1> QED  BY <1>0, <1>2, <1>4, <1>6 DEF Whole

\* One more task behind a whole list.
LEMMA WholeNew ==
  ASSUME NEW l \in TaskLists, NEW tasks \in SUBSET Task, NEW p, Whole(l, tasks, p),
         NEW t \in Task, t \notin tasks
  PROVE  /\ Whole(TaskNew(l, t), tasks \cup {t}, Append(p, t))
         /\ ToSet(Append(p, t)) = ToSet(p) \cup {t}
         /\ TaskNew(l, t).current = IF p = <<>> THEN t ELSE l.current
<1>1. p \in Seq(Task) /\ Distinct(p) /\ ToSet(p) \subseteq tasks /\ Represents(l, p, {})
  BY DEF Whole
<1>2. t \notin ToSet(p)
  BY <1>1
<1>3. /\ Append(p, t) \in Seq(Task) /\ Distinct(Append(p, t))
      /\ ToSet(Append(p, t)) = ToSet(p) \cup {t}
  BY <1>1, <1>2, AppendValue
<1>4. /\ Represents(TaskNew(l, t), Append(p, t), {})
      /\ TaskNew(l, t).current = IF p = <<>> THEN t ELSE l.current
  BY <1>1, <1>2, NewRepresents
<1> QED  BY <1>1, <1>3, <1>4 DEF Whole

\* A pointer that moves to a task of the list.
LEMMA SwitchKeeps ==
  ASSUME NEW l \in TaskLists, NEW tasks, NEW t
  PROVE  /\ TaskSwitch(l, t).current = t
         /\ \A p : Whole(l, tasks, p) => Whole(TaskSwitch(l, t), tasks, p)
         /\ \A e, p : Broken(l, tasks, e, p) /\ t \in e \cup {NULL} =>
              Broken(TaskSwitch(l, t), tasks, e, p)
<1>0. PICK m : m = TaskSwitch(l, t)
  OBVIOUS
<1>1. /\ m.current = t /\ m.head = l.head /\ m.tail = l.tail
      /\ m.next = l.next /\ m.prev = l.prev
  BY <1>0 DEF TaskSwitch, TaskLists
<1>2. \A p : Whole(l, tasks, p) => Whole(m, tasks, p)
  BY <1>1 DEF Whole, Represents, EndsMatch, NextMatches, PrevMatches
<1>3. \A e, p : Broken(l, tasks, e, p) /\ t \in e \cup {NULL} => Broken(m, tasks, e, p)
  BY <1>1 DEF Broken, Linked
<1> QED  BY <1>0, <1>1, <1>2, <1>3

\* One more task behind a list that is broken.
LEMMA BrokenNew ==
  ASSUME NEW l \in TaskLists, NEW tasks \in SUBSET Task, NEW e, NEW p, Broken(l, tasks, e, p),
         l.head # NULL, NEW t \in Task, t \notin tasks
  PROVE  /\ Broken(TaskNew(l, t), tasks \cup {t}, e \cup {t}, p)
         /\ TaskNew(l, t).current = l.current
<1>1. /\ p \in Seq(Task) /\ Distinct(p) /\ ToSet(p) \subseteq tasks \cap e /\ e \subseteq Task
      /\ l.head \in e \cup {NULL} /\ l.tail \in e \cup {NULL} /\ l.current \in e \cup {NULL}
      /\ \A x \in e : l.next[x] \in e \cup {NULL} /\ l.prev[x] \in e \cup {NULL}
      /\ \A i \in 2 .. Len(p) : l.prev[p[i]] = p[i - 1]
      /\ \A x \in (tasks \cap e) \ ToSet(p) : l.prev[x] \notin ToSet(p) \cup {NULL}
      /\ l.tail \notin ToSet(p) \cup {NULL}
  BY DEF Broken, Linked
<1>11. l.tail # NULL
  BY <1>1
<1>0. PICK n, d : n = TaskNew(l, t) /\ d = e \cup {t}
  OBVIOUS
<1>2. /\ n.head = l.head /\ n.tail = t /\ n.current = l.current
      /\ n.prev = [l.prev EXCEPT ![t] = l.tail]
      /\ n.next = [[l.next EXCEPT ![t] = NULL] EXCEPT ![l.tail] = t]
  BY <1>0, <1>11, NewFields
<1>3. d = e \cup {t} /\ d \subseteq Task
  BY <1>0, <1>1
<1>4. l.tail \in e
  BY <1>1
<1>5. l.next \in [Task -> Pointer] /\ l.prev \in [Task -> Pointer]
  BY DEF TaskLists
<1>6. t \notin ToSet(p) /\ t # NULL
  BY <1>1, NullIsNoTask
<1>7. ASSUME NEW x \in d
      PROVE  n.next[x] \in d \cup {NULL} /\ n.prev[x] \in d \cup {NULL}
  BY <1>1, <1>2, <1>3, <1>4, <1>5, <1>7
<1>8. ASSUME NEW i \in 2 .. Len(p)
      PROVE  n.prev[p[i]] = p[i - 1]
  <2>1. p[i] \in ToSet(p) /\ p[i] \in Task
    BY <1>1, <1>8 DEF ToSet
  <2>2. n.prev[p[i]] = l.prev[p[i]]
    BY <1>2, <1>5, <1>6, <2>1
  <2> QED  BY <1>1, <1>8, <2>2
<1>9. ASSUME NEW x \in ((tasks \cup {t}) \cap d) \ ToSet(p)
      PROVE  n.prev[x] \notin ToSet(p) \cup {NULL}
  <2>1. CASE x = t
    BY <1>1, <1>2, <1>5, <2>1
  <2>2. CASE x # t
    <3>1. x \in (tasks \cap e) \ ToSet(p) /\ x \in Task
      BY <1>3, <1>9, <2>2
    <3>2. n.prev[x] = l.prev[x]
      BY <1>2, <1>5, <2>2, <3>1
    <3> QED  BY <1>1, <3>1, <3>2
  <2> QED  BY <2>1, <2>2
<1>10. Linked(n, tasks \cup {t}, d, p)
  <2>1. ToSet(p) \subseteq (tasks \cup {t}) \cap d
    BY <1>1, <1>3
  <2>2. n.head \in d \cup {NULL} /\ n.tail \in d \cup {NULL} /\ n.current \in d \cup {NULL}
    BY <1>1, <1>2, <1>3
  <2> QED  BY <1>1, <1>3, <1>7, <1>8, <1>9, <2>1, <2>2 DEF Linked
<1> QED  BY <1>0, <1>2, <1>6, <1>10 DEF Broken

\* What is left of p when t leaves the list.
Cut(p, t) == IF t \in ToSet(p) THEN SubSeq(p, 1, Position(p, t) - 1) ELSE p

\* The part that is left is a part of p, without t.
LEMMA CutIs ==
  ASSUME NEW p \in Seq(Task), Distinct(p), NEW t \in Task
  PROVE  /\ Cut(p, t) \in Seq(Task) /\ Distinct(Cut(p, t))
         /\ ToSet(Cut(p, t)) \subseteq ToSet(p) \ {t}
         /\ Len(Cut(p, t)) <= Len(p)
         /\ \A i \in 1 .. Len(Cut(p, t)) : Cut(p, t)[i] = p[i]
         /\ \A i \in 1 .. Len(p) :
              p[i] \notin ToSet(Cut(p, t)) /\ p[i] # t =>
                i > 1 /\ p[i - 1] \notin ToSet(Cut(p, t)) /\ p[i - 1] \in Task
         /\ t \in ToSet(p) /\ t # p[Len(p)] => p[Len(p)] \notin ToSet(Cut(p, t))
<1>1. CASE t \notin ToSet(p)
  <2>1. Cut(p, t) = p
    BY <1>1 DEF Cut
  <2>2. \A i \in 1 .. Len(p) : p[i] \in ToSet(p)
    BY DEF ToSet
  <2> QED  BY <1>1, <2>1, <2>2
<1>2. CASE t \in ToSet(p)
  <2>1. PICK j \in 1 .. Len(p) : j = Position(p, t) /\ p[j] = t
    BY <1>2, PositionValue
  <2>2. PICK c : c = Cut(p, t) /\ c = SubSeq(p, 1, j - 1)
    BY <1>2, <2>1 DEF Cut
  <2>3. c \in Seq(Task) /\ Len(c) = j - 1 /\ \A i \in 1 .. j - 1 : c[i] = p[i]
    BY <2>1, <2>2
  <2>4. \A x : x \in ToSet(c) <=> \E i \in 1 .. j - 1 : x = p[i]
    BY <2>3 DEF ToSet
  <2>5. \A i, k \in 1 .. Len(p) : p[i] = p[k] => i = k
    BY DEF Distinct
  <2>6. Distinct(c)
    BY <2>1, <2>3, <2>5 DEF Distinct
  <2>7. ToSet(c) \subseteq ToSet(p) \ {t}
    <3> SUFFICES ASSUME NEW i \in 1 .. j - 1 PROVE p[i] \in ToSet(p) /\ p[i] # t
      BY <2>4
    <3> QED  BY <2>1, <2>5 DEF ToSet
  <2>8. \A i \in 1 .. Len(p) : i >= j => p[i] \notin ToSet(c)
    BY <2>1, <2>4, <2>5
  <2>9. ASSUME NEW i \in 1 .. Len(p), p[i] \notin ToSet(c), p[i] # t
        PROVE  i > 1 /\ p[i - 1] \notin ToSet(c) /\ p[i - 1] \in Task
    <3>1. i > j
      BY <2>1, <2>4, <2>9
    <3>2. i - 1 \in 1 .. Len(p) /\ i - 1 >= j
      BY <2>1, <3>1
    <3> QED  BY <2>8, <3>1, <3>2
  <2>10. p[Len(p)] \notin ToSet(c)
    <3>1. Len(p) \in 1 .. Len(p) /\ Len(p) >= j
      BY <2>1
    <3> QED  BY <2>8, <3>1
  <2> QED  BY <2>1, <2>2, <2>3, <2>6, <2>7, <2>9, <2>10
<1> QED  BY <1>1, <1>2

\* A task leaves a list; only the tail may still be in the part that is left.
LEMMA LinkedRemove ==
  ASSUME NEW l \in TaskLists, NEW tasks \in SUBSET Task, NEW e, NEW p, Linked(l, tasks, e, p),
         NEW t \in tasks \cap e
  PROVE  Linked(TaskListRemove(l, t), tasks \ {t}, e, Cut(p, t))
<1>1. /\ p \in Seq(Task) /\ Distinct(p) /\ ToSet(p) \subseteq tasks \cap e /\ e \subseteq Task
      /\ l.head \in e \cup {NULL} /\ l.tail \in e \cup {NULL} /\ l.current \in e \cup {NULL}
      /\ \A x \in e : l.next[x] \in e \cup {NULL} /\ l.prev[x] \in e \cup {NULL}
      /\ \A i \in 2 .. Len(p) : l.prev[p[i]] = p[i - 1]
      /\ \A x \in (tasks \cap e) \ ToSet(p) : l.prev[x] \notin ToSet(p) \cup {NULL}
  BY DEF Linked
<1>2. PICK r, c : r = TaskListRemove(l, t) /\ c = Cut(p, t)
  OBVIOUS
<1>3. /\ r.prev = l.prev
      /\ r.next = IF l.prev[t] = NULL THEN l.next
                  ELSE [l.next EXCEPT ![l.prev[t]] = l.next[t]]
      /\ r.head = IF t = l.head THEN l.next[t] ELSE l.head
      /\ r.tail = IF t = l.tail THEN l.prev[t] ELSE l.tail
      /\ r.current = IF t # l.current THEN l.current
                     ELSE IF l.next[t] = NULL THEN r.head ELSE l.next[t]
  BY <1>2, RemoveFields
<1>4. /\ c \in Seq(Task) /\ Distinct(c) /\ ToSet(c) \subseteq ToSet(p) \ {t} /\ Len(c) <= Len(p)
      /\ \A i \in 1 .. Len(c) : c[i] = p[i]
      /\ \A i \in 1 .. Len(p) :
           p[i] \notin ToSet(c) /\ p[i] # t =>
             i > 1 /\ p[i - 1] \notin ToSet(c) /\ p[i - 1] \in Task
  <2>1. t \in Task /\ p \in Seq(Task) /\ Distinct(p) /\ c = Cut(p, t)
    BY <1>1, <1>2
  <2> QED  BY <2>1, CutIs
<1>5. l.next \in [Task -> Pointer] /\ l.prev \in [Task -> Pointer] /\ t \in e
  BY DEF TaskLists
<1>6. ToSet(c) \subseteq (tasks \ {t}) \cap e
  BY <1>1, <1>4
<1>7. r.head \in e \cup {NULL} /\ r.tail \in e \cup {NULL} /\ r.current \in e \cup {NULL}
  BY <1>1, <1>3, <1>5
<1>8. ASSUME NEW x \in e
      PROVE  r.next[x] \in e \cup {NULL} /\ r.prev[x] \in e \cup {NULL}
  BY <1>1, <1>3, <1>5, <1>8
<1>9. ASSUME NEW i \in 2 .. Len(c)
      PROVE  r.prev[c[i]] = c[i - 1]
  <2>1. i \in 1 .. Len(c) /\ i - 1 \in 1 .. Len(c) /\ i \in 2 .. Len(p)
    BY <1>1, <1>4, <1>9
  <2> QED  BY <1>1, <1>3, <1>4, <2>1
<1>10. ASSUME NEW x \in ((tasks \ {t}) \cap e) \ ToSet(c)
       PROVE  r.prev[x] \notin ToSet(c) \cup {NULL}
  <2>1. CASE x \notin ToSet(p)
    BY <1>1, <1>3, <1>4, <1>10, <2>1
  <2>2. CASE x \in ToSet(p)
    <3>1. PICK i \in 1 .. Len(p) : x = p[i]
      BY <1>1, <2>2 DEF ToSet
    <3>2. i > 1 /\ p[i - 1] \notin ToSet(c) /\ p[i - 1] \in Task
      BY <1>4, <1>10, <3>1
    <3>3. l.prev[x] = p[i - 1]
      BY <1>1, <3>1, <3>2
    <3> QED  BY <1>3, <3>2, <3>3, NullIsNoTask
  <2> QED  BY <2>1, <2>2
<1> QED  BY <1>1, <1>2, <1>4, <1>6, <1>7, <1>8, <1>9, <1>10 DEF Linked

\* A task leaves a list that is broken.
LEMMA BrokenRemove ==
  ASSUME NEW l \in TaskLists, NEW tasks \in SUBSET Task, NEW e, NEW p, Broken(l, tasks, e, p),
         NEW t \in tasks \cap e
  PROVE  Broken(TaskListRemove(l, t), tasks \ {t}, e, Cut(p, t))
<1>1. /\ Linked(TaskListRemove(l, t), tasks \ {t}, e, Cut(p, t))
      /\ l.tail \notin ToSet(p) \cup {NULL}
  BY LinkedRemove DEF Broken
<1>2. /\ p \in Seq(Task) /\ Distinct(p)
      /\ \A i \in 2 .. Len(p) : l.prev[p[i]] = p[i - 1]
      /\ \A x \in (tasks \cap e) \ ToSet(p) : l.prev[x] \notin ToSet(p) \cup {NULL}
  BY DEF Broken, Linked
<1>3. ToSet(Cut(p, t)) \subseteq ToSet(p)
  BY <1>2, CutIs
<1>4. TaskListRemove(l, t).tail = IF t = l.tail THEN l.prev[t] ELSE l.tail
  BY RemoveFields
<1>5. t = l.tail => l.prev[t] \notin ToSet(p) \cup {NULL}
  BY <1>1, <1>2
<1> QED  BY <1>1, <1>3, <1>4, <1>5 DEF Broken

\* The pointers of a whole list lead to its tasks only.
LEMMA WholeLinked ==
  ASSUME NEW l \in TaskLists, NEW tasks \in SUBSET Task, NEW p, Whole(l, tasks, p),
         l.current \in ToSet(p)
  PROVE  Linked(l, tasks, ToSet(p), p)
<1>1. p \in Seq(Task) /\ Distinct(p) /\ ToSet(p) \subseteq tasks /\ Represents(l, p, {})
  BY DEF Whole
<1>2. p # <<>> /\ Len(p) \in Nat \ {0}
  BY <1>1 DEF ToSet
<1>3. \A i \in 1 .. Len(p) : p[i] \in ToSet(p)
  BY <1>1 DEF ToSet
<1>4. l.head \in ToSet(p) /\ l.tail \in ToSet(p)
  BY <1>1, <1>2, <1>3 DEF Represents, EndsMatch
<1>5. \A i \in 1 .. Len(p) : /\ l.next[p[i]] = IF i = Len(p) THEN NULL ELSE p[i + 1]
                             /\ l.prev[p[i]] = IF i = 1 THEN NULL ELSE p[i - 1]
  BY <1>1 DEF Represents, NextMatches, PrevMatches
<1>6. ASSUME NEW x \in ToSet(p)
      PROVE  l.next[x] \in ToSet(p) \cup {NULL} /\ l.prev[x] \in ToSet(p) \cup {NULL}
  <2>1. PICK i \in 1 .. Len(p) : x = p[i]
    BY <1>1 DEF ToSet
  <2>2. i # Len(p) => i + 1 \in 1 .. Len(p)
    BY <1>2, <2>1
  <2>3. i # 1 => i - 1 \in 1 .. Len(p)
    BY <1>2, <2>1
  <2> QED  BY <1>3, <1>5, <2>1, <2>2, <2>3
<1>7. \A i \in 2 .. Len(p) : l.prev[p[i]] = p[i - 1]
  BY <1>2, <1>5
<1> QED  BY <1>1, <1>4, <1>6, <1>7 DEF Linked

\* The current task leaves a whole list: the list stays whole if it was the last
\* one, and breaks if another one is behind it.
LEMMA WholeRemove ==
  ASSUME NEW l \in TaskLists, NEW tasks \in SUBSET Task, NEW p, Whole(l, tasks, p),
         NEW t, t = l.current, t \in ToSet(p)
  PROVE  LET r == TaskListRemove(l, t)
         IN  \/ r.current = NULL
             \/ \E q : Whole(r, tasks \ {t}, q) /\ r.current \in ToSet(q)
             \/ IsBroken(r, tasks \ {t})
<1>1. p \in Seq(Task) /\ Distinct(p) /\ ToSet(p) \subseteq tasks /\ Represents(l, p, {}) /\ t \in Task
  BY DEF Whole
<1>2. p # <<>> /\ Len(p) \in Nat \ {0} /\ l.tail = p[Len(p)] /\ l.tail \in ToSet(p)
  BY <1>1 DEF ToSet, Represents, EndsMatch
<1>3. PICK r : r = TaskListRemove(l, t)
  OBVIOUS
<1>4. /\ Len(p) = 1 => r.current = NULL
      /\ Len(p) # 1 => r.current \in ToSet(Without(p, t))
  BY <1>1, <1>3, RemoveCurrent
<1>5. CASE Len(p) # 1 /\ Position(p, t) = Len(p)
  <2>1. Represents(r, Without(p, t), ({} \cup Behind(p, t)) \ {t})
    BY <1>1, <1>3, RemoveRepresents
  <2>2. Behind(p, t) = {}
    BY <1>1, <1>5, BehindValue
  <2>3. ({} \cup Behind(p, t)) \ {t} = {}
    BY <2>2
  <2>4. /\ Without(p, t) \in Seq(Task) /\ Distinct(Without(p, t))
        /\ ToSet(Without(p, t)) = ToSet(p) \ {t}
    BY <1>1, WithoutValue
  <2>5. Whole(r, tasks \ {t}, Without(p, t))
    BY <1>1, <2>1, <2>3, <2>4 DEF Whole
  <2> QED  BY <1>3, <1>4, <1>5, <2>5
<1>6. CASE Position(p, t) # Len(p)
  <2>1. t # p[Len(p)]
    <3>1. Position(p, t) \in 1 .. Len(p) /\ p[Position(p, t)] = t /\ Len(p) \in 1 .. Len(p)
      BY <1>1, <1>2, PositionValue
    <3> QED  BY <1>1, <1>6, <3>1 DEF Distinct
  <2>2. Linked(r, tasks \ {t}, ToSet(p), Cut(p, t))
    BY <1>1, <1>3, WholeLinked, LinkedRemove
  <2>3. r.tail = l.tail
    BY <1>1, <1>2, <1>3, <2>1, RemoveFields
  <2>4. p[Len(p)] \notin ToSet(Cut(p, t)) /\ p[Len(p)] # NULL
    BY <1>1, <1>2, <2>1, CutIs, NullIsNoTask
  <2> QED  BY <1>2, <1>3, <2>2, <2>3, <2>4 DEF Broken, IsBroken
<1> QED  BY <1>3, <1>4, <1>5, <1>6

-----------------------------------------------------------------------------
\* What TailInv takes from the invariant.
LEMMA TailFacts ==
  ASSUME IInv
  PROVE  /\ list \in TaskLists /\ live \in SUBSET Task /\ NULL \notin live
         /\ phase = "user" => list.current \in live /\ list.current # NULL
BY NullIsNoTask DEF IInv, TypeOK, RunsATask

\* A new task, in a list that is whole or broken; the CPU stays with its task or
\* goes to the new one.
LEMMA TailNew ==
  ASSUME IInv, TailInv, phase = "user", NEW t \in Task, t \notin live, NEW l,
         \/ l = TaskNew(list, t) /\ l.current = list.current
         \/ l = TaskSwitch(TaskNew(list, t), t)
  PROVE  \/ \E p : Whole(l, live \cup {t}, p) /\ l.current \in ToSet(p)
         \/ IsBroken(l, live \cup {t})
<1>1. PICK n : n = TaskNew(list, t)
  OBVIOUS
<1>2. n \in TaskLists /\ list \in TaskLists /\ live \in SUBSET Task
  BY <1>1, TailFacts, NewTyped
<1>3. ASSUME NEW p, Whole(n, live \cup {t}, p), t \in ToSet(p),
             l = n => l.current \in ToSet(p)
      PROVE  Whole(l, live \cup {t}, p) /\ l.current \in ToSet(p)
  BY <1>1, <1>2, <1>3, SwitchKeeps
<1>4. CASE list.head = NULL
  <2>1. Whole(n, live \cup {t}, <<t>>) /\ ToSet(<<t>>) = {t} /\ n.current = t
    BY <1>1, <1>2, <1>4, FirstIsWhole, NewFields
  <2> QED  BY <1>3, <2>1
<1>5. ASSUME NEW p, Whole(list, live, p), list.current \in ToSet(p)
      PROVE  \E q : Whole(l, live \cup {t}, q) /\ l.current \in ToSet(q)
  <2>1. /\ Whole(n, live \cup {t}, Append(p, t))
        /\ ToSet(Append(p, t)) = ToSet(p) \cup {t}
        /\ n.current = IF p = <<>> THEN t ELSE list.current
    <3>1. /\ Whole(TaskNew(list, t), live \cup {t}, Append(p, t))
          /\ ToSet(Append(p, t)) = ToSet(p) \cup {t}
          /\ TaskNew(list, t).current = IF p = <<>> THEN t ELSE list.current
      BY <1>2, <1>5, WholeNew
    <3> QED  BY <1>1, <3>1
  <2> QED  BY <1>3, <1>5, <2>1
<1>6. ASSUME NEW e, NEW p, Broken(list, live, e, p), list.head # NULL
      PROVE  IsBroken(l, live \cup {t})
  <2>1. Broken(n, live \cup {t}, e \cup {t}, p)
    BY <1>1, <1>2, <1>6, BrokenNew
  <2>2. Broken(l, live \cup {t}, e \cup {t}, p)
    BY <1>1, <1>2, <2>1, SwitchKeeps
  <2> QED  BY <2>2 DEF IsBroken
<1> QED  BY <1>4, <1>5, <1>6 DEF TailInv, IsBroken

\* Nothing is left to run when the only task leaves.
LEMMA RemoveOnly ==
  ASSUME NEW l \in TaskLists, NEW t \in Task, l.head = t, l.current = t, l.next[t] = NULL
  PROVE  TaskListRemove(l, t).current = NULL
<1>1. PICK r : r = TaskListRemove(l, t)
  OBVIOUS
<1>2. r.head = IF t = l.head THEN l.next[t] ELSE l.head
  BY <1>1, RemoveFields
<1>3. r.current = IF t # l.current THEN l.current ELSE IF l.next[t] = NULL THEN r.head ELSE l.next[t]
  BY <1>1, RemoveFields
<1> QED  BY <1>1, <1>2, <1>3

\* A task that is made and removed again, without the CPU leaving its own.
LEMMA TailFails ==
  ASSUME IInv, TailInv, phase = "user", NEW t \in Task, t \notin live, NEW r,
         r = TaskListRemove(TaskNew(list, t), t), r.current = list.current
  PROVE  \/ \E p : Whole(r, live, p) /\ r.current \in ToSet(p)
         \/ IsBroken(r, live)
<1>1. PICK n : n = TaskNew(list, t)
  OBVIOUS
<1>2. /\ n \in TaskLists /\ list \in TaskLists /\ live \in SUBSET Task
      /\ list.current \in live /\ list.current # NULL /\ list.current # t
      /\ (live \cup {t}) \ {t} = live /\ live \cup {t} \in SUBSET Task
  BY <1>1, TailFacts, NewTyped
<1>3. r = TaskListRemove(n, t)
  BY <1>1
<1>4. list.head # NULL
  <2> SUFFICES ASSUME list.head = NULL PROVE FALSE
    OBVIOUS
  <2>1. n.head = t /\ n.current = t /\ n.next[t] = NULL
    BY <1>1, <1>2, NewFields
  <2>2. r.current = NULL
    BY <1>2, <1>3, <2>1, RemoveOnly
  <2> QED  BY <1>2, <2>2
<1>5. ASSUME NEW p, Whole(list, live, p), list.current \in ToSet(p)
      PROVE  Whole(r, live, p) /\ r.current \in ToSet(p)
  <2>1. p \in Seq(Task) /\ Distinct(p) /\ ToSet(p) \subseteq live /\ t \notin ToSet(p)
    BY <1>5 DEF Whole
  <2>2. PICK q : q = Append(p, t)
    OBVIOUS
  <2>3. q \in Seq(Task) /\ Distinct(q) /\ ToSet(q) = ToSet(p) \cup {t} /\ Represents(n, q, {})
    BY <1>1, <1>2, <1>5, <2>1, <2>2, AppendValue, WholeNew DEF Whole
  <2>4. Without(q, t) = p /\ Position(q, t) = Len(q)
    BY <2>1, <2>2, WithoutLast
  <2>5. Represents(r, p, ({} \cup Behind(q, t)) \ {t})
    BY <1>1, <1>2, <2>3, <2>4, RemoveRepresents
  <2>6. ({} \cup Behind(q, t)) \ {t} = {}
    BY <2>3, <2>4, BehindValue
  <2> QED  BY <1>5, <2>1, <2>5, <2>6 DEF Whole
<1>6. ASSUME NEW e, NEW p, Broken(list, live, e, p)
      PROVE  IsBroken(r, live)
  <2>1. Broken(n, live \cup {t}, e \cup {t}, p)
    BY <1>1, <1>2, <1>4, <1>6, BrokenNew
  <2>2. Broken(r, (live \cup {t}) \ {t}, e \cup {t}, Cut(p, t))
    BY <1>1, <1>2, <2>1, BrokenRemove
  <2> QED  BY <1>2, <2>2 DEF IsBroken
<1> QED  BY <1>5, <1>6 DEF TailInv, IsBroken

\* The next task gets the CPU.
LEMMA TailTurn ==
  ASSUME NEW l \in TaskLists, NEW tasks \in SUBSET Task, l.current \in Task,
         \/ \E p : Whole(l, tasks, p) /\ l.current \in ToSet(p)
         \/ IsBroken(l, tasks)
  PROVE  \/ \E p : Whole(TaskNext(l), tasks, p) /\ TaskNext(l).current \in ToSet(p)
         \/ IsBroken(TaskNext(l), tasks)
<1>1. ASSUME NEW p, Whole(l, tasks, p), l.current \in ToSet(p)
      PROVE  Whole(TaskNext(l), tasks, p) /\ TaskNext(l).current \in ToSet(p)
  BY <1>1, TaskNextSound DEF Whole
<1>2. ASSUME NEW e, NEW p, Broken(l, tasks, e, p)
      PROVE  Broken(TaskNext(l), tasks, e, p)
  <2>1. l.current \in e /\ l.next[l.current] \in e \cup {NULL} /\ l.head \in e \cup {NULL}
    BY <1>2, NullIsNoTask DEF Broken, Linked
  <2>2. TaskGetNext(l) \in e \cup {NULL}
    BY <2>1 DEF TaskGetNext
  <2> QED  BY <1>2, <2>2, SwitchKeeps DEF TaskNext
<1> QED  BY <1>1, <1>2 DEF IsBroken

\* The program that runs exits.
LEMMA TailExit ==
  ASSUME IInv, IInv', TailInv, Exit, phase' = "user"
  PROVE  \/ \E p : Whole(list', live', p) /\ list'.current \in ToSet(p)
         \/ IsBroken(list', live')
<1>1. PICK t, r : t = list.current /\ r = TaskListRemove(list, t)
  OBVIOUS
<1>2. /\ list \in TaskLists /\ live \in SUBSET Task /\ t \in live /\ t \in Task
      /\ live' \in SUBSET Task /\ list'.current \in live' /\ phase = "user" /\ NULL \notin live'
  BY <1>1, TailFacts, NullIsNoTask DEF IInv, TypeOK, RunsATask, Exit
<1>3. /\ live' = live \ {t}
      /\ list' = IF r.current = NULL THEN r ELSE TaskNext(r)
  BY <1>1 DEF Exit, Terminate, Kept
<1>4. r \in TaskLists
  BY <1>1, <1>2, RemoveFields
<1>5. r.current # NULL /\ r.current \in Task /\ list' = TaskNext(r)
  BY <1>2, <1>3, <1>4 DEF TaskLists, Pointer
<1>6. \/ \E p : Whole(r, live', p) /\ r.current \in ToSet(p)
      \/ IsBroken(r, live')
  <2>1. ASSUME NEW p, Whole(list, live, p), list.current \in ToSet(p)
        PROVE  \/ \E q : Whole(r, live', q) /\ r.current \in ToSet(q)
               \/ IsBroken(r, live')
    BY <1>1, <1>2, <1>3, <1>5, <2>1, WholeRemove
  <2>2. ASSUME NEW e, NEW p, Broken(list, live, e, p)
        PROVE  IsBroken(r, live')
    <3>1. t \in live \cap e
      BY <1>1, <1>2, <2>2, NullIsNoTask DEF Broken, Linked
    <3> QED  BY <1>1, <1>2, <1>3, <2>2, <3>1, BrokenRemove DEF IsBroken
  <2> QED  BY <1>2, <2>1, <2>2 DEF TailInv, IsBroken
<1> QED  BY <1>2, <1>4, <1>5, <1>6, TailTurn

\* The list is empty and whole in the beginning.
LEMMA TailStart == Init => TailInv
<1> SUFFICES ASSUME Init PROVE TailInv
  OBVIOUS
<1>1. EmptyList.head = NULL /\ EmptyList.tail = NULL
  BY DEF EmptyList
<1>2. <<>> \in Seq(Task) /\ ToSet(<<>>) = {} /\ Distinct(<<>>)
  BY DEF ToSet, Distinct
<1>3. Represents(EmptyList, <<>>, {})
  BY <1>1 DEF Represents, EndsMatch, NextMatches, PrevMatches
<1>4. Whole(EmptyList, {}, <<>>)
  BY <1>2, <1>3 DEF Whole
<1> QED  BY <1>4 DEF Init, TailInv

\* Every step of the scheduler keeps it.
LEMMA TailStays == IInv /\ IInv' /\ TailInv /\ [Next]_vars => TailInv'
<1> SUFFICES ASSUME IInv, IInv', TailInv, [Next]_vars PROVE TailInv'
  OBVIOUS
<1> DEFINE Stays == \/ \E p : Whole(list', live', p) /\ list'.current \in ToSet(p)
                    \/ IsBroken(list', live')
<1>0. list \in TaskLists /\ live \in SUBSET Task /\ NULL \notin live
  BY TailFacts
<1>1. CASE BootFail
  BY <1>1 DEF BootFail, TailInv
<1>2. CASE RunFirst
  <2>1. PICK p : Whole(list, live, p)
    BY <1>2 DEF RunFirst, TailInv
  <2>2. /\ list' = TaskSwitch(list, list.head) /\ live' = live
        /\ list'.current = list.head /\ Whole(list', live, p)
    BY <1>0, <1>2, <2>1, SwitchKeeps DEF RunFirst
  <2>3. phase' = "user" => list.head \in live
    BY <1>2, <2>2 DEF RunFirst, Resumed
  <2>4. phase' = "user" => list.head \in ToSet(p)
    <3> SUFFICES ASSUME phase' = "user" PROVE list.head \in ToSet(p)
      OBVIOUS
    <3>1. p \in Seq(Task) /\ EndsMatch(list, p)
      BY <2>1 DEF Whole, Represents
    <3>2. p # <<>> /\ list.head = p[1] /\ 1 \in 1 .. Len(p)
      BY <1>0, <2>3, <3>1 DEF EndsMatch
    <3> QED  BY <3>1, <3>2 DEF ToSet
  <2>5. phase' # "boot"
    BY <1>2 DEF RunFirst, Resumed
  <2> QED  BY <2>2, <2>4, <2>5 DEF TailInv
<1>3. CASE Tick
  <2>1. /\ phase = "user" /\ list' = TaskNext(list) /\ live' = live /\ phase' # "boot"
        /\ list.current \in Task
    BY <1>0, <1>3, TailFacts DEF Tick, Resumed
  <2>2. Stays
    BY <1>0, <2>1, TailTurn DEF TailInv
  <2> QED  BY <2>1, <2>2 DEF TailInv
<1>4. CASE Exit
  <2>1. phase' # "boot"
    BY <1>4 DEF Exit, Terminate, Resumed
  <2>2. phase' = "user" => Stays
    BY <1>4, TailExit
  <2> QED  BY <2>1, <2>2 DEF TailInv
<1>5. ASSUME NEW t \in Task, BootLoad(t) PROVE TailInv'
  <2>1. /\ phase = "boot" /\ phase' = "boot" /\ list' = TaskNew(list, t)
        /\ t \notin live /\ live' = live \cup {t}
    BY <1>5 DEF BootLoad, Spawn, Allocate, Returned
  <2>2. PICK p : Whole(list, live, p)
    BY <2>1 DEF TailInv
  <2>3. Whole(list', live', Append(p, t))
    BY <1>0, <2>1, <2>2, WholeNew
  <2> QED  BY <2>1, <2>3 DEF TailInv
<1>6. ASSUME NEW t \in Task, StartProgram(t) PROVE TailInv'
  <2>1. /\ phase = "user" /\ phase' = "user" /\ list' = TaskSwitch(TaskNew(list, t), t)
        /\ t \notin live /\ live' = live \cup {t}
    BY <1>6 DEF StartProgram, Exec, Allocate
  <2>2. Stays
    BY <2>1, TailNew
  <2> QED  BY <2>1, <2>2 DEF TailInv
<1>7. ASSUME NEW t \in Task, StartFails(t) PROVE TailInv'
  <2>1. phase = "user"
    BY <1>7 DEF StartFails
  <2>2. CASE Spawn(t)
    <3>1. /\ list' = TaskNew(list, t) /\ t \notin live /\ live' = live \cup {t}
          /\ phase' = "user" => list'.current = list.current
          /\ phase' # "boot"
      BY <2>1, <2>2 DEF Spawn, Allocate, Returned
    <3>2. phase' = "user" => Stays
      BY <2>1, <3>1, TailNew
    <3> QED  BY <3>1, <3>2 DEF TailInv
  <2>3. CASE FailToMap(t)
    <3>1. /\ list' = TaskListRemove(TaskNew(list, t), t) /\ t \notin live /\ live' = live
          /\ phase' = "user" => list'.current = list.current
          /\ phase' # "boot"
      BY <2>1, <2>3 DEF FailToMap, Returned
    <3>2. phase' = "user" => Stays
      BY <2>1, <3>1, TailFails
    <3> QED  BY <3>1, <3>2 DEF TailInv
  <2> QED  BY <1>7, <2>2, <2>3 DEF StartFails
<1>8. CASE UNCHANGED vars
  <2>1. list' = list /\ live' = live /\ phase' = phase
    BY <1>8 DEF vars
  <2> QED  BY <2>1 DEF TailInv
<1> QED
  BY <1>1, <1>2, <1>3, <1>4, <1>5, <1>6, <1>7, <1>8 DEF Next

\* Also when the list has lost tasks or has freed ones in it, task_new never
\* writes through a null task_tail (TailIfHead).
THEOREM TailCorrect == Spec => []TailIfHead
<1>1. IInv /\ TailInv => TailIfHead
  <2> SUFFICES ASSUME IInv, TailInv, phase = "user", list.tail = NULL PROVE FALSE
    BY DEF TailIfHead
  <2>1. ASSUME NEW p, Whole(list, live, p), list.current \in ToSet(p) PROVE FALSE
    <3>1. p \in Seq(Task) /\ EndsMatch(list, p) /\ p # <<>>
      BY <2>1 DEF Whole, Represents, ToSet
    <3>2. list.tail = p[Len(p)] /\ Len(p) \in 1 .. Len(p)
      BY <3>1 DEF EndsMatch
    <3> QED  BY <3>1, <3>2, NullIsNoTask
  <2>2. ~ IsBroken(list, live)
    BY DEF IsBroken, Broken
  <2> QED  BY <2>1, <2>2 DEF TailInv
<1> QED  BY InitIInv, NextIInv, TailStart, TailStays, <1>1, PTL DEF Spec

-----------------------------------------------------------------------------
(* The pointer code implements the queue of RoundRobin, for every set of    *)
(* addresses and every number of processes.                                 *)

\* The operators on queues are the same ones in both specifications.
LEMMA SameQueues ==
  ASSUME NEW q, NEW t
  PROVE  /\ RR!ToSet(q) = ToSet(q)
         /\ RR!TurnAfter(q, t) = TurnAfter(q, t)
         /\ RR!Without(q, t) = Without(q, t)
         /\ RR!Behind(q, t) = Behind(q, t)
  BY DEF RR!ToSet, ToSet, RR!TurnAfter, TurnAfter, RR!Position, Position,
         RR!Without, Without, RR!RemoveAt, RemoveAt, RR!Behind, Behind

\* The facts of the invariant that the mapping of a sound state needs.
LEMMA SoundState ==
  ASSUME IInv, sound
  PROVE  /\ list \in TaskLists /\ live \in SUBSET Task /\ queue \in Seq(Task)
         /\ ToSet(queue) = live /\ Distinct(queue)
         /\ Represents(list, queue, orphans)
         /\ phase \in {"boot", "user", "panic"}
         /\ phase = "user" => list.current \in live /\ queue # <<>>
<1>1. phase = "user" => list.current \in ToSet(queue)
  BY DEF IInv, TypeOK, RunsATask
<1>2. phase = "user" => queue # <<>>
  BY <1>1 DEF ToSet
<1> QED  BY <1>2 DEF IInv, TypeOK, ListIsQueue, RunsATask

LEMMA BootLoadMaps ==
  ASSUME IInv, NEW t \in Task, BootLoad(t), sound
  PROVE  RR!Load(t)
<1>1. /\ phase = "boot" /\ phase' = "boot" /\ sound' = sound
      /\ t \notin live /\ queue' = Append(queue, t) /\ orphans' = orphans
  BY DEF BootLoad, Spawn, Allocate, Returned
<1> QED  BY <1>1, SoundState, SameQueues DEF RR!Load, Mode, Running

LEMMA BootFailMaps ==
  ASSUME IInv, BootFail, sound
  PROVE  RR!Halt
  BY DEF BootFail, history, RR!Halt, Mode, Running

LEMMA RunFirstMaps ==
  ASSUME IInv, RunFirst, sound
  PROVE  RR!Start
<1>1. /\ phase = "boot" /\ Cardinality(live) = BootTasks
      /\ list' = TaskSwitch(list, list.head)
      /\ phase' = Resumed(list', live)
      /\ queue' = queue /\ orphans' = orphans /\ sound' = sound
  BY DEF RunFirst, history
<1>2. live # {}
  BY <1>1, BoundsAssumption, FS_EmptySet
<1>3. queue # <<>> /\ queue[1] \in live
  BY <1>2, SoundState DEF ToSet
<1>4. list.head = queue[1] /\ list'.current = list.head
  BY <1>1, <1>3, SoundState DEF Represents, EndsMatch, TaskSwitch, TaskLists
<1>5. phase' = "user"
  BY <1>1, <1>3, <1>4 DEF Resumed
<1> QED  BY <1>1, <1>3, <1>4, <1>5 DEF RR!Start, Mode, Running

LEMMA TickMaps ==
  ASSUME IInv, Tick, sound
  PROVE  RR!Slice
<1>1. /\ phase = "user" /\ list' = TaskNext(list) /\ phase' = Resumed(list', live)
      /\ queue' = queue /\ orphans' = orphans /\ sound' = sound
  BY DEF Tick, history
<1>2. /\ list'.current = TurnAfter(queue, list.current)
      /\ list'.current \in live
  BY <1>1, SoundState, TaskNextSound
<1>3. phase' = "user"
  BY <1>1, <1>2 DEF Resumed
<1> QED  BY <1>1, <1>2, <1>3, SameQueues DEF RR!Slice, Mode, Running

LEMMA StartProgramMaps ==
  ASSUME IInv, NEW t \in Task, StartProgram(t), sound
  PROVE  RR!LoadAndRun(t)
<1>1. /\ phase = "user" /\ phase' = phase /\ sound' = sound
      /\ t \notin live /\ queue' = Append(queue, t) /\ orphans' = orphans
      /\ list' = TaskSwitch(TaskNew(list, t), t)
  BY DEF StartProgram, Exec, Allocate
<1>2. list'.current = t
  BY <1>1, SoundState, NewTyped DEF TaskSwitch, TaskLists
<1> QED  BY <1>1, <1>2, SoundState, SameQueues DEF RR!LoadAndRun, Mode, Running

\* A load that fails before process_switch is invisible; one that fails after
\* it loads a program that does not get the CPU.
LEMMA StartFailsMaps ==
  ASSUME IInv, IInv', NEW t \in Task, StartFails(t), sound
  PROVE  RR!Load(t) \/ UNCHANGED RR!vars
<1>1. phase = "user" /\ sound' = sound
  BY DEF StartFails, Spawn, Allocate, FailToMap, history
<1>2. phase' = "user" /\ list'.current = list.current
  <2>1. phase' = Returned(list')
    BY DEF StartFails, Spawn, FailToMap
  <2>2. phase' # "undefined"
    BY <1>1 DEF IInv, RunsATask
  <2> QED  BY <1>1, <2>1, <2>2 DEF Returned
<1>3. Running' = Running /\ Mode' = Mode /\ Mode = "run"
  BY <1>1, <1>2 DEF Running, Mode
<1>4. CASE Spawn(t)
  BY <1>3, <1>4, SoundState, SameQueues DEF RR!Load, Spawn, Allocate
<1>5. CASE FailToMap(t)
  BY <1>3, <1>5 DEF FailToMap, history, RR!vars
<1> QED  BY <1>4, <1>5 DEF StartFails

LEMMA ExitMaps ==
  ASSUME IInv, Exit, sound
  PROVE  RR!Leave
<1> DEFINE t == list.current
           halts == live = {t}
           freed == TaskListRemove(list, t)
           after == IF halts \/ freed.current = NULL THEN freed ELSE TaskNext(freed)
<1>1. /\ phase = "user"
      /\ live' = live \ {t} /\ list' = after
      /\ phase' = IF halts THEN "panic" ELSE Resumed(after, live')
      /\ queue' = Without(queue, t)
      /\ orphans' = (orphans \cup Behind(queue, t)) \ {t}
      /\ sound' = (t \notin orphans)
  BY DEF Exit, Terminate, Kept
<1>2. /\ list \in TaskLists /\ queue \in Seq(Task) /\ Distinct(queue)
      /\ ToSet(queue) = live /\ t \in live /\ live \in SUBSET Task
      /\ Len(queue) \in Nat \ {0}
      /\ Represents(list, queue, orphans)
  BY <1>1, SoundState
<1>3. /\ queue' \in Seq(Task) /\ ToSet(queue') = live'
      /\ freed \in TaskLists
  BY <1>1, <1>2, WithoutValue, RemoveFields
<1>4. /\ Mode = "run" /\ Running = t
      /\ RR!Without(queue, t) = queue'
      /\ (orphans \cup RR!Behind(queue, t)) \ {t} = orphans'
  BY <1>1, SameQueues DEF Mode, Running
<1>5. CASE t \in orphans
  <2>1. Mode' = "lost" /\ Running' = NULL
    BY <1>1, <1>5 DEF Mode, Running
  <2> QED  BY <1>4, <1>5, <2>1 DEF RR!Leave
<1>6. CASE t \notin orphans /\ Len(queue) = 1
  <2>1. halts
    BY <1>2, <1>6 DEF ToSet
  <2>2. Mode' = "halted" /\ Running' = NULL
    BY <1>1, <1>6, <2>1 DEF Mode, Running
  <2> QED  BY <1>4, <1>6, <2>2 DEF RR!Leave
<1>7. CASE t \notin orphans /\ Len(queue) # 1
  <2>1. /\ freed.current = TurnAfter(queue, t)
        /\ freed.current \in ToSet(queue')
    BY <1>1, <1>2, <1>7, RemoveCurrent
  <2>2. ~halts /\ freed.current # NULL
    <3>1. freed.current \in live \ {t}
      BY <1>1, <1>3, <2>1
    <3> QED  BY <1>2, <3>1, NullIsNoTask
  <2>3. Represents(freed, queue', orphans')
    BY <1>1, <1>2, <1>7, RemoveRepresents
  <2> HIDE DEF freed
  <2>4. /\ TaskNext(freed).current = TurnAfter(queue', freed.current)
        /\ TaskNext(freed).current \in ToSet(queue')
    BY <1>3, <2>1, <2>3, TaskNextSound
  <2>5. phase' = "user" /\ list' = TaskNext(freed) /\ sound'
    BY <1>1, <1>3, <1>7, <2>2, <2>4 DEF Resumed
  <2>6. Mode' = "run" /\ Running' = TurnAfter(queue', TurnAfter(queue, t))
    BY <2>1, <2>4, <2>5 DEF Mode, Running
  <2>7. Running' = RR!TurnAfter(queue', RR!TurnAfter(queue, t)) /\ Len(queue) > 1
    <3>1. RR!TurnAfter(queue, t) = TurnAfter(queue, t)
      BY SameQueues
    <3>2. \A q, x : RR!TurnAfter(q, x) = TurnAfter(q, x)
      BY SameQueues
    <3>3. Len(queue) > 1
      <4>1. Len(queue) \in Nat \ {0} /\ Len(queue) # 1
        BY <1>2, <1>7
      <4>2. \A n \in Nat \ {0} : n # 1 => n > 1
        OBVIOUS
      <4> QED  BY <4>1, <4>2, Zenon
    <3>4. Running' = RR!TurnAfter(queue', TurnAfter(queue, t))
      BY <2>6, <3>2, Zenon
    <3> QED  BY <3>1, <3>3, <3>4, Zenon
  <2> HIDE DEF t, halts, after
  <2> QED  BY <1>4, <1>7, <2>6, <2>7 DEF RR!Leave
<1> QED  BY <1>5, <1>6, <1>7

\* Once an orphan has been freed, nothing is promised.
LEMMA LostMaps ==
  ASSUME IInv, [Next]_vars, ~sound
  PROVE  RR!Lost
<1>1. ~sound'
  BY DEF Next, BootFail, RunFirst, Tick, Exit, Terminate, BootLoad, StartProgram,
         StartFails, Spawn, Exec, FailToMap, Allocate, history, vars
<1> QED  BY <1>1 DEF RR!Lost, Mode, Running

\* The pointer code of task.c, driven by the timer, the system calls and the
\* exceptions, implements the abstract round robin (RoundRobinSpec).
THEOREM Refinement == Spec => RoundRobinSpec
<1>1. Init => RR!Init
  <2> SUFFICES ASSUME Init PROVE RR!Init
    OBVIOUS
  <2> QED  BY DEF Init, RR!Init, Mode, Running
<1>2. IInv /\ IInv' /\ [Next]_vars => [RR!Next]_(RR!vars)
  <2> SUFFICES ASSUME IInv, IInv', [Next]_vars PROVE [RR!Next]_(RR!vars)
    OBVIOUS
  <2>1. CASE ~sound
    BY <2>1, LostMaps DEF RR!Next
  <2>2. CASE sound
    <3>1. CASE BootFail
      BY <2>2, <3>1, BootFailMaps DEF RR!Next
    <3>2. CASE RunFirst
      BY <2>2, <3>2, RunFirstMaps DEF RR!Next
    <3>3. CASE Tick
      BY <2>2, <3>3, TickMaps DEF RR!Next
    <3>4. CASE Exit
      BY <2>2, <3>4, ExitMaps DEF RR!Next
    <3>5. ASSUME NEW t \in Task, BootLoad(t) PROVE RR!Next
      BY <2>2, <3>5, BootLoadMaps DEF RR!Next
    <3>6. ASSUME NEW t \in Task, StartProgram(t) PROVE RR!Next
      BY <2>2, <3>6, StartProgramMaps DEF RR!Next
    <3>7. ASSUME NEW t \in Task, StartFails(t) PROVE [RR!Next]_(RR!vars)
      BY <2>2, <3>7, StartFailsMaps DEF RR!Next
    <3>8. CASE UNCHANGED vars
      BY <3>8 DEF vars, RR!vars, Running, Mode
    <3> QED  BY <3>1, <3>2, <3>3, <3>4, <3>5, <3>6, <3>7, <3>8 DEF Next
  <2> QED  BY <2>1, <2>2
<1> QED  BY <1>1, <1>2, InitIInv, NextIInv, PTL DEF Spec, RoundRobinSpec, RR!Spec

-----------------------------------------------------------------------------
(* The process table and the focus. *)

\* A set of natural numbers has a least element.
LEMMA LeastElement ==
  ASSUME NEW S \in SUBSET Nat, S # {}
  PROVE  \E x \in S : \A y \in S : x <= y
<1> DEFINE R == OpToRel(<, Nat)
<1>1. IsWellFoundedOn(R, Nat)
  BY NatLessThanWellFounded
<1>2. \A x, y \in Nat : <<y, x>> \in R <=> y < x
  BY DEF OpToRel
<1> HIDE DEF R
<1>3. PICK x \in S : \A y \in S : ~ (<<y, x>> \in R)
  BY <1>1, WFMin
<1>4. \A y \in S : ~ (y < x) /\ x \in Nat /\ y \in Nat
  BY <1>2, <1>3, Zenon
<1>5. \A y \in S : x <= y
  BY <1>4
<1> QED  BY <1>5

LEMMA MinValue ==
  ASSUME NEW S \in SUBSET Nat, S # {}
  PROVE  Min(S) \in S /\ \A y \in S : Min(S) <= y
BY LeastElement DEF Min

LEMMA SlotsAreNatural == Slots \in SUBSET Nat /\ IsFiniteSet(Slots)
<1>1. MaxProcesses - 1 \in Int
  BY BoundsAssumption
<1>2. IsFiniteSet(Slots)
  BY <1>1, FS_Interval DEF Slots
<1>3. Slots \in SUBSET Nat
  BY BoundsAssumption DEF Slots
<1> QED  BY <1>2, <1>3

-----------------------------------------------------------------------------
(* The inductive invariant.  TableIsLive does not exclude that two slots    *)
(* hold one task, of which an exit would clear only one: that is            *)
(* SlotsAreTheirs.  And the focus that the first program finds was set      *)
(* while kernel_main loaded the last one (BootFocus).                       *)

\* task->process of the task in a slot is the process in that slot.
SlotsAreTheirs == \A s \in Used(processes) : process[processes[s]] = s

BootFocus ==
  phase = "boot" /\ Cardinality(live) = BootTasks => current_process \in Used(processes)

KInv == IInv /\ TableIsLive /\ SlotsAreTheirs /\ FocusIsLoaded /\ BootFocus

\* What the invariant says of the table, in the form that the steps use.
TableFacts ==
  /\ live \in SUBSET Task /\ NULL \notin live /\ IsFiniteSet(live)
  /\ processes \in [Slots -> Pointer]
  /\ process \in [Task -> Slots \cup {None}]
  /\ current_process \in Slots \cup {None}
  /\ Used(processes) = {s \in Slots : processes[s] # NULL}
  /\ \A s \in Used(processes) : processes[s] \in live /\ process[processes[s]] = s
  /\ \A t \in live : process[t] \in Used(processes) /\ processes[process[t]] = t

LEMMA LiveIsFinite == TypeOK => IsFiniteSet(live)
<1> SUFFICES ASSUME TypeOK PROVE IsFiniteSet(live)
  OBVIOUS
<1>1. queue \in Seq(Task) /\ live = {queue[i] : i \in 1 .. Len(queue)} /\ Len(queue) \in Nat
  BY DEF TypeOK, ToSet
<1>2. IsFiniteSet(1 .. Len(queue))
  BY <1>1, FS_Interval
<1> DEFINE f == [i \in 1 .. Len(queue) |-> queue[i]]
<1>3. f \in Surjection(1 .. Len(queue), live)
  BY <1>1 DEF Surjection
<1> QED  BY <1>2, <1>3, FS_Surjection

LEMMA Facts == KInv => TableFacts
<1> SUFFICES ASSUME KInv PROVE TableFacts
  OBVIOUS
<1>1. /\ live \in SUBSET Task /\ NULL \notin live /\ IsFiniteSet(live)
  BY LiveIsFinite, NullIsNoTask DEF KInv, IInv, TypeOK
<1>2. Used(processes) = {s \in Slots : processes[s] # NULL}
  BY DEF Used, Free
<1>3. \A s \in Used(processes) : processes[s] \in live /\ process[processes[s]] = s
  BY DEF KInv, TableIsLive, SlotsAreTheirs
<1>4. \A t \in live : process[t] \in Slots /\ processes[process[t]] = t
  BY DEF KInv, TableIsLive
<1>5. \A t \in live : process[t] \in Used(processes)
  BY <1>1, <1>2, <1>4
<1> QED  BY <1>1, <1>2, <1>3, <1>4, <1>5 DEF KInv, TableIsLive, TableFacts

\* There and back: the table's part of the invariant follows from the facts.
LEMMA FromFacts == TableFacts => TableIsLive /\ SlotsAreTheirs
<1> SUFFICES ASSUME TableFacts PROVE TableIsLive /\ SlotsAreTheirs
  OBVIOUS
<1>1. {processes[s] : s \in Used(processes)} = live
  BY DEF TableFacts
<1>2. \A t \in live : process[t] \in Slots
  BY DEF TableFacts
<1> QED  BY <1>1, <1>2 DEF TableFacts, TableIsLive, SlotsAreTheirs

\* A free slot means that fewer than MaxProcesses programs are loaded.
LEMMA FreeSlotMeansRoom ==
  ASSUME TableFacts, Free(processes) # {}
  PROVE  HasSlot
<1> DEFINE U == Used(processes)
           f == [t \in live |-> process[t]]
<1>1. f \in Injection(live, U)
  <2>1. f \in [live -> U]
    BY DEF TableFacts
  <2>2. \A t, u \in live : f[t] = f[u] => t = u
    BY DEF TableFacts
  <2> QED  BY <2>1, <2>2 DEF Injection, IsInjective
<1>2. IsFiniteSet(Slots) /\ U \in SUBSET Slots /\ U # Slots
  BY SlotsAreNatural DEF Used, Free
<1>3. IsFiniteSet(U) /\ Cardinality(U) <= Cardinality(Slots) /\ Cardinality(U) # Cardinality(Slots)
  BY <1>2, FS_Subset
<1>4. Cardinality(Slots) = MaxProcesses
  <2>1. 0 \in Int /\ MaxProcesses - 1 \in Int
    BY BoundsAssumption
  <2>2. Cardinality(Slots) = IF 0 > MaxProcesses - 1 THEN 0 ELSE MaxProcesses - 1 - 0 + 1
    BY <2>1, FS_Interval, Zenon DEF Slots
  <2> QED  BY <2>2, BoundsAssumption
<1>5. Cardinality(live) <= Cardinality(U)
  BY <1>1, <1>3, FS_Injection
<1>6. Cardinality(live) \in Nat /\ Cardinality(U) \in Nat
  BY <1>3, FS_CardinalityType DEF TableFacts
<1> QED  BY <1>3, <1>4, <1>5, <1>6, BoundsAssumption DEF HasSlot

\* With the keyboard on a loaded program, process_switch_to_any has nothing
\* left exactly if the task that exits is the last one.
LEMMA NothingLeftIsLast ==
  ASSUME TableFacts, NEW t \in live, current_process \in Used(processes)
  PROVE  NothingLeft(process[t]) <=> live = {t}
<1>1. live = {t} => NothingLeft(process[t])
  BY DEF NothingLeft, TableFacts
<1>2. NothingLeft(process[t]) => live = {t}
  BY DEF NothingLeft, TableFacts
<1> QED  BY <1>1, <1>2

-----------------------------------------------------------------------------
(* The steps. *)

\* A program gets a slot: process_load_for_slot when nothing fails.
LEMMA EnterStep ==
  ASSUME TableFacts, NEW t \in Task, Allocate(t), Enter(t),
         UNCHANGED current_process \/ SwitchToLoaded
  PROVE  /\ TableFacts'
         /\ process'[t] = FreeSlot /\ t \in live' \ live
         /\ Used(processes) \subseteq Used(processes')
         /\ FreeSlot \in Used(processes')
         /\ Cardinality(live') = Cardinality(live) + 1
<1> DEFINE f == FreeSlot
<1>1. f \in Slots /\ processes[f] = NULL
  <2>1. Free(processes) \in SUBSET Nat /\ Free(processes) # {}
    BY SlotsAreNatural DEF Free, Enter
  <2> QED  BY <2>1, MinValue DEF FreeSlot, Free
<1>2. /\ processes' = [processes EXCEPT ![f] = t]
      /\ process' = [process EXCEPT ![t] = f]
      /\ t \notin live /\ live' = live \cup {t}
      /\ current_process' = current_process \/ current_process' = f
  BY DEF Enter, Allocate, SwitchToLoaded
<1> HIDE DEF f
<1>3. t # NULL /\ t \in Pointer
  BY NullIsNoTask DEF Pointer
<1>4. Used(processes') = Used(processes) \cup {f} /\ f \notin Used(processes)
  BY <1>1, <1>2, <1>3 DEF Used, Free, TableFacts
<1>5. IsFiniteSet(live') /\ Cardinality(live') = Cardinality(live) + 1
  BY <1>2, FS_AddElement DEF TableFacts
<1>6. /\ processes' \in [Slots -> Pointer]
      /\ process' \in [Task -> Slots \cup {None}]
      /\ current_process' \in Slots \cup {None}
  BY <1>1, <1>2, <1>3 DEF TableFacts
<1>7. \A s \in Used(processes') : processes'[s] \in live' /\ process'[processes'[s]] = s
  <2> TAKE s \in Used(processes')
  <2>1. CASE s = f
    BY <1>1, <1>2, <2>1 DEF TableFacts
  <2>2. CASE s # f
    <3>1. /\ s \in Used(processes) /\ processes'[s] = processes[s]
          /\ processes[s] \in live /\ process[processes[s]] = s
      BY <1>2, <1>4, <2>2 DEF TableFacts
    <3> QED  BY <1>2, <3>1 DEF TableFacts
  <2> QED  BY <2>1, <2>2
<1>8. \A u \in live' : process'[u] \in Used(processes') /\ processes'[process'[u]] = u
  <2> TAKE u \in live'
  <2>1. CASE u = t
    BY <1>1, <1>2, <1>4, <2>1 DEF TableFacts
  <2>2. CASE u # t
    <3>1. /\ u \in live /\ process'[u] = process[u]
          /\ process[u] \in Used(processes) /\ processes[process[u]] = u
      BY <1>2, <2>2 DEF TableFacts
    <3> QED  BY <1>2, <1>4, <3>1 DEF TableFacts
  <2> QED  BY <2>1, <2>2
<1>9. Used(processes') = {s \in Slots : processes'[s] # NULL}
  BY DEF Used, Free
<1>10. live' \in SUBSET Task /\ NULL \notin live'
  BY <1>2, <1>3 DEF TableFacts
<1>11. process'[t] = f /\ t \in live' \ live
  BY <1>2 DEF TableFacts
<1> QED
  BY <1>4, <1>5, <1>6, <1>7, <1>8, <1>9, <1>10, <1>11 DEF TableFacts, f

\* A program leaves its slot, and the focus goes to a program that is left.
LEMMA UnlinkStep ==
  ASSUME TableFacts, NEW t \in live, live' = live \ {t}, Unlink(process[t])
  PROVE  /\ TableFacts'
         /\ processes'[process[t]] = NULL
         /\ current_process' # current_process => current_process = process[t]
         /\ current_process \in Used(processes) /\ live # {t} =>
              current_process' \in Used(processes')
<1> DEFINE s == process[t]
<1>1. s \in Used(processes) /\ s \in Slots /\ processes[s] = t
  BY DEF TableFacts
<1>2. /\ processes' = [processes EXCEPT ![s] = NULL] /\ process' = process
      /\ current_process' = IF current_process = s THEN SwitchToAny(processes')
                            ELSE current_process
  BY DEF Unlink
<1> HIDE DEF s
<1>3. Used(processes') = Used(processes) \ {s}
  BY <1>1, <1>2 DEF Used, Free, TableFacts
<1>4. IsFiniteSet(live')
  BY FS_RemoveElement DEF TableFacts
<1>5. processes' \in [Slots -> Pointer]
  BY <1>2 DEF TableFacts, Pointer
<1>6. Used(processes') # {} => SwitchToAny(processes') \in Used(processes')
  <2>1. Used(processes') \in SUBSET Nat
    BY SlotsAreNatural DEF Used
  <2> QED  BY <2>1, MinValue DEF SwitchToAny
<1>7. current_process' \in Slots \cup {None}
  <2>1. SwitchToAny(processes') \in Slots \cup {None}
    BY <1>6 DEF SwitchToAny, Used, TableFacts
  <2> QED  BY <1>2, <2>1 DEF TableFacts
<1>8. \A x \in Used(processes') : processes'[x] \in live' /\ process'[processes'[x]] = x
  BY <1>1, <1>2, <1>3 DEF TableFacts
<1>9. \A u \in live' : process'[u] \in Used(processes') /\ processes'[process'[u]] = u
  BY <1>1, <1>2, <1>3 DEF TableFacts
<1>10. Used(processes') = {x \in Slots : processes'[x] # NULL}
  BY DEF Used, Free
<1>11. TableFacts'
  BY <1>2, <1>4, <1>5, <1>7, <1>8, <1>9, <1>10 DEF TableFacts
<1>12. current_process \in Used(processes) /\ live # {t} =>
         current_process' \in Used(processes')
  <2> SUFFICES ASSUME current_process \in Used(processes), live # {t}
               PROVE  current_process' \in Used(processes')
    OBVIOUS
  <2>1. Used(processes') # {}
    BY <1>1, <1>9
  <2> QED  BY <1>2, <1>3, <1>6, <2>1
<1>13. processes'[s] = NULL
  BY <1>1, <1>2 DEF TableFacts
<1> QED  BY <1>2, <1>11, <1>12, <1>13 DEF s

\* The rest of the invariant, one step later: from the table's facts and the
\* focus.
LEMMA Assembled ==
  ASSUME IInv', TableFacts', FocusIsLoaded', BootFocus'
  PROVE  KInv'
<1>1. TableIsLive' /\ SlotsAreTheirs'
  BY FromFacts, PTL
<1> QED  BY <1>1 DEF KInv

\* process_load by kernel_main.
LEMMA LoadAtBootStep ==
  ASSUME KInv, NEW t \in Task, LoadAtBoot(t)
  PROVE  Next /\ KInv'
<1>1. /\ phase = "boot" /\ Cardinality(live) < BootTasks
      /\ Spawn(t) /\ Allocate(t) /\ Enter(t)
      /\ IF Cardinality(live) + 1 = BootTasks THEN SwitchToLoaded ELSE UNCHANGED current_process
      /\ phase' = "boot"
  BY DEF LoadAtBoot, Spawn, Returned
<1>2. Next
  BY <1>1 DEF Next, BootLoad
<1>3. IInv'
  BY <1>2, NextIInv DEF KInv
<1>4. /\ TableFacts' /\ FreeSlot \in Used(processes')
      /\ Cardinality(live') = Cardinality(live) + 1
  BY <1>1, Facts, EnterStep
<1>5. FocusIsLoaded' /\ BootFocus'
  BY <1>1, <1>4 DEF FocusIsLoaded, BootFocus, SwitchToLoaded
<1> QED  BY <1>2, <1>3, <1>4, <1>5, Assembled

\* Commands 6 and 7 that load a program, with and without its arguments.
LEMMA StartStep ==
  ASSUME KInv, NEW t \in Task, StartCommand(t) \/ StartWithoutArguments(t)
  PROVE  Next /\ KInv'
<1>1. /\ phase = "user" /\ phase' \in {"user", "undefined"}
  BY DEF StartCommand, StartWithoutArguments, Exec, Spawn, Returned
<1>2. Allocate(t) /\ Enter(t) /\ SwitchToLoaded /\ (Exec(t) \/ Spawn(t))
  BY DEF StartCommand, StartWithoutArguments, Exec, Spawn
<1>3. HasSlot
  BY <1>2, Facts, FreeSlotMeansRoom DEF Enter
<1>4. Next
  BY <1>1, <1>2, <1>3 DEF Next, StartProgram, StartFails
<1>5. IInv'
  BY <1>4, NextIInv DEF KInv
<1>6. TableFacts' /\ FreeSlot \in Used(processes')
  BY <1>2, Facts, EnterStep
<1>7. FocusIsLoaded' /\ BootFocus'
  BY <1>1, <1>2, <1>6 DEF FocusIsLoaded, BootFocus, SwitchToLoaded
<1> QED  BY <1>4, <1>5, <1>6, <1>7, Assembled

\* A step of the scheduler that leaves table and tasks alone, from a state in
\* which the focus is where it will be needed.
LEMMA QuietStep ==
  ASSUME KInv, Next, UNCHANGED <<live, table>>,
         phase' = "user" => current_process \in Used(processes),
         phase' # "boot"
  PROVE  KInv'
<1>1. IInv'
  BY NextIInv DEF KInv
<1>2. processes' = processes /\ current_process' = current_process /\ process' = process
  BY DEF table
<1>3. TableFacts'
  BY <1>2, Facts DEF TableFacts
<1>4. FocusIsLoaded' /\ BootFocus'
  BY <1>2 DEF FocusIsLoaded, BootFocus
<1> QED  BY <1>1, <1>3, <1>4, Assembled

\* The scheduler's own steps, and a load that fails after task_new.
LEMMA RunStep ==
  ASSUME KInv, BootFails \/ Run \/ \E t \in Task : StartUnmapped(t)
  PROVE  Next /\ KInv'
<1>1. CASE BootFails
  <2>1. Next /\ UNCHANGED <<live, table>> /\ phase' = "panic"
    BY <1>1 DEF BootFails, BootFail, Next
  <2> QED  BY <2>1, QuietStep
<1>2. CASE Run
  <2>1. Next /\ UNCHANGED <<live, table>> /\ phase' \in {"user", "undefined"}
    BY <1>2 DEF Run, RunFirst, Tick, Next, Resumed
  <2>2. current_process \in Used(processes)
    BY <1>2 DEF Run, RunFirst, Tick, KInv, FocusIsLoaded, BootFocus
  <2> QED  BY <2>1, <2>2, QuietStep
<1>3. ASSUME NEW t \in Task, StartUnmapped(t) PROVE Next /\ KInv'
  <2>1. /\ phase = "user" /\ Free(processes) # {} /\ FailToMap(t)
        /\ UNCHANGED <<live, table>> /\ phase' \in {"user", "undefined"}
    BY <1>3 DEF StartUnmapped, FailToMap, Returned
  <2>2. Next
    BY <2>1, Facts, FreeSlotMeansRoom DEF Next, StartFails
  <2>3. current_process \in Used(processes)
    BY <2>1 DEF KInv, FocusIsLoaded
  <2> QED  BY <2>1, <2>2, <2>3, QuietStep
<1> QED  BY <1>1, <1>2, <1>3

\* Command 9 and the exceptions: the table decides rightly when to panic.
LEMMA ExitCommandStep ==
  ASSUME KInv, ExitCommand
  PROVE  /\ Next /\ KInv'
         /\ current_process' # current_process => processes'[current_process] = NULL
<1> DEFINE t == list.current
           s == process[t]
<1>1. phase = "user" /\ Terminate(t, NothingLeft(s)) /\ Unlink(s)
  BY DEF ExitCommand
<1>2. t \in live /\ current_process \in Used(processes)
  BY <1>1 DEF KInv, IInv, RunsATask, FocusIsLoaded
<1>3. TableFacts /\ (NothingLeft(s) <=> live = {t})
  BY <1>2, Facts, NothingLeftIsLast
<1>4. Exit
  BY <1>1, <1>3 DEF Exit, Terminate
<1>5. IInv'
  BY <1>4, NextIInv DEF KInv, Next
<1>6. live' = live \ {t}
  BY <1>1 DEF Terminate, Kept
<1>7. /\ TableFacts' /\ processes'[s] = NULL
      /\ current_process' # current_process => current_process = s
      /\ live # {t} => current_process' \in Used(processes')
  BY <1>1, <1>2, <1>3, <1>6, UnlinkStep
<1>8. phase' \in {"user", "undefined", "panic"} /\ (live = {t} => phase' = "panic")
  BY <1>1, <1>3 DEF Terminate, Resumed
<1>9. FocusIsLoaded' /\ BootFocus'
  BY <1>7, <1>8 DEF FocusIsLoaded, BootFocus
<1> QED  BY <1>4, <1>5, <1>7, <1>9, Assembled DEF Next

\* Every step of the kernel is a step of the scheduler, and keeps the invariant.
LEMMA KernelStep ==
  KInv /\ [KernelNext]_kernelVars => [Next]_vars /\ KInv'
<1> SUFFICES ASSUME KInv, [KernelNext]_kernelVars PROVE [Next]_vars /\ KInv'
  OBVIOUS
<1>1. CASE BootFails \/ Run \/ \E t \in Task : StartUnmapped(t)
  BY <1>1, RunStep
<1>2. CASE ExitCommand
  BY <1>2, ExitCommandStep
<1>3. ASSUME NEW t \in Task, LoadAtBoot(t) PROVE Next /\ KInv'
  BY <1>3, LoadAtBootStep
<1>4. ASSUME NEW t \in Task, StartCommand(t) \/ StartWithoutArguments(t) PROVE Next /\ KInv'
  BY <1>4, StartStep
<1>5. CASE UNCHANGED kernelVars
  <2>1. /\ vars' = vars /\ processes' = processes /\ process' = process
        /\ current_process' = current_process
    BY <1>5 DEF kernelVars, table
  <2>2. /\ [Next]_vars /\ live' = live /\ phase' = phase
    BY <2>1 DEF vars
  <2>3. IInv'
    BY <2>2, NextIInv DEF KInv
  <2> QED
    BY <2>1, <2>2, <2>3
    DEF KInv, TableIsLive, SlotsAreTheirs, FocusIsLoaded, BootFocus
<1> QED  BY <1>1, <1>2, <1>3, <1>4, <1>5 DEF KernelNext

LEMMA KernelInitKInv == KernelInit => KInv
<1> SUFFICES ASSUME KernelInit PROVE KInv
  OBVIOUS
<1>1. IInv /\ live = {} /\ phase = "boot"
  BY InitIInv DEF KernelInit, Init
<1>2. /\ processes = [s \in Slots |-> NULL] /\ current_process = None
      /\ process = [t \in Task |-> None]
  BY DEF KernelInit
<1>3. Used(processes) = {}
  BY <1>2 DEF Used, Free
<1>4. Cardinality(live) # BootTasks
  BY <1>1, FS_EmptySet, BoundsAssumption
<1>5. {processes[s] : s \in Used(processes)} = live
  BY <1>1, <1>3
<1> QED
  BY <1>1, <1>2, <1>3, <1>4, <1>5
  DEF KInv, TableIsLive, SlotsAreTheirs, FocusIsLoaded, BootFocus, Pointer

LEMMA KernelInvariant == KernelSpec => []KInv
BY KernelInitKInv, KernelStep, PTL DEF KernelSpec

\* Every loaded program has exactly one slot and no slot outlives its task, for
\* every number of slots (TableIsLive).
THEOREM TableCorrect == KernelSpec => []TableIsLive
<1>1. KInv => TableIsLive
  BY DEF KInv
<1> QED  BY KernelInvariant, <1>1, PTL

\* While programs run, a loaded process has the keyboard (FocusIsLoaded).
THEOREM FocusCorrect == KernelSpec => []FocusIsLoaded
<1>1. KInv => FocusIsLoaded
  BY DEF KInv
<1> QED  BY KernelInvariant, <1>1, PTL

\* With the process table deciding where a program fits and when to panic, the
\* kernel is a scheduler (SchedulerSpec), hence all that is proved of Spec holds
\* of it: in particular it implements the round robin.
THEOREM KernelIsScheduler == KernelSpec => SchedulerSpec
<1>1. KernelInit => Init
  BY DEF KernelInit
<1> QED  BY <1>1, KernelInitKInv, KernelStep, PTL DEF KernelSpec, SchedulerSpec, Spec

\* The focus moves only to a program that is being loaded, or away from one that
\* leaves (FocusMovesForAReason).
THEOREM FocusMoves == KernelSpec => FocusMovesForAReason
<1> DEFINE A == current_process' # current_process =>
                  \/ \E t \in live' \ live : process'[t] = current_process'
                  \/ processes'[current_process] = NULL
<1>1. KInv /\ [KernelNext]_kernelVars => [A]_kernelVars
  <2> SUFFICES ASSUME KInv, KernelNext, current_process' # current_process PROVE A
    OBVIOUS
  <2>1. CASE ExitCommand
    BY <2>1, ExitCommandStep
  <2>2. CASE BootFails \/ Run \/ \E t \in Task : StartUnmapped(t)
    BY <2>2 DEF BootFails, Run, StartUnmapped, table
  <2>3. ASSUME NEW t \in Task,
               LoadAtBoot(t) \/ StartCommand(t) \/ StartWithoutArguments(t)
        PROVE  A
    <3>1. Allocate(t) /\ Enter(t) /\ current_process' = FreeSlot
      BY <2>3 DEF LoadAtBoot, StartCommand, StartWithoutArguments, Exec, Spawn, SwitchToLoaded
    <3>2. process'[t] = FreeSlot /\ t \in live' \ live
      BY <3>1, Facts, EnterStep DEF SwitchToLoaded
    <3> QED  BY <3>1, <3>2
  <2> QED  BY <2>1, <2>2, <2>3 DEF KernelNext
<1> HIDE DEF A
<1>2. KernelSpec => [][A]_kernelVars
  BY <1>1, KernelInitKInv, KernelStep, PTL DEF KernelSpec
<1> QED  BY <1>2 DEF FocusMovesForAReason, A
=============================================================================
