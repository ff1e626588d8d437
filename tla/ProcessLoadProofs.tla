------------------------- MODULE ProcessLoadProofs -------------------------
(***************************************************************************)
(* Proofs about ProcessLoad, for every number of slots, every heap, every  *)
(* size of a page and a table and every set of files: whatever fails while *)
(* programs are loaded, call malloc and free and end, each block has one   *)
(* owner and one role, no file stays open, what is loaded is mapped to its *)
(* own memory, and what it may write leads to blocks that it has been      *)
(* given.                                                                  *)
(***************************************************************************)
EXTENDS ProcessLoad, KernelHeapProofs, SequenceTheorems

(***************************************************************************)
(* The inductive invariant.  PartsAreOwned speaks of the programs and of   *)
(* the one that is being loaded.  A block also belongs to a local variable *)
(* of elf_load or of copy_string_from_task until it gets its place or is   *)
(* freed, and there must not be a second owner while it does.  So the      *)
(* invariant says who holds what: "Held" gives for each process, and under *)
(* NULL for the local variables, the blocks in its roles.                  *)
(***************************************************************************)

Local ==
  <<IF pc \in {"elf_read", "validate"} THEN elf_file ELSE NULL,
    IF pc = "validate" THEN elf_memory[elf_file] ELSE NULL,
    IF pc = "copying" THEN copy.tmp ELSE NULL, NULL, NULL>>
Nothing == <<NULL, NULL, NULL, NULL, NULL>>

Held ==
  [a \in Pointer |-> IF a = NULL THEN Local ELSE IF a \in Known THEN Parts(a) ELSE Nothing]

\* Whatever is held is allocated, and held once.
Sound(held, h) ==
  \A a \in Pointer, i \in 1 .. 5 : held[a][i] # NULL =>
    /\ held[a][i] \in DOMAIN h
    /\ \A b \in Pointer, j \in 1 .. 5 : held[b][j] = held[a][i] => b = a /\ j = i

ProcessType == [filetype : {"elf"}, data : Pointer, stack : Pointer, task : Pointer]
Steps ==
  {"idle", "elf_load", "elf_read", "validate", "binary", "binary_read", "stack", "task",
   "map", "copying", "wild"}
Loading == pc \notin {"idle", "copying"}

\* TypeOK, with what it leaves open.
Types ==
  /\ TypeOK /\ HeapOK(heap)
  /\ process \in [Address -> ProcessType] /\ pc \in Steps
  /\ new.address \in Pointer /\ elf_file \in Pointer
  /\ file \in [Slots -> File \cup {NoFile}]
  /\ Loading => new.file \in File

\* No process is in the table twice, and a slot waits for the one being loaded.
Once ==
  /\ \A s, t \in Slots : processes[s] = processes[t] /\ processes[s] # NULL => s = t
  /\ Loading => processes[new.slot] = NULL /\ new.address \notin Loaded

Complete == \A a \in Loaded : \A i \in 1 .. 5 : Parts(a)[i] # NULL

\* What the process being loaded has got so far.
Progress ==
  Loading =>
    LET p == process[new.address]
    IN  /\ pc \in {"elf_load", "elf_read", "validate", "binary", "binary_read"} =>
             p.data = NULL /\ p.stack = NULL /\ p.task = NULL
        /\ pc = "stack" => p.data # NULL /\ p.stack = NULL /\ p.task = NULL
        /\ pc = "task" => p.data # NULL /\ p.stack # NULL /\ p.task = NULL
        /\ pc = "map" => /\ p.data # NULL /\ p.stack # NULL /\ p.task # NULL
                         /\ elf_memory[p.data] # NULL

\* And the local variables of elf_load.
ElfLocals ==
  /\ pc \in {"elf_read", "validate"} => elf_file # NULL
  /\ pc = "validate" => elf_memory[elf_file] # NULL

OpenWhileReading == pc \notin {"elf_read", "binary_read", "wild"} => open = {}

LInv ==
  /\ Types /\ Once /\ Complete /\ Progress /\ ElfLocals /\ OpenWhileReading
  /\ Sound(Held, heap)

\* What malloc gave to a program is allocated, nobody else's and in no role.
Kept ==
  /\ allocations \in [Slots -> SUBSET Address]
  /\ \A s \in Slots : \A x \in allocations[s] :
       /\ x \in DOMAIN heap
       /\ \A b \in Pointer, j \in 1 .. 5 : Held[b][j] # x
       /\ \A t \in Slots : x \in allocations[t] => t = s

-----------------------------------------------------------------------------
(* Lemmas about addresses and holders. *)

LEMMA Addresses ==
  /\ Address = BlockAddress /\ NULL \notin Address /\ Address \subseteq Nat
  /\ Pointer = {NULL} \cup Address
  /\ Struct \in Nat \ {0} /\ StackSize \in Nat \ {0}
  /\ \A f \in File : f.size \in Nat \ {0}
  /\ Slots \subseteq Nat /\ 0 \in Slots
<1>1. Address = BlockAddress
  BY DEF Address, BlockAddress
<1>2. NULL \notin Address /\ Address \subseteq Nat
  BY <1>1, BlockAddresses DEF NULL
<1> QED
  BY <1>1, <1>2, LoadAssumption, HeapAssumption DEF Pointer, Struct, Slots

\* The parts of a process, one by one.
LEMMA PartsAre ==
  ASSUME NEW a
  PROVE  /\ Parts(a)[1] = a /\ Parts(a)[2] = process[a].data
         /\ Parts(a)[3] = IF process[a].data = NULL THEN NULL ELSE elf_memory[process[a].data]
         /\ Parts(a)[4] = process[a].stack /\ Parts(a)[5] = process[a].task
BY DEF Parts

LEMMA FiveRoles == \A i \in 1 .. 5 : i \in {1, 2, 3, 4, 5}
OBVIOUS

LEMMA HeldBy ==
  /\ Held[NULL] = Local
  /\ \A a \in Address : Held[a] = IF a \in Known THEN Parts(a) ELSE Nothing
  /\ \A i \in 1 .. 5 : Nothing[i] = NULL
<1>1. \A i \in 1 .. 5 : Nothing[i] = NULL
  BY FiveRoles DEF Nothing
<1>2. NULL \in Pointer /\ Address \subseteq Pointer /\ NULL \notin Address
  BY Addresses
<1> QED  BY <1>1, <1>2 DEF Held

\* The processes that count are at addresses.
LEMMA KnownAddresses ==
  Types => /\ Known \subseteq Address /\ Loaded \subseteq Address
           /\ Loading => new.address \in Address
           /\ ~Loading => Known = Loaded
           /\ Loading => Known = Loaded \cup {new.address}
BY Addresses DEF Types, TypeOK, Known, Loaded, Loading

\* What a process has is allocated.
LEMMA PartsAllocated ==
  ASSUME Types, Sound(Held, heap), NEW a \in Known
  PROVE  /\ a \in DOMAIN heap
         /\ \A i \in 1 .. 5 : Parts(a)[i] # NULL => Parts(a)[i] \in DOMAIN heap
         /\ process[a].data # NULL => process[a].data \in DOMAIN heap
<1>1. a \in Address /\ a \in Pointer /\ a # NULL
  BY KnownAddresses, Addresses
<1>2. \A i \in 1 .. 5 : Parts(a)[i] # NULL => Parts(a)[i] \in DOMAIN heap
  BY <1>1, HeldBy DEF Sound
<1>3. 1 \in 1 .. 5 /\ 2 \in 1 .. 5
  OBVIOUS
<1> QED  BY <1>1, <1>2, <1>3, PartsAre

\* held2 is held but for block g in the role i of a.
Adds(held, held2, a, i, g) ==
  \A b \in Pointer, j \in 1 .. 5 :
    held2[b][j] = IF b = a /\ j = i THEN g ELSE held[b][j]

\* One more block is held: a fresh one.
LEMMA OneMore ==
  ASSUME NEW held, NEW held2, NEW h, NEW h2, Sound(held, h),
         NEW a \in Pointer, NEW i \in 1 .. 5, NEW g, g \notin DOMAIN h,
         g \in DOMAIN h2, DOMAIN h \subseteq DOMAIN h2, Adds(held, held2, a, i, g)
  PROVE  Sound(held2, h2)
<1>0. \A b \in Pointer, j \in 1 .. 5 :
        held2[b][j] = IF b = a /\ j = i THEN g ELSE held[b][j]
  BY DEF Adds
<1> SUFFICES ASSUME NEW b \in Pointer, NEW j \in 1 .. 5, held2[b][j] # NULL
             PROVE  /\ held2[b][j] \in DOMAIN h2
                    /\ \A c \in Pointer, k \in 1 .. 5 :
                         held2[c][k] = held2[b][j] => c = b /\ k = j
  BY DEF Sound
<1>1. CASE b = a /\ j = i
  <2>1. held2[b][j] = g
    BY <1>0, <1>1
  <2>2. ASSUME NEW c \in Pointer, NEW k \in 1 .. 5, held2[c][k] = g
        PROVE  c = b /\ k = j
    <3>1. CASE c = a /\ k = i
      BY <1>1, <3>1
    <3>2. CASE ~ (c = a /\ k = i)
      <4>1. held[c][k] = g /\ g # NULL
        BY <1>0, <1>1, <2>2, <3>2
      <4> QED  BY <4>1 DEF Sound
    <3> QED  BY <3>1, <3>2
  <2> QED  BY <2>1, <2>2
<1>2. CASE ~ (b = a /\ j = i)
  <2>1. held2[b][j] = held[b][j] /\ held[b][j] # NULL
    BY <1>0, <1>2
  <2>2. held[b][j] \in DOMAIN h
    BY <2>1 DEF Sound
  <2>3. ASSUME NEW c \in Pointer, NEW k \in 1 .. 5, held2[c][k] = held2[b][j]
        PROVE  c = b /\ k = j
    <3>1. held2[c][k] # g
      BY <2>1, <2>2, <2>3
    <3>2. held[c][k] = held[b][j]
      BY <1>0, <2>1, <2>3, <3>1
    <3> QED  BY <2>1, <3>2 DEF Sound
  <2> QED  BY <2>1, <2>2, <2>3
<1> QED  BY <1>1, <1>2

\* Fewer blocks are held, and those that are, are still allocated.
LEMMA Fewer ==
  ASSUME NEW held, NEW held2, NEW h, NEW h2, Sound(held, h),
         \A b \in Pointer, j \in 1 .. 5 : held2[b][j] \in {NULL, held[b][j]},
         \A b \in Pointer, j \in 1 .. 5 :
           held2[b][j] # NULL /\ held2[b][j] \in DOMAIN h => held2[b][j] \in DOMAIN h2
  PROVE  Sound(held2, h2)
<1> SUFFICES ASSUME NEW b \in Pointer, NEW j \in 1 .. 5, held2[b][j] # NULL
             PROVE  /\ held2[b][j] \in DOMAIN h2
                    /\ \A c \in Pointer, k \in 1 .. 5 :
                         held2[c][k] = held2[b][j] => c = b /\ k = j
  BY DEF Sound
<1>1. held2[b][j] = held[b][j]
  OBVIOUS
<1>2. /\ held[b][j] \in DOMAIN h
      /\ \A c \in Pointer, k \in 1 .. 5 : held[c][k] = held[b][j] => c = b /\ k = j
  BY <1>1 DEF Sound
<1>3. \A c \in Pointer, k \in 1 .. 5 : held2[c][k] # NULL => held2[c][k] = held[c][k]
  OBVIOUS
<1> QED  BY <1>1, <1>2, <1>3

\* kzalloc, when it returns an address.
LEMMA GivenFacts ==
  ASSUME Types, NEW size \in Nat \ {0}, Given(size) # NULL
  PROVE  /\ Given(size) \in Address /\ Given(size) \notin DOMAIN heap
         /\ HeapOK(With(size)) /\ DOMAIN With(size) = DOMAIN heap \cup {Given(size)}
BY KzallocGives, Addresses DEF Types, Given, With, NULL

\* The type of the heap follows.
LEMMA HeapTypes ==
  ASSUME NEW h, HeapOK(h)
  PROVE  DOMAIN h \subseteq Address /\ Taken(h) \subseteq Block
BY Addresses, TakenBlocks DEF HeapOK

-----------------------------------------------------------------------------
(* The next state's holders. *)

LEMMA HeldNext ==
  /\ Held'[NULL] = Local'
  /\ \A a \in Address : Held'[a] = IF a \in Known' THEN Parts(a)' ELSE Nothing
  /\ \A a \in Pointer : a = NULL \/ a \in Address
<1>1. NULL \in Pointer /\ Address \subseteq Pointer /\ NULL \notin Address
      /\ \A a \in Pointer : a = NULL \/ a \in Address
  BY Addresses
<1> QED  BY <1>1 DEF Held

LEMMA PartsNext ==
  ASSUME NEW a
  PROVE  /\ Parts(a)'[1] = a /\ Parts(a)'[2] = process'[a].data
         /\ Parts(a)'[3] = IF process'[a].data = NULL THEN NULL ELSE elf_memory'[process'[a].data]
         /\ Parts(a)'[4] = process'[a].stack /\ Parts(a)'[5] = process'[a].task
BY DEF Parts

\* The parts of a process whose structure and data are left alone.
LEMMA PartsKept ==
  ASSUME NEW a, process'[a] = process[a],
         process[a].data # NULL =>
           elf_memory'[process[a].data] = elf_memory[process[a].data]
  PROVE  \A i \in 1 .. 5 : Parts(a)'[i] = Parts(a)[i]
BY PartsAre, PartsNext, FiveRoles

\* The roles of local variables.
LEMMA Locals ==
  /\ Local[1] = IF pc \in {"elf_read", "validate"} THEN elf_file ELSE NULL
  /\ Local[2] = IF pc = "validate" THEN elf_memory[elf_file] ELSE NULL
  /\ Local[3] = IF pc = "copying" THEN copy.tmp ELSE NULL
  /\ Local[4] = NULL /\ Local[5] = NULL
BY DEF Local

LEMMA LocalsNext ==
  /\ Local'[1] = IF pc' \in {"elf_read", "validate"} THEN elf_file' ELSE NULL
  /\ Local'[2] = IF pc' = "validate" THEN elf_memory'[elf_file'] ELSE NULL
  /\ Local'[3] = IF pc' = "copying" THEN copy'.tmp ELSE NULL
  /\ Local'[4] = NULL /\ Local'[5] = NULL
BY DEF Local

\* A block is obtained.
LEMMA Obtains ==
  ASSUME LInv, NEW size \in Nat \ {0}, Obtained(size)
  PROVE  /\ Given(size) \in Address /\ Given(size) # NULL
         /\ Given(size) \notin DOMAIN heap /\ Given(size) \notin Known
         /\ HeapOK(heap') /\ DOMAIN heap' = DOMAIN heap \cup {Given(size)}
         /\ DOMAIN heap' \subseteq Address /\ Taken(heap') \subseteq Block
         /\ \A b \in Known : process[b].data # NULL => process[b].data # Given(size)
<1> DEFINE g == Given(size)
<1>1. g # NULL /\ heap' = With(size) /\ Types /\ Sound(Held, heap)
  BY DEF Obtained, LInv
<1>2. /\ g \in Address /\ g \notin DOMAIN heap
      /\ HeapOK(heap') /\ DOMAIN heap' = DOMAIN heap \cup {g}
  BY <1>1, GivenFacts
<1>3. \A b \in Known : b # g /\ (process[b].data # NULL => process[b].data # g)
  BY <1>1, <1>2, PartsAllocated
<1> QED  BY <1>1, <1>2, <1>3, HeapTypes

-----------------------------------------------------------------------------
(* The steps. *)

LEMMA StartStep == LInv /\ Start => LInv'
<1> SUFFICES ASSUME LInv, Start PROVE LInv'
  OBVIOUS
<1>0. PICK g : g = Given(Struct)
  OBVIOUS
<1> DEFINE slots == {s \in Slots : processes[s] = NULL}
<1>1. /\ pc = "idle" /\ slots # {} /\ Obtained(Struct)
      /\ elf_memory' = [elf_memory EXCEPT ![g] = NULL]
      /\ process' = [process EXCEPT ![g] = NewProcess]
      /\ pc' = "elf_load"
      /\ UNCHANGED <<processes, file, directory, open, elf_file, copy, wild>>
  BY <1>0 DEF Start, NoElfFile, loaded
<1>2. PICK f \in File : new' = [address |-> g, slot |-> Min(slots), file |-> f]
  BY <1>0 DEF Start
<1>3. Min(slots) \in Slots /\ processes[Min(slots)] = NULL
  <2>1. slots \in SUBSET Nat
    BY Addresses
  <2>2. Min(slots) \in slots
    BY <1>1, <2>1, MinValue
  <2> QED  BY <2>2
<1> HIDE DEF slots
<1>4. /\ g \in Address /\ g # NULL /\ g \notin DOMAIN heap /\ g \notin Known
      /\ HeapOK(heap') /\ DOMAIN heap' = DOMAIN heap \cup {g}
      /\ DOMAIN heap' \subseteq Address /\ Taken(heap') \subseteq Block
      /\ \A b \in Known : process[b].data # NULL => process[b].data # g
  BY <1>0, <1>1, Addresses, Obtains
<1>5. /\ Types /\ TypeOK /\ Known = Loaded /\ Loaded' = Loaded /\ Known' = Loaded \cup {g}
      /\ Loaded \subseteq Address
  BY <1>1, <1>2, <1>4, KnownAddresses DEF LInv, Types, Loading, Known, Loaded
<1>6. process' \in [Address -> ProcessType] /\ process'[g] = NewProcess
  BY <1>1, <1>4, <1>5, Addresses DEF Types, NewProcess, ProcessType
<1>7. \A b \in Loaded : \A i \in 1 .. 5 : Parts(b)'[i] = Parts(b)[i]
  <2> TAKE b \in Loaded
  <2>1. process'[b] = process[b]
    BY <1>1, <1>4, <1>5 DEF Types
  <2>2. process[b].data # NULL => elf_memory'[process[b].data] = elf_memory[process[b].data]
    BY <1>1, <1>4, <1>5 DEF Types, TypeOK, ProcessType, Pointer
  <2> QED  BY <2>1, <2>2, PartsKept
<1>8. Sound(Held', heap')
  <2>1. \A j \in 1 .. 5 : Parts(g)'[j] = IF j = 1 THEN g ELSE NULL
    <3>1. /\ process'[g].data = NULL /\ process'[g].stack = NULL /\ process'[g].task = NULL
      BY <1>6 DEF NewProcess
    <3>2. /\ Parts(g)'[1] = g /\ Parts(g)'[2] = NULL /\ Parts(g)'[3] = NULL
          /\ Parts(g)'[4] = NULL /\ Parts(g)'[5] = NULL
      BY <3>1, PartsNext
    <3> QED  BY <3>2, FiveRoles
  <2>2. \A j \in 1 .. 5 : Local'[j] = NULL /\ Local[j] = NULL
    BY <1>1, Locals, LocalsNext, FiveRoles
  <2>3. Adds(Held, Held', g, 1, g)
    <3> SUFFICES ASSUME NEW b \in Pointer, NEW j \in 1 .. 5
                 PROVE  Held'[b][j] = IF b = g /\ j = 1 THEN g ELSE Held[b][j]
      BY DEF Adds
    <3>1. CASE b = NULL
      BY <1>4, <2>2, <3>1, HeldBy, HeldNext
    <3>2. CASE b = g
      <4>1. Held'[g] = Parts(g)' /\ Held[g] = Nothing
        BY <1>4, <1>5, HeldBy, HeldNext
      <4>2. Held'[b][j] = Parts(g)'[j] /\ Held[b][j] = NULL
        BY <3>2, <4>1, HeldBy
      <4> QED  BY <2>1, <3>2, <4>2
    <3>3. CASE b \in Address \ {g}
      BY <1>5, <1>7, <3>3, HeldBy, HeldNext
    <3> QED  BY <3>1, <3>2, <3>3, HeldNext
  <2> QED
    BY <1>4, <2>3, OneMore, Addresses DEF LInv
<1>9. Types'
  BY <1>1, <1>2, <1>3, <1>4, <1>5, <1>6, Addresses DEF Types, TypeOK, Steps, Loading
<1>10. Once' /\ Complete' /\ Progress' /\ ElfLocals' /\ OpenWhileReading'
  <2>1. Once'
    BY <1>1, <1>2, <1>3, <1>4, <1>5 DEF LInv, Once
  <2>2. Complete'
    BY <1>5, <1>7 DEF LInv, Complete
  <2>3. Progress'
    BY <1>1, <1>2, <1>6 DEF Progress, NewProcess
  <2>4. ElfLocals' /\ OpenWhileReading'
    BY <1>1 DEF LInv, ElfLocals, OpenWhileReading
  <2> QED  BY <2>1, <2>2, <2>3, <2>4
<1> QED  BY <1>8, <1>9, <1>10 DEF LInv, Sound

\* A step of a load that obtains a block for the role i of r, which is the
\* process being loaded or NULL for a local variable.
LEMMA Growing ==
  ASSUME LInv, Loading, NEW size \in Nat \ {0}, Obtained(size),
         NEW g, g = Given(size), NEW a, a = new.address,
         elf_memory' \in [Address -> Pointer], process' \in [Address -> ProcessType],
         \A b \in Loaded : process[b].data # NULL =>
           elf_memory'[process[b].data] = elf_memory[process[b].data],
         \A b \in Address \ {a} : process'[b] = process[b],
         UNCHANGED <<processes, file, new, copy, wild>>,
         pc' \in Steps \ {"idle", "copying", "wild"}, pc # "wild",
         elf_file' \in Pointer, open' \in SUBSET {1},
         NEW r \in {NULL, a}, NEW i \in 1 .. 5,
         \A j \in 1 .. 5 : Local'[j] = IF r = NULL /\ j = i THEN g ELSE Local[j],
         \A j \in 1 .. 5 : Parts(a)'[j] = IF r = a /\ j = i THEN g ELSE Parts(a)[j]
  PROVE  Types' /\ Once' /\ Complete' /\ Sound(Held', heap')
<1>1. /\ g \in Address /\ g # NULL /\ g \notin DOMAIN heap
      /\ HeapOK(heap') /\ DOMAIN heap' = DOMAIN heap \cup {g}
      /\ DOMAIN heap' \subseteq Address /\ Taken(heap') \subseteq Block
  BY Obtains
<1>2. /\ Types /\ TypeOK /\ a \in Address /\ a # NULL /\ a \notin Loaded
      /\ Loaded \subseteq Address
      /\ Known = Loaded \cup {a} /\ Loaded' = Loaded /\ Known' = Known
  BY KnownAddresses, Addresses DEF LInv, Types, Once, Known, Loaded
<1>3. \A b \in Loaded : \A j \in 1 .. 5 : Parts(b)'[j] = Parts(b)[j]
  <2> TAKE b \in Loaded
  <2>1. process'[b] = process[b]
    BY <1>2
  <2> QED  BY <2>1, PartsKept
<1>4. Adds(Held, Held', r, i, g)
  <2> SUFFICES ASSUME NEW b \in Pointer, NEW j \in 1 .. 5
               PROVE  Held'[b][j] = IF b = r /\ j = i THEN g ELSE Held[b][j]
    BY DEF Adds
  <2>1. CASE b = NULL
    BY <1>2, <2>1, HeldBy, HeldNext
  <2>2. CASE b = a
    <3>1. Held'[a] = Parts(a)' /\ Held[a] = Parts(a)
      BY <1>2, HeldBy, HeldNext
    <3> QED  BY <1>2, <2>2, <3>1
  <2>3. CASE b \in Address \ {a}
    <3>1. b # r
      BY <2>3, Addresses
    <3> QED  BY <1>2, <1>3, <2>3, <3>1, HeldBy, HeldNext
  <2> QED  BY <2>1, <2>2, <2>3, HeldNext
<1>5. Sound(Held', heap')
  <2>1. r \in Pointer /\ i \in 1 .. 5
    BY <1>2, Addresses
  <2>2. DOMAIN heap \subseteq DOMAIN heap' /\ g \in DOMAIN heap' /\ g \notin DOMAIN heap
    BY <1>1
  <2>3. Sound(Held, heap)
    BY DEF LInv
  <2> QED  BY <1>4, <2>1, <2>2, <2>3, OneMore
<1>6. Types'
  BY <1>1, <1>2 DEF Types, TypeOK, Steps, Loading
<1>7. Once'
  BY <1>2 DEF LInv, Once, Loading, Steps
<1>8. Complete'
  BY <1>2, <1>3 DEF LInv, Complete
<1> QED  BY <1>5, <1>6, <1>7, <1>8

LEMMA ElfOpenStep == LInv /\ ElfOpen => LInv'
<1> SUFFICES ASSUME LInv, ElfOpen PROVE LInv'
  OBVIOUS
<1>0. PICK g, a : g = Given(Struct) /\ a = new.address
  OBVIOUS
<1>1. /\ pc = "elf_load" /\ Obtained(Struct) /\ elf_file' = g /\ open' = open \cup {1}
      /\ elf_memory' = [elf_memory EXCEPT ![g] = NULL]
      /\ pc' = "elf_read"
      /\ UNCHANGED <<process, processes, file, new, copy, wild>>
  BY <1>0 DEF ElfOpen, NoElfFile, loaded
<1>2. /\ g \in Address /\ g # NULL
      /\ \A b \in Known : process[b].data # NULL => process[b].data # g
  BY <1>0, <1>1, Addresses, Obtains
<1>3. /\ Loading /\ Types /\ TypeOK /\ a \in Address /\ Known = Loaded \cup {a}
      /\ Loaded \subseteq Address
  BY <1>0, <1>1, KnownAddresses DEF LInv, Types, Loading
<1>4. elf_memory' \in [Address -> Pointer] /\ process' \in [Address -> ProcessType]
  BY <1>1, <1>3, Addresses DEF Types, TypeOK
<1>5. \A b \in Known : process[b].data # NULL =>
           elf_memory'[process[b].data] = elf_memory[process[b].data]
  BY <1>1, <1>2, <1>3 DEF Types, TypeOK, ProcessType, Pointer
<1>6. \A j \in 1 .. 5 : Local'[j] = IF NULL = NULL /\ j = 1 THEN g ELSE Local[j]
  BY <1>1, Locals, LocalsNext, FiveRoles
<1>7. \A j \in 1 .. 5 : Parts(a)'[j] = IF NULL = a /\ j = 1 THEN g ELSE Parts(a)[j]
  <2>1. NULL # a
    BY <1>3, Addresses
  <2> QED  BY <1>1, <1>3, <1>5, <2>1, PartsKept
<1>8. Types' /\ Once' /\ Complete' /\ Sound(Held', heap')
  <2>1. 1 \in 1 .. 5 /\ open' \in SUBSET {1} /\ elf_file' \in Pointer
    BY <1>1, <1>2, <1>3, Addresses DEF TypeOK
  <2>2. pc' \in Steps \ {"idle", "copying", "wild"} /\ pc # "wild"
    BY <1>1 DEF Steps
  <2> QED
    BY <1>0, <1>1, <1>3, <1>4, <1>5, <1>6, <1>7, <2>1, <2>2, Growing, Addresses
<1>9. Progress' /\ ElfLocals' /\ OpenWhileReading'
  BY <1>1, <1>2 DEF LInv, Progress, ElfLocals, OpenWhileReading, Loading
<1> QED  BY <1>8, <1>9 DEF LInv, Sound

\* The memory for the file: it belongs to elf_file, which nobody has yet.
LEMMA ElfReadStep == LInv /\ ElfRead => LInv'
<1> SUFFICES ASSUME LInv, ElfRead PROVE LInv'
  OBVIOUS
<1>0. PICK size, g, a : size = new.file.size /\ g = Given(size) /\ a = new.address
  OBVIOUS
<1>1. /\ pc = "elf_read" /\ Obtained(size) /\ open' = open \ {1}
      /\ elf_memory' = [elf_memory EXCEPT ![g] = NULL, ![elf_file] = g]
      /\ pc' = "validate"
      /\ UNCHANGED <<process, processes, file, new, elf_file, copy, wild>>
  BY <1>0 DEF ElfRead, loaded
<1>2. /\ Loading /\ Types /\ TypeOK /\ a \in Address /\ Known = Loaded \cup {a}
      /\ Loaded \subseteq Address /\ new.file \in File
  BY <1>0, <1>1, KnownAddresses DEF LInv, Types, Loading
<1>3. size \in Nat \ {0}
  BY <1>0, <1>2, Addresses
<1>4. /\ g \in Address /\ g # NULL /\ g \notin DOMAIN heap
      /\ \A b \in Known : process[b].data # NULL => process[b].data # g
  BY <1>0, <1>1, <1>3, Obtains
<1>5. elf_file # NULL /\ elf_file \in Address /\ Held[NULL][1] = elf_file
  BY <1>1, <1>2, HeldBy, Locals, Addresses DEF LInv, ElfLocals, Types
<1>6. elf_file \in DOMAIN heap
      /\ \A b \in Known : process[b].data # elf_file
  <2>1. ASSUME NEW b \in Known
        PROVE  b # NULL /\ b \in Pointer /\ Held[b][2] = process[b].data
    <3>1. b \in Address /\ b # NULL /\ b \in Pointer
      BY <1>2, Addresses
    <3>2. Held[b] = Parts(b)
      BY <3>1, HeldBy
    <3> QED  BY <3>1, <3>2, PartsAre
  <2>2. NULL \in Pointer /\ 1 \in 1 .. 5 /\ 2 \in 1 .. 5
    BY Addresses
  <2>3. Sound(Held, heap)
    BY DEF LInv
  <2> QED  BY <1>5, <2>1, <2>2, <2>3 DEF Sound
<1>7. elf_memory' \in [Address -> Pointer] /\ process' \in [Address -> ProcessType]
      /\ elf_memory'[elf_file] = g
  BY <1>1, <1>2, <1>4, <1>5, Addresses DEF Types, TypeOK
<1>8. \A b \in Known : process[b].data # NULL =>
           elf_memory'[process[b].data] = elf_memory[process[b].data]
  BY <1>1, <1>2, <1>4, <1>6 DEF Types, TypeOK, ProcessType, Pointer
<1>9. \A j \in 1 .. 5 : Local'[j] = IF NULL = NULL /\ j = 2 THEN g ELSE Local[j]
  BY <1>1, <1>7, Locals, LocalsNext, FiveRoles
<1>10. \A j \in 1 .. 5 : Parts(a)'[j] = IF NULL = a /\ j = 2 THEN g ELSE Parts(a)[j]
  <2>1. NULL # a
    BY <1>2, Addresses
  <2> QED  BY <1>1, <1>2, <1>8, <2>1, PartsKept
<1>11. Types' /\ Once' /\ Complete' /\ Sound(Held', heap')
  <2>1. 2 \in 1 .. 5 /\ open' \in SUBSET {1} /\ elf_file' \in Pointer
    BY <1>1, <1>2, Addresses DEF Types, TypeOK
  <2>2. pc' \in Steps \ {"idle", "copying", "wild"} /\ pc # "wild"
    BY <1>1 DEF Steps
  <2>3. /\ \A b \in Address \ {a} : process'[b] = process[b]
        /\ \A b \in Loaded : process[b].data # NULL =>
             elf_memory'[process[b].data] = elf_memory[process[b].data]
    BY <1>1, <1>2, <1>8
  <2>4. NULL \in {NULL, a}
    OBVIOUS
  <2>5. UNCHANGED <<processes, file, new, copy, wild>> /\ Obtained(size)
    BY <1>1
  <2> QED
    BY <1>0, <1>2, <1>3, <1>7, <1>9, <1>10, <2>1, <2>2, <2>3, <2>4, <2>5, Growing
<1>12. Progress' /\ ElfLocals' /\ OpenWhileReading'
  BY <1>1, <1>2, <1>4, <1>5, <1>7
  DEF LInv, Types, TypeOK, Progress, ElfLocals, OpenWhileReading, Loading
<1> QED  BY <1>11, <1>12 DEF LInv, Sound

\* Block g becomes the part i of the process at a.
Stores(i, a, g) ==
  /\ i = 2 => process' = [process EXCEPT ![a].data = g]
  /\ i = 4 => process' = [process EXCEPT ![a].stack = g]
  /\ i = 5 => process' = [process EXCEPT ![a].task = g]
  /\ i = 2 => process[a].data = NULL

\* A block that is stored in a field of the process.
LEMMA FieldStep ==
  ASSUME LInv, Loading, NEW size \in Nat \ {0}, Obtained(size),
         NEW g, g = Given(size), NEW a, a = new.address,
         elf_memory' = [elf_memory EXCEPT ![g] = NULL],
         UNCHANGED <<processes, file, new, elf_file, copy, wild>>,
         pc \in {"binary_read", "stack", "task"}, pc' \in {"stack", "task", "map"},
         open' \in SUBSET {1},
         NEW i \in {2, 4, 5}, Stores(i, a, g)
  PROVE  /\ Types' /\ Once' /\ Complete' /\ ElfLocals' /\ Sound(Held', heap')
         /\ g # NULL /\ a \in Address
         /\ process[a].data # NULL =>
              elf_memory'[process[a].data] = elf_memory[process[a].data]
<1>1. /\ g \in Address /\ g # NULL /\ g \notin DOMAIN heap
      /\ \A b \in Known : process[b].data # NULL => process[b].data # g
  BY Obtains
<1>2. /\ Types /\ TypeOK /\ a \in Address /\ Known = Loaded \cup {a} /\ a \notin Loaded
      /\ Loaded \subseteq Address
  BY KnownAddresses DEF LInv, Types, Once
<1>3. elf_memory' \in [Address -> Pointer] /\ elf_memory'[g] = NULL
  BY <1>1, <1>2, Addresses DEF Types, TypeOK
<1>4. /\ process' \in [Address -> ProcessType]
      /\ \A b \in Address \ {a} : process'[b] = process[b]
  BY <1>1, <1>2, Addresses DEF Types, ProcessType, Stores
<1>5. \A b \in Known : process[b].data # NULL =>
           elf_memory'[process[b].data] = elf_memory[process[b].data]
  BY <1>1, <1>2 DEF Types, TypeOK, ProcessType, Pointer
<1>6. \A j \in 1 .. 5 : Local'[j] = IF a = NULL /\ j = i THEN g ELSE Local[j]
  <2>1. a # NULL
    BY <1>2, Addresses
  <2> QED  BY <2>1, Locals, LocalsNext, FiveRoles
<1>7. \A j \in 1 .. 5 : Parts(a)'[j] = IF a = a /\ j = i THEN g ELSE Parts(a)[j]
  <2>1. /\ process'[a].data = IF i = 2 THEN g ELSE process[a].data
        /\ process'[a].stack = IF i = 4 THEN g ELSE process[a].stack
        /\ process'[a].task = IF i = 5 THEN g ELSE process[a].task
    BY <1>2 DEF Types, ProcessType, Stores
  <2>2. Parts(a)'[3] = Parts(a)[3]
    BY <1>1, <1>2, <1>3, <1>5, <2>1, PartsAre, PartsNext DEF Stores
  <2> QED  BY <2>1, <2>2, PartsAre, PartsNext, FiveRoles
<1>8. Types' /\ Once' /\ Complete' /\ Sound(Held', heap')
  <2>1. i \in 1 .. 5 /\ elf_file' \in Pointer
    BY <1>2 DEF Types
  <2>2. pc' \in Steps \ {"idle", "copying", "wild"} /\ pc # "wild"
    BY DEF Steps
  <2> QED
    BY <1>2, <1>3, <1>4, <1>5, <1>6, <1>7, <2>1, <2>2, Growing
<1>9. ElfLocals'
  BY DEF ElfLocals
<1> QED  BY <1>1, <1>2, <1>4, <1>5, <1>8, <1>9 DEF Types, ProcessType

LEMMA BinaryReadStep == LInv /\ BinaryRead => LInv'
<1> SUFFICES ASSUME LInv, BinaryRead PROVE LInv'
  OBVIOUS
<1>0. PICK size, g, a : size = new.file.size /\ g = Given(size) /\ a = new.address
  OBVIOUS
<1>1. /\ pc = "binary_read" /\ Obtained(size) /\ open' = open \ {1}
      /\ elf_memory' = [elf_memory EXCEPT ![g] = NULL]
      /\ process' = [process EXCEPT ![a].data = g]
      /\ pc' = "stack"
      /\ UNCHANGED <<processes, file, new, elf_file, copy, wild>>
  BY <1>0 DEF BinaryRead, NoElfFile, loaded
<1>2. Loading /\ Types /\ TypeOK /\ new.file \in File
  BY <1>1 DEF LInv, Types, Loading
<1>3. size \in Nat \ {0} /\ open' \in SUBSET {1} /\ open' = {}
  BY <1>0, <1>1, <1>2, Addresses DEF TypeOK
<1>4. process[a].data = NULL /\ process[a].stack = NULL /\ process[a].task = NULL
  BY <1>0, <1>1, <1>2 DEF LInv, Progress
<1>5. 2 \in {2, 4, 5} /\ Stores(2, a, g)
  BY <1>1, <1>4 DEF Stores
<1>6. /\ Types' /\ Once' /\ Complete' /\ ElfLocals' /\ Sound(Held', heap')
      /\ g # NULL /\ a \in Address
  BY <1>0, <1>1, <1>2, <1>3, <1>5, FieldStep
<1>7. Progress' /\ OpenWhileReading'
  <2>1. /\ process'[a].data = g /\ process'[a].stack = NULL /\ process'[a].task = NULL
    BY <1>1, <1>2, <1>4, <1>6 DEF Types, ProcessType
  <2> QED  BY <1>0, <1>1, <1>3, <1>6, <2>1 DEF Progress, OpenWhileReading
<1> QED  BY <1>6, <1>7 DEF LInv, Sound

LEMMA StackStep == LInv /\ Stack => LInv'
<1> SUFFICES ASSUME LInv, Stack PROVE LInv'
  OBVIOUS
<1>0. PICK i, size, g, a : i = 4 /\ size = StackSize /\ g = Given(size) /\ a = new.address
  OBVIOUS
<1>1. /\ pc = "stack" /\ Obtained(size)
      /\ elf_memory' = [elf_memory EXCEPT ![g] = NULL]
      /\ process' = [process EXCEPT ![a].stack = g]
      /\ pc' = "task"
      /\ UNCHANGED <<processes, file, open, new, elf_file, copy, wild>>
  BY <1>0 DEF Stack, NoElfFile, loaded
<1>2. Loading /\ Types /\ TypeOK
  BY <1>1 DEF LInv, Types, Loading
<1>3. size \in Nat \ {0} /\ open' \in SUBSET {1} /\ open' = {}
  BY <1>0, <1>1, <1>2, Addresses DEF LInv, OpenWhileReading
<1>4. process[a].data # NULL /\ process[a].stack = NULL /\ process[a].task = NULL
  BY <1>0, <1>1, <1>2 DEF LInv, Progress
<1>5. i \in {2, 4, 5} /\ Stores(i, a, g)
  BY <1>0, <1>1, <1>4 DEF Stores
<1>6. /\ pc \in {"binary_read", "stack", "task"} /\ pc' \in {"stack", "task", "map"}
      /\ UNCHANGED <<processes, file, new, elf_file, copy, wild>>
      /\ Obtained(size) /\ elf_memory' = [elf_memory EXCEPT ![g] = NULL]
  BY <1>1
<1>7. /\ Types' /\ Once' /\ Complete' /\ ElfLocals' /\ Sound(Held', heap')
      /\ g # NULL /\ a \in Address
  BY <1>0, <1>2, <1>3, <1>5, <1>6, FieldStep
<1>8. Progress' /\ OpenWhileReading'
  <2>1. /\ process'[a].data # NULL /\ process'[a].stack = g /\ process'[a].task = NULL
    BY <1>1, <1>2, <1>4, <1>7 DEF Types, ProcessType
  <2> QED  BY <1>0, <1>1, <1>3, <1>7, <2>1 DEF Progress, OpenWhileReading
<1> QED  BY <1>7, <1>8 DEF LInv, Sound

\* task_new reads the entry point: what is mapped afterwards holds an ELF file.
LEMMA TaskStep == LInv /\ Task => LInv'
<1> SUFFICES ASSUME LInv, Task PROVE LInv'
  OBVIOUS
<1>0. PICK i, size, g, a : i = 5 /\ size = Struct /\ g = Given(size) /\ a = new.address
  OBVIOUS
<1>1. /\ pc = "task" /\ Obtained(size)
      /\ IsElf(process[a]) => HoldsElf(process[a])
      /\ elf_memory' = [elf_memory EXCEPT ![g] = NULL]
      /\ process' = [process EXCEPT ![a].task = g]
      /\ pc' = "map"
      /\ UNCHANGED <<processes, file, open, new, elf_file, copy, wild>>
  BY <1>0 DEF Task, NoElfFile, loaded
<1>2. Loading /\ Types /\ TypeOK
  BY <1>1 DEF LInv, Types, Loading
<1>3. size \in Nat \ {0} /\ open' \in SUBSET {1} /\ open' = {}
  BY <1>0, <1>1, <1>2, Addresses DEF LInv, OpenWhileReading
<1>4. process[a].data # NULL /\ process[a].stack # NULL
  BY <1>0, <1>1, <1>2 DEF LInv, Progress
<1>5. i \in {2, 4, 5} /\ Stores(i, a, g)
  BY <1>0, <1>1, <1>4 DEF Stores
<1>6. /\ pc \in {"binary_read", "stack", "task"} /\ pc' \in {"stack", "task", "map"}
      /\ UNCHANGED <<processes, file, new, elf_file, copy, wild>>
      /\ Obtained(size) /\ elf_memory' = [elf_memory EXCEPT ![g] = NULL]
  BY <1>1
<1>7. /\ Types' /\ Once' /\ Complete' /\ ElfLocals' /\ Sound(Held', heap')
      /\ g # NULL /\ a \in Address
      /\ process[a].data # NULL => elf_memory'[process[a].data] = elf_memory[process[a].data]
  BY <1>0, <1>2, <1>3, <1>5, <1>6, FieldStep
<1>8. Progress' /\ OpenWhileReading'
  <2>1. /\ process'[a].data = process[a].data /\ process'[a].stack = process[a].stack
        /\ process'[a].task = g
    BY <1>1, <1>2, <1>7 DEF Types, ProcessType
  <2>2. elf_memory'[process'[a].data] # NULL
    BY <1>1, <1>2, <1>4, <1>7, <2>1 DEF Types, ProcessType, IsElf, HoldsElf
  <2> QED  BY <1>0, <1>1, <1>3, <1>4, <1>7, <2>1, <2>2 DEF Progress, OpenWhileReading
<1> QED  BY <1>7, <1>8 DEF LInv, Sound

\* A load ends with an error, in the heap that is left: its process is given up.
LEMMA FailStep ==
  ASSUME LInv, Loading, pc # "wild",
         NEW left, HeapOK(left), DOMAIN heap \subseteq DOMAIN left, Fail(left),
         open' = {}
  PROVE  LInv'
<1>0. PICK a : a = new.address
  OBVIOUS
<1>1. /\ heap' = Freed(left, process[a].task) /\ pc' = "idle"
      /\ new' = NoLoad /\ elf_file' = NULL
      /\ UNCHANGED <<process, elf_memory, processes, file, copy, wild>>
  BY <1>0 DEF Fail, Return, loaded
<1>2. /\ Types /\ TypeOK /\ a \in Address /\ a # NULL /\ a \notin Loaded
      /\ Loaded \subseteq Address
      /\ Known = Loaded \cup {a} /\ Loaded' = Loaded /\ Known' = Loaded
  BY <1>0, <1>1, KnownAddresses, Addresses DEF LInv, Types, Once, Known, Loaded, NoLoad
<1>3. /\ HeapOK(heap') /\ DOMAIN heap' = DOMAIN left \ {process[a].task}
      /\ DOMAIN heap' \subseteq Address /\ Taken(heap') \subseteq Block
  BY <1>1, FreedOK, HeapTypes
<1>4. \A b \in Known : \A j \in 1 .. 5 : Parts(b)'[j] = Parts(b)[j]
  BY <1>1, PartsKept
<1>5. \A b \in Pointer, j \in 1 .. 5 :
        Held'[b][j] = IF b \in Loaded THEN Parts(b)[j] ELSE NULL
  <2>1. \A j \in 1 .. 5 : Local'[j] = NULL
    BY <1>1, LocalsNext, FiveRoles
  <2> TAKE b \in Pointer, j \in 1 .. 5
  <2>2. CASE b = NULL
    BY <1>2, <2>1, <2>2, HeldNext, Addresses
  <2>3. CASE b \in Address
    BY <1>2, <1>4, <2>3, HeldBy, HeldNext
  <2> QED  BY <2>2, <2>3, HeldNext
<1>6. \A b \in Loaded : Held[b] = Parts(b) /\ b # NULL /\ b \in Pointer
  BY <1>2, HeldBy, Addresses
<1>7. Sound(Held', heap')
  <2>1. \A b \in Pointer, j \in 1 .. 5 : Held'[b][j] \in {NULL, Held[b][j]}
    BY <1>5, <1>6
  <2>2. ASSUME NEW b \in Pointer, NEW j \in 1 .. 5, Held'[b][j] # NULL,
               Held'[b][j] \in DOMAIN heap
        PROVE  Held'[b][j] \in DOMAIN heap'
    <3>1. b \in Loaded /\ Held[b][j] = Held'[b][j] /\ b # a
      BY <1>2, <1>5, <1>6, <2>2
    <3>2. a \in Pointer /\ 5 \in 1 .. 5 /\ Held[a][5] = process[a].task
      BY <1>2, HeldBy, PartsAre, Addresses
    <3>3. Held[b][j] # process[a].task
      BY <2>2, <3>1, <3>2 DEF LInv, Sound
    <3> QED  BY <1>3, <2>2, <3>1, <3>3
  <2>3. Sound(Held, heap)
    BY DEF LInv
  <2> QED  BY <2>1, <2>2, <2>3, Fewer
<1>8. Types'
  <2>1. NULL \in Pointer /\ 0 \in Slots
    BY Addresses
  <2> QED  BY <1>1, <1>2, <1>3, <2>1 DEF Types, TypeOK, Steps, Loading, NoLoad
<1>9. Once' /\ Complete' /\ Progress' /\ ElfLocals' /\ OpenWhileReading'
  <2>1. ~Loading'
    BY <1>1 DEF Loading
  <2>2. Once'
    BY <1>1, <2>1 DEF LInv, Once
  <2>3. Complete'
    BY <1>2, <1>4 DEF LInv, Complete
  <2> QED  BY <1>1, <2>1, <2>2, <2>3 DEF Progress, ElfLocals, OpenWhileReading
<1> QED  BY <1>7, <1>8, <1>9 DEF LInv, Sound

\* What a failing allocation and a failing read leave of the heap.
LEMMA FailedRead ==
  ASSUME LInv, Loading, Given(new.file.size) # NULL
  PROVE  HeapOK(With(new.file.size)) /\ DOMAIN heap \subseteq DOMAIN With(new.file.size)
<1>1. Types /\ new.file.size \in Nat \ {0}
  BY Addresses DEF LInv, Types
<1> QED  BY <1>1, GivenFacts

LEMMA ElfMissingStep == LInv /\ ElfMissing => LInv'
<1> SUFFICES ASSUME LInv, ElfMissing PROVE LInv'
  OBVIOUS
<1>0. PICK left : left = IF Given(Struct) = NULL THEN heap ELSE With(Struct)
  OBVIOUS
<1>1. pc = "elf_load" /\ Fail(left) /\ open' = {} /\ Loading /\ Types
  BY <1>0 DEF ElfMissing, LInv, OpenWhileReading, Loading
<1>2. HeapOK(left) /\ DOMAIN heap \subseteq DOMAIN left
  BY <1>0, <1>1, GivenFacts, Addresses DEF Types
<1> QED  BY <1>1, <1>2, FailStep

LEMMA ElfUnreadableStep == LInv /\ ElfUnreadable => LInv'
<1> SUFFICES ASSUME LInv, ElfUnreadable PROVE LInv'
  OBVIOUS
<1>1. pc = "elf_read" /\ open' = open \ {1} /\ Loading /\ Types /\ TypeOK
  BY DEF ElfUnreadable, Loading, LInv, Types
<1>2. open' = {}
  BY <1>1 DEF TypeOK
<1>3. CASE Fail(heap)
  BY <1>1, <1>2, <1>3, FailStep DEF Types
<1>4. CASE Given(new.file.size) # NULL /\ Fail(With(new.file.size))
  BY <1>1, <1>2, <1>4, FailedRead, FailStep
<1> QED  BY <1>3, <1>4 DEF ElfUnreadable

LEMMA BinaryFailsStep == LInv /\ BinaryFails => LInv'
<1> SUFFICES ASSUME LInv, BinaryFails PROVE LInv'
  OBVIOUS
<1>1. /\ pc \in {"binary", "binary_read"} /\ open' = open \ {1}
      /\ Loading /\ pc # "wild" /\ Types /\ TypeOK
  BY DEF BinaryFails, Loading, LInv, Types
<1>2. open' = {}
  BY <1>1 DEF TypeOK
<1>3. CASE Fail(heap)
  BY <1>1, <1>2, <1>3, FailStep DEF Types
<1>4. CASE Given(new.file.size) # NULL /\ Fail(With(new.file.size))
  BY <1>1, <1>2, <1>4, FailedRead, FailStep
<1> QED  BY <1>3, <1>4 DEF BinaryFails

LEMMA NoStackStep == LInv /\ NoStack => LInv'
<1> SUFFICES ASSUME LInv, NoStack PROVE LInv'
  OBVIOUS
<1>1. pc = "stack" /\ Fail(heap) /\ open' = {} /\ Loading /\ Types
  BY DEF NoStack, LInv, OpenWhileReading, Loading
<1> QED  BY <1>1, FailStep DEF Types

LEMMA MapFailsStep == LInv /\ MapFails => LInv'
<1> SUFFICES ASSUME LInv, MapFails PROVE LInv'
  OBVIOUS
<1>1. pc = "map" /\ Fail(heap) /\ open' = {} /\ Loading /\ Types
  BY DEF MapFails, LInv, OpenWhileReading, Loading
<1> QED  BY <1>1, FailStep DEF Types

\* Steps that change no memory, after which the local variables hold nothing.
LEMMA QuietStep ==
  ASSUME LInv, Loading,
         UNCHANGED <<heap, process, elf_memory, processes, file, new, copy>>,
         pc' \in {"binary", "binary_read", "wild"},
         elf_file' \in {NULL, elf_file}, open' \in SUBSET {1},
         wild' \in {"no", "elf_load", "task_init", "task_new"}, wild' # "no" <=> pc' = "wild"
  PROVE  Types' /\ Once' /\ Complete' /\ ElfLocals' /\ Sound(Held', heap')
<1>1. /\ Types /\ TypeOK /\ Known' = Known /\ Loaded' = Loaded /\ Loading'
      /\ Known \subseteq Address /\ Loaded \subseteq Known
  BY KnownAddresses DEF LInv, Types, Known, Loaded, Loading
<1>2. \A b \in Known : \A j \in 1 .. 5 : Parts(b)'[j] = Parts(b)[j]
  BY PartsKept
<1>3. \A b \in Pointer, j \in 1 .. 5 : Held'[b][j] \in {NULL, Held[b][j]}
  <2>1. \A j \in 1 .. 5 : Local'[j] = NULL
    BY LocalsNext, FiveRoles
  <2> TAKE b \in Pointer, j \in 1 .. 5
  <2>2. CASE b = NULL
    BY <2>1, <2>2, HeldNext
  <2>3. CASE b \in Address
    BY <1>1, <1>2, <2>3, HeldBy, HeldNext
  <2> QED  BY <2>2, <2>3, HeldNext
<1>4. Sound(Held', heap')
  <2>1. Sound(Held, heap) /\ heap' = heap
    BY DEF LInv
  <2> QED  BY <1>3, <2>1, Fewer
<1>5. Types'
  <2>1. elf_file' \in Pointer
    BY <1>1, Addresses DEF Types
  <2> QED  BY <1>1, <2>1 DEF Types, TypeOK, Steps, Loading
<1>6. Once' /\ Complete' /\ ElfLocals'
  BY <1>1, <1>2 DEF LInv, Once, Complete, ElfLocals
<1> QED  BY <1>4, <1>5, <1>6

LEMMA WildStep ==
  ASSUME LInv, Loading, NEW place \in {"elf_load", "task_init", "task_new"}, GoWild(place)
  PROVE  LInv'
<1>1. /\ UNCHANGED <<heap, process, elf_memory, processes, file, new, copy>>
      /\ pc' = "wild" /\ wild' = place /\ elf_file' = elf_file /\ open' = open
  BY DEF GoWild, memory, loaded
<1>2. open' \in SUBSET {1}
  BY <1>1 DEF LInv, Types, TypeOK
<1>3. Types' /\ Once' /\ Complete' /\ ElfLocals' /\ Sound(Held', heap')
  BY <1>1, <1>2, QuietStep
<1>4. Progress' /\ OpenWhileReading'
  BY <1>1 DEF Progress, OpenWhileReading
<1> QED  BY <1>3, <1>4 DEF LInv, Sound

LEMMA UndefinedStep == LInv /\ (OutOfMemoryInElf \/ TaskOfBinary \/ NoTask) => LInv'
<1> SUFFICES ASSUME LInv, OutOfMemoryInElf \/ TaskOfBinary \/ NoTask PROVE LInv'
  OBVIOUS
<1>1. CASE OutOfMemoryInElf
  BY <1>1, WildStep DEF OutOfMemoryInElf, Loading
<1>2. CASE TaskOfBinary
  BY <1>2, WildStep DEF TaskOfBinary, Loading
<1>3. CASE NoTask
  BY <1>3, WildStep DEF NoTask, Loading
<1> QED  BY <1>1, <1>2, <1>3

LEMMA ElfInvalidStep == LInv /\ ElfInvalid => LInv'
<1> SUFFICES ASSUME LInv, ElfInvalid PROVE LInv'
  OBVIOUS
<1>1. /\ UNCHANGED <<heap, process, elf_memory, processes, file, new, copy, open, wild>>
      /\ pc = "validate" /\ pc' = "binary" /\ elf_file' = NULL
  BY DEF ElfInvalid, memory, loaded
<1>2. Loading /\ Types /\ TypeOK
  BY <1>1 DEF LInv, Types, Loading
<1>3. Types' /\ Once' /\ Complete' /\ ElfLocals' /\ Sound(Held', heap')
  BY <1>1, <1>2, QuietStep DEF TypeOK
<1>4. Progress' /\ OpenWhileReading'
  BY <1>1, <1>2 DEF LInv, Progress, OpenWhileReading
<1> QED  BY <1>3, <1>4 DEF LInv, Sound

LEMMA BinaryOpenStep == LInv /\ BinaryOpen => LInv'
<1> SUFFICES ASSUME LInv, BinaryOpen PROVE LInv'
  OBVIOUS
<1>1. /\ UNCHANGED <<heap, process, elf_memory, processes, file, new, elf_file, copy, wild>>
      /\ pc = "binary" /\ pc' = "binary_read" /\ open' = open \cup {1}
  BY DEF BinaryOpen, memory, loaded
<1>2. Loading /\ Types /\ TypeOK
  BY <1>1 DEF LInv, Types, Loading
<1>3. Types' /\ Once' /\ Complete' /\ ElfLocals' /\ Sound(Held', heap')
  BY <1>1, <1>2, QuietStep DEF TypeOK
<1>4. Progress' /\ OpenWhileReading'
  BY <1>1, <1>2 DEF LInv, Progress, OpenWhileReading
<1> QED  BY <1>3, <1>4 DEF LInv, Sound

\* The local variables of elf_load are moved into the process at a.
Moves(held, held2, a) ==
  \A b \in Pointer, j \in 1 .. 5 :
    held2[b][j] = IF b = NULL THEN NULL
                  ELSE IF b = a /\ j = 2 THEN held[NULL][1]
                  ELSE IF b = a /\ j = 3 THEN held[NULL][2]
                  ELSE held[b][j]

LEMMA Moved ==
  ASSUME NEW held, NEW held2, NEW h, Sound(held, h), NEW a \in Address, Moves(held, held2, a)
  PROVE  Sound(held2, h)
<1> DEFINE Where(b, j) ==
      IF b = a /\ j = 2 THEN <<NULL, 1>> ELSE IF b = a /\ j = 3 THEN <<NULL, 2>> ELSE <<b, j>>
<1>1. NULL \in Pointer /\ NULL # a /\ 1 \in 1 .. 5 /\ 2 \in 1 .. 5
  BY Addresses
<1>2. ASSUME NEW b \in Pointer, NEW j \in 1 .. 5, held2[b][j] # NULL
      PROVE  /\ b # NULL /\ Where(b, j)[1] \in Pointer /\ Where(b, j)[2] \in 1 .. 5
             /\ held2[b][j] = held[Where(b, j)[1]][Where(b, j)[2]]
  BY <1>1, <1>2 DEF Moves
<1>3. ASSUME NEW b \in Pointer \ {NULL}, NEW j \in 1 .. 5,
             NEW c \in Pointer \ {NULL}, NEW k \in 1 .. 5,
             Where(b, j)[1] = Where(c, k)[1], Where(b, j)[2] = Where(c, k)[2]
      PROVE  b = c /\ j = k
  BY <1>1, <1>3
<1> HIDE DEF Where
<1> SUFFICES ASSUME NEW b \in Pointer, NEW j \in 1 .. 5, held2[b][j] # NULL
             PROVE  /\ held2[b][j] \in DOMAIN h
                    /\ \A c \in Pointer, k \in 1 .. 5 :
                         held2[c][k] = held2[b][j] => c = b /\ k = j
  BY DEF Sound
<1>4. held2[b][j] \in DOMAIN h
  BY <1>2 DEF Sound
<1>5. ASSUME NEW c \in Pointer, NEW k \in 1 .. 5, held2[c][k] = held2[b][j]
      PROVE  c = b /\ k = j
  <2>1. PICK b1 \in Pointer, j1 \in 1 .. 5 :
          b1 = Where(b, j)[1] /\ j1 = Where(b, j)[2] /\ held2[b][j] = held[b1][j1] /\ b # NULL
    BY <1>2
  <2>2. PICK c1 \in Pointer, k1 \in 1 .. 5 :
          c1 = Where(c, k)[1] /\ k1 = Where(c, k)[2] /\ held2[c][k] = held[c1][k1] /\ c # NULL
    BY <1>2, <1>5
  <2>3. held[b1][j1] # NULL /\ held[c1][k1] = held[b1][j1]
    BY <1>5, <2>1, <2>2
  <2>4. b1 = c1 /\ j1 = k1
    BY <2>3 DEF Sound
  <2>5. /\ Where(b, j)[1] = Where(c, k)[1] /\ Where(b, j)[2] = Where(c, k)[2]
        /\ b \in Pointer \ {NULL} /\ c \in Pointer \ {NULL}
    BY <2>1, <2>2, <2>4
  <2> QED  BY <1>3, <1>5, <2>5
<1> QED  BY <1>4, <1>5

LEMMA ElfValidStep == LInv /\ ElfValid => LInv'
<1> SUFFICES ASSUME LInv, ElfValid PROVE LInv'
  OBVIOUS
<1>0. PICK a : a = new.address
  OBVIOUS
<1>1. /\ pc = "validate" /\ pc' = "stack"
      /\ process' = [process EXCEPT ![a].filetype = "elf", ![a].data = elf_file]
      /\ UNCHANGED <<heap, elf_memory, processes, file, open, new, elf_file, copy, wild>>
  BY <1>0 DEF ElfValid, loaded
<1>2. /\ Loading /\ Types /\ TypeOK /\ a \in Address /\ a # NULL /\ a \notin Loaded
      /\ Known = Loaded \cup {a} /\ Loaded \subseteq Address
      /\ Loaded' = Loaded /\ Known' = Known
  BY <1>0, <1>1, KnownAddresses, Addresses DEF LInv, Types, Once, Known, Loaded, Loading
<1>3. /\ elf_file # NULL /\ elf_file \in Address /\ elf_memory[elf_file] # NULL
      /\ Local[1] = elf_file /\ Local[2] = elf_memory[elf_file]
  BY <1>1, <1>2, Locals, Addresses DEF LInv, ElfLocals, Types
<1>4. process[a].data = NULL /\ process[a].stack = NULL /\ process[a].task = NULL
  BY <1>0, <1>1, <1>2 DEF LInv, Progress
<1>5. /\ process' \in [Address -> ProcessType]
      /\ process'[a].data = elf_file /\ process'[a].stack = NULL /\ process'[a].task = NULL
      /\ \A b \in Address \ {a} : process'[b] = process[b]
  BY <1>1, <1>2, <1>3, <1>4 DEF Types, ProcessType
<1>6. \A b \in Loaded : \A j \in 1 .. 5 : Parts(b)'[j] = Parts(b)[j]
  <2> TAKE b \in Loaded
  <2>1. process'[b] = process[b]
    BY <1>2, <1>5
  <2> QED  BY <1>1, <2>1, PartsKept
<1>7. Moves(Held, Held', a)
  <2>1. \A j \in 1 .. 5 : Local'[j] = NULL
    BY <1>1, LocalsNext, FiveRoles
  <2>2. \A j \in 1 .. 5 :
          Parts(a)'[j] = IF j = 2 THEN Local[1] ELSE IF j = 3 THEN Local[2] ELSE Parts(a)[j]
    <3>1. Parts(a)'[2] = elf_file /\ Parts(a)'[3] = elf_memory[elf_file]
      BY <1>1, <1>3, <1>5, PartsNext
    <3>2. Parts(a)'[1] = Parts(a)[1] /\ Parts(a)'[4] = Parts(a)[4] /\ Parts(a)'[5] = Parts(a)[5]
      BY <1>4, <1>5, PartsAre, PartsNext
    <3> QED  BY <1>3, <3>1, <3>2, FiveRoles
  <2> SUFFICES ASSUME NEW b \in Pointer, NEW j \in 1 .. 5
               PROVE  Held'[b][j] = IF b = NULL THEN NULL
                                    ELSE IF b = a /\ j = 2 THEN Held[NULL][1]
                                    ELSE IF b = a /\ j = 3 THEN Held[NULL][2]
                                    ELSE Held[b][j]
    BY DEF Moves
  <2>3. CASE b = NULL
    BY <2>1, <2>3, HeldNext
  <2>4. CASE b = a
    BY <1>2, <2>2, <2>4, HeldBy, HeldNext
  <2>5. CASE b \in Address \ {a}
    BY <1>2, <1>6, <2>5, HeldBy, HeldNext, Addresses
  <2> QED  BY <2>3, <2>4, <2>5, HeldNext
<1>8. Sound(Held', heap')
  <2>1. Sound(Held, heap) /\ heap' = heap
    BY <1>1 DEF LInv
  <2> QED  BY <1>2, <1>7, <2>1, Moved
<1>9. Types'
  BY <1>1, <1>2, <1>5 DEF Types, TypeOK, Steps, Loading
<1>10. Once' /\ Complete' /\ Progress' /\ ElfLocals' /\ OpenWhileReading'
  <2>1. Once' /\ Complete'
    BY <1>1, <1>2, <1>6 DEF LInv, Once, Complete, Loading
  <2>2. Progress'
    BY <1>0, <1>1, <1>3, <1>5 DEF Progress
  <2> QED  BY <1>1, <2>1, <2>2 DEF LInv, ElfLocals, OpenWhileReading
<1> QED  BY <1>8, <1>9, <1>10 DEF LInv, Sound

LEMMA MapStep == LInv /\ Map => LInv'
<1> SUFFICES ASSUME LInv, Map PROVE LInv'
  OBVIOUS
<1>0. PICK a, s : a = new.address /\ s = new.slot
  OBVIOUS
<1>1. /\ pc = "map" /\ pc' = "idle" /\ new' = NoLoad /\ elf_file' = NULL
      /\ processes' = [processes EXCEPT ![s] = a]
      /\ file' = [file EXCEPT ![s] = new.file]
      /\ UNCHANGED <<heap, process, elf_memory, open, copy, wild>>
  BY <1>0 DEF Map, Return, memory
<1>2. /\ Loading /\ Types /\ TypeOK /\ a \in Address /\ a # NULL /\ a \notin Loaded
      /\ s \in Slots /\ processes[s] = NULL
      /\ Known = Loaded \cup {a} /\ Loaded \subseteq Address
  BY <1>0, <1>1, KnownAddresses, Addresses DEF LInv, Types, TypeOK, Once, Loading
<1>3. /\ processes' \in [Slots -> Pointer] /\ processes'[s] = a
      /\ \A u \in Slots \ {s} : processes'[u] = processes[u]
      /\ file' \in [Slots -> File \cup {NoFile}]
  BY <1>1, <1>2, Addresses DEF Types, TypeOK
<1>4. Loaded' = Known /\ Known' = Known
  <2>1. Loaded' = Loaded \cup {a}
    BY <1>2, <1>3 DEF Loaded
  <2> QED  BY <1>1, <1>2, <2>1 DEF Known, NoLoad
<1>5. \A b \in Known : \A j \in 1 .. 5 : Parts(b)'[j] = Parts(b)[j]
  BY <1>1, PartsKept
<1>6. Sound(Held', heap')
  <2>1. \A j \in 1 .. 5 : Local'[j] = NULL
    BY <1>1, LocalsNext, FiveRoles
  <2>2. \A b \in Pointer, j \in 1 .. 5 : Held'[b][j] \in {NULL, Held[b][j]}
    <3> TAKE b \in Pointer, j \in 1 .. 5
    <3>1. CASE b = NULL
      BY <2>1, <3>1, HeldNext
    <3>2. CASE b \in Address
      BY <1>4, <1>5, <3>2, HeldBy, HeldNext
    <3> QED  BY <3>1, <3>2, HeldNext
  <2>3. Sound(Held, heap) /\ heap' = heap
    BY <1>1 DEF LInv
  <2> QED  BY <2>2, <2>3, Fewer
<1>7. Types'
  <2>1. NULL \in Pointer /\ 0 \in Slots
    BY Addresses
  <2> QED  BY <1>1, <1>2, <1>3, <2>1 DEF Types, TypeOK, Steps, Loading, NoLoad
<1>8. Once'
  <2>1. \A u \in Slots : processes[u] # a
    BY <1>2 DEF Loaded
  <2>2. \A u, v \in Slots : processes'[u] = processes'[v] /\ processes'[u] # NULL => u = v
    BY <1>3, <2>1 DEF LInv, Once
  <2> QED  BY <1>1, <2>2 DEF Once, Loading
<1>9. Complete'
  <2>1. \A j \in 1 .. 5 : Parts(a)[j] # NULL
    <3>1. /\ process[a].data # NULL /\ process[a].stack # NULL /\ process[a].task # NULL
          /\ elf_memory[process[a].data] # NULL
      BY <1>0, <1>1, <1>2 DEF LInv, Progress
    <3> QED  BY <1>2, <3>1, PartsAre, FiveRoles
  <2> QED  BY <1>2, <1>4, <1>5, <2>1 DEF LInv, Complete
<1>10. Progress' /\ ElfLocals' /\ OpenWhileReading'
  BY <1>1 DEF LInv, Progress, ElfLocals, OpenWhileReading, Loading
<1> QED  BY <1>6, <1>7, <1>8, <1>9, <1>10 DEF LInv, Sound

\* process_terminate frees what the process in slot s has, and that only.
LEMMA ExitStep == LInv /\ Kept /\ (\E s \in Slots : Exit(s)) => LInv'
<1> SUFFICES ASSUME LInv, Kept, NEW s \in Slots, Exit(s) PROVE LInv'
  OBVIOUS
<1>0. PICK x, h0, h1, h2, h3 :
        /\ x = processes[s] /\ h0 = FreedAll(heap, allocations[s])
        /\ h1 = Freed(h0, elf_memory[process[x].data])
        /\ h2 = Freed(h1, process[x].data) /\ h3 = Freed(h2, process[x].stack)
  OBVIOUS
<1>1. /\ pc = "idle" /\ x # NULL /\ heap' = Freed(h3, process[x].task)
      /\ processes' = [processes EXCEPT ![s] = NULL]
      /\ file' = [file EXCEPT ![s] = NoFile]
      /\ UNCHANGED <<process, elf_memory, open, pc, new, elf_file, copy, wild>>
  BY <1>0 DEF Exit
<1>2. /\ ~Loading /\ Types /\ TypeOK /\ Known = Loaded /\ Loaded \subseteq Address
      /\ x \in Loaded
  BY <1>0, <1>1, KnownAddresses DEF LInv, Types, Loading, Loaded
<1>3. /\ processes' \in [Slots -> Pointer] /\ processes'[s] = NULL
      /\ \A u \in Slots \ {s} : processes'[u] = processes[u]
      /\ file' \in [Slots -> File \cup {NoFile}]
  BY <1>1, <1>2, Addresses DEF Types, TypeOK
<1>4. Loaded' = Loaded \ {x} /\ Known' = Loaded \ {x}
  <2>1. \A u \in Slots \ {s} : processes[u] # x
    BY <1>0, <1>1 DEF LInv, Once
  <2>2. Loaded' = Loaded \ {x}
    BY <1>0, <1>1, <1>3, <2>1 DEF Loaded
  <2>3. new'.address = NULL
    BY <1>1, <1>2 DEF TypeOK
  <2> QED  BY <2>2, <2>3 DEF Known
<1>5. /\ HeapOK(heap')
      /\ \A y \in DOMAIN heap :
           y \notin {Parts(x)[2], Parts(x)[3], Parts(x)[4], Parts(x)[5]} \cup allocations[s] =>
             y \in DOMAIN heap'
  <2>0. HeapOK(h0) /\ DOMAIN h0 = DOMAIN heap \ allocations[s]
    BY <1>0, <1>2, FreedAllOK DEF Types
  <2>1. HeapOK(h1) /\ DOMAIN h1 = DOMAIN h0 \ {elf_memory[process[x].data]}
    BY <1>0, <2>0, FreedOK
  <2>2. HeapOK(h2) /\ DOMAIN h2 = DOMAIN h1 \ {process[x].data}
    <3>1. HeapOK(h1) /\ h2 = Freed(h1, process[x].data)
      BY <1>0, <2>1
    <3> QED  BY <3>1, FreedOK
  <2>3. HeapOK(h3) /\ DOMAIN h3 = DOMAIN h2 \ {process[x].stack}
    <3>1. HeapOK(h2) /\ h3 = Freed(h2, process[x].stack)
      BY <1>0, <2>2
    <3> QED  BY <3>1, FreedOK
  <2>4. HeapOK(heap') /\ DOMAIN heap' = DOMAIN h3 \ {process[x].task}
    BY <1>1, <2>3, FreedOK
  <2>5. /\ Parts(x)[2] = process[x].data /\ Parts(x)[4] = process[x].stack
        /\ Parts(x)[5] = process[x].task /\ Parts(x)[3] = elf_memory[process[x].data]
    <3>1. Parts(x)[2] # NULL
      BY <1>2 DEF LInv, Complete
    <3> QED  BY <3>1, PartsAre
  <2> QED  BY <2>0, <2>1, <2>2, <2>3, <2>4, <2>5
<1>6. \A b \in Known : \A j \in 1 .. 5 : Parts(b)'[j] = Parts(b)[j]
  BY <1>1, PartsKept
<1>7. \A b \in Pointer, j \in 1 .. 5 :
        Held'[b][j] = IF b \in Loaded \ {x} THEN Parts(b)[j] ELSE NULL
  <2>1. \A j \in 1 .. 5 : Local'[j] = NULL
    BY <1>1, LocalsNext, FiveRoles
  <2> TAKE b \in Pointer, j \in 1 .. 5
  <2>2. CASE b = NULL
    BY <1>2, <2>1, <2>2, HeldNext, Addresses
  <2>3. CASE b \in Address
    BY <1>2, <1>4, <1>6, <2>3, HeldBy, HeldNext
  <2> QED  BY <2>2, <2>3, HeldNext
<1>8. \A b \in Loaded : Held[b] = Parts(b) /\ b \in Pointer
  BY <1>2, HeldBy, Addresses
<1>9. Sound(Held', heap')
  <2>1. \A b \in Pointer, j \in 1 .. 5 : Held'[b][j] \in {NULL, Held[b][j]}
    BY <1>7, <1>8
  <2>2. ASSUME NEW b \in Pointer, NEW j \in 1 .. 5, Held'[b][j] # NULL,
               Held'[b][j] \in DOMAIN heap
        PROVE  Held'[b][j] \in DOMAIN heap'
    <3>1. b \in Loaded /\ Held[b][j] = Held'[b][j] /\ b # x
      BY <1>7, <1>8, <2>2
    <3>2. \A k \in 1 .. 5 : Held[b][j] # Held[x][k]
      BY <1>2, <1>8, <2>2, <3>1 DEF LInv, Sound
    <3>3. \A k \in 1 .. 5 : Held'[b][j] # Parts(x)[k]
      BY <1>2, <1>8, <3>1, <3>2
    <3>4. Held'[b][j] \notin allocations[s]
      BY <3>1 DEF Kept
    <3> QED  BY <1>5, <2>2, <3>3, <3>4
  <2>3. Sound(Held, heap)
    BY DEF LInv
  <2> QED  BY <2>1, <2>2, <2>3, Fewer
<1>10. Types'
  <2>1. DOMAIN heap' \subseteq Address /\ Taken(heap') \subseteq Block
    BY <1>5, HeapTypes
  <2> QED  BY <1>1, <1>2, <1>3, <1>5, <2>1 DEF Types, TypeOK, Steps, Loading
<1>11. Once'
  <2>1. \A u, v \in Slots : processes'[u] = processes'[v] /\ processes'[u] # NULL => u = v
    BY <1>3 DEF LInv, Once
  <2> QED  BY <1>1, <2>1 DEF Once, Loading
<1>12. Complete'
  BY <1>2, <1>4, <1>6 DEF LInv, Complete
<1>13. Progress' /\ ElfLocals' /\ OpenWhileReading'
  BY <1>1 DEF LInv, Progress, ElfLocals, OpenWhileReading, Loading
<1> QED  BY <1>9, <1>10, <1>11, <1>12, <1>13 DEF LInv, Sound

\* process_malloc and process_free change nothing but the heap, whose blocks in
\* the processes' roles stay.
LEMMA MemoryStep ==
  ASSUME LInv, pc = "idle", HeapOK(heap'),
         elf_memory' \in [Address -> Pointer],
         \A b \in Known : process[b].data # NULL =>
           elf_memory'[process[b].data] = elf_memory[process[b].data],
         \A b \in Pointer, j \in 1 .. 5 : Held[b][j] # NULL => Held[b][j] \in DOMAIN heap',
         UNCHANGED <<process, processes, file, open, pc, new, elf_file, copy, wild>>
  PROVE  LInv' /\ \A b \in Pointer, j \in 1 .. 5 : Held'[b][j] = Held[b][j]
<1>1. /\ Types /\ TypeOK /\ Loaded' = Loaded /\ Known' = Known /\ Known = Loaded
      /\ Known \subseteq Address
  BY KnownAddresses DEF LInv, Types, Known, Loaded, Loading
<1>2. \A b \in Known : \A j \in 1 .. 5 : Parts(b)'[j] = Parts(b)[j]
  BY PartsKept
<1>3. \A b \in Pointer, j \in 1 .. 5 : Held'[b][j] = Held[b][j]
  <2>1. \A j \in 1 .. 5 : Local'[j] = NULL /\ Local[j] = NULL
    BY Locals, LocalsNext, FiveRoles
  <2> TAKE b \in Pointer, j \in 1 .. 5
  <2>2. CASE b = NULL
    BY <2>1, <2>2, HeldBy, HeldNext
  <2>3. CASE b \in Address
    BY <1>1, <1>2, <2>3, HeldBy, HeldNext
  <2> QED  BY <2>2, <2>3, HeldNext
<1>4. Sound(Held', heap')
  <2>1. Sound(Held, heap)
    BY DEF LInv
  <2> QED  BY <1>3, <2>1, Fewer
<1>5. Types'
  <2>1. DOMAIN heap' \subseteq Address /\ Taken(heap') \subseteq Block
    BY HeapTypes
  <2> QED  BY <1>1, <2>1 DEF Types, TypeOK, Steps, Loading
<1>6. Once' /\ Complete' /\ Progress' /\ ElfLocals' /\ OpenWhileReading'
  <2>1. Complete'
    BY <1>1, <1>2 DEF LInv, Complete
  <2> QED
    BY <1>1, <2>1 DEF LInv, Once, Progress, ElfLocals, OpenWhileReading, Loading
<1> QED  BY <1>3, <1>4, <1>5, <1>6 DEF LInv, Sound

\* The sizes that are asked for.
LEMMA MallocGives ==
  ASSUME LInv, NEW s \in Slots, Malloc(s)
  PROVE  \E size \in Nat \ {0} :
           LET ptr == Given(size)
               end == AlignToUpperPage(ptr + size)
               mapped == MapTo(directory[s], ptr, ptr, end, UserFlags \cup {"write"})
           IN  /\ Obtained(size) /\ NoElfFile(size) /\ mapped.ok
               /\ directory' = [directory EXCEPT ![s] = mapped.chunk]
               /\ allocations' = [allocations EXCEPT ![s] = @ \cup {ptr}]
               /\ granted' = [granted EXCEPT ![s] = @ \cup Pages(ptr, end)]
BY LoadAssumption DEF Malloc

LEMMA MallocStep ==
  ASSUME LInv, NEW s \in Slots, Malloc(s)
  PROVE  LInv' /\ \A b \in Pointer, j \in 1 .. 5 : Held'[b][j] = Held[b][j]
<1>1. PICK size \in Nat \ {0} : Obtained(size) /\ NoElfFile(size)
  BY MallocGives
<1>2. PICK g : /\ g = Given(size) /\ g \in Address /\ g # NULL /\ g \notin DOMAIN heap
               /\ HeapOK(heap') /\ DOMAIN heap' = DOMAIN heap \cup {g}
               /\ \A b \in Known : process[b].data # NULL => process[b].data # g
  BY <1>1, Obtains
<1>3. elf_memory' = [elf_memory EXCEPT ![g] = NULL] /\ pc = "idle"
      /\ UNCHANGED <<process, processes, file, open, pc, new, elf_file, copy, wild>>
  BY <1>1, <1>2 DEF NoElfFile, Malloc
<1>4. Types /\ TypeOK /\ Known \subseteq Address
  BY KnownAddresses DEF LInv, Types
<1>5. elf_memory' \in [Address -> Pointer]
  BY <1>2, <1>3, <1>4, Addresses DEF TypeOK
<1>6. \A b \in Known : process[b].data # NULL =>
        elf_memory'[process[b].data] = elf_memory[process[b].data]
  BY <1>2, <1>3, <1>4 DEF Types, TypeOK, ProcessType, Pointer
<1>7. \A b \in Pointer, j \in 1 .. 5 : Held[b][j] # NULL => Held[b][j] \in DOMAIN heap'
  BY <1>2 DEF LInv, Sound
<1> QED  BY <1>2, <1>3, <1>5, <1>6, <1>7, MemoryStep

LEMMA FreeMemoryStep ==
  ASSUME LInv, Kept, NEW s \in Slots, FreeMemory(s)
  PROVE  LInv' /\ \A b \in Pointer, j \in 1 .. 5 : Held'[b][j] = Held[b][j]
<1>1. PICK x \in allocations[s] : heap' = Freed(heap, x)
  BY DEF FreeMemory
<1>2. HeapOK(heap') /\ DOMAIN heap' = DOMAIN heap \ {x}
  BY <1>1, FreedOK DEF LInv, Types
<1>3. \A b \in Pointer, j \in 1 .. 5 : Held[b][j] # NULL => Held[b][j] \in DOMAIN heap'
  BY <1>1, <1>2 DEF LInv, Sound, Kept
<1>4. /\ elf_memory' = elf_memory /\ pc = "idle"
      /\ UNCHANGED <<process, processes, file, open, pc, new, elf_file, copy, wild>>
  BY DEF FreeMemory
<1>5. elf_memory' \in [Address -> Pointer]
  BY <1>4 DEF LInv, Types, TypeOK
<1> QED  BY <1>2, <1>3, <1>4, <1>5, MemoryStep

LEMMA CopyStringStep == LInv /\ (\E s \in Slots : CopyString(s)) => LInv'
<1> SUFFICES ASSUME LInv, NEW s \in Slots, CopyString(s) PROVE LInv'
  OBVIOUS
<1>0. PICK g : g = Given(Struct)
  OBVIOUS
<1>1. /\ pc = "idle" /\ pc' = "copying" /\ Obtained(Struct) /\ copy'.tmp = g
      /\ elf_memory' = [elf_memory EXCEPT ![g] = NULL]
      /\ UNCHANGED <<process, processes, file, open, new, elf_file, wild>>
  BY <1>0 DEF CopyString, NoElfFile
<1>2. /\ g \in Address /\ g # NULL /\ g \notin DOMAIN heap
      /\ HeapOK(heap') /\ DOMAIN heap' = DOMAIN heap \cup {g}
      /\ DOMAIN heap' \subseteq Address /\ Taken(heap') \subseteq Block
      /\ \A b \in Known : process[b].data # NULL => process[b].data # g
  BY <1>0, <1>1, Addresses, Obtains
<1>3. /\ Types /\ TypeOK /\ Loaded' = Loaded /\ Known' = Known /\ Known = Loaded
      /\ Known \subseteq Address
  BY <1>1, KnownAddresses DEF LInv, Types, Known, Loaded, Loading
<1>4. \A b \in Known : \A j \in 1 .. 5 : Parts(b)'[j] = Parts(b)[j]
  <2> TAKE b \in Known
  <2>1. process'[b] = process[b]
    BY <1>1
  <2>2. process[b].data # NULL => elf_memory'[process[b].data] = elf_memory[process[b].data]
    BY <1>1, <1>2, <1>3 DEF Types, TypeOK, ProcessType, Pointer
  <2> QED  BY <2>1, <2>2, PartsKept
<1>5. Adds(Held, Held', NULL, 3, g)
  <2>1. \A j \in 1 .. 5 : Local'[j] = IF j = 3 THEN g ELSE Local[j]
    BY <1>1, Locals, LocalsNext, FiveRoles
  <2> SUFFICES ASSUME NEW b \in Pointer, NEW j \in 1 .. 5
               PROVE  Held'[b][j] = IF b = NULL /\ j = 3 THEN g ELSE Held[b][j]
    BY DEF Adds
  <2>2. CASE b = NULL
    BY <2>1, <2>2, HeldBy, HeldNext
  <2>3. CASE b \in Address
    <3>1. b # NULL
      BY <2>3, Addresses
    <3>2. /\ Held[b] = IF b \in Known THEN Parts(b) ELSE Nothing
          /\ Held'[b] = IF b \in Known THEN Parts(b)' ELSE Nothing
      BY <1>3, <2>3, HeldBy, HeldNext
    <3> QED  BY <1>4, <3>1, <3>2
  <2> QED  BY <2>2, <2>3, HeldNext
<1>6. Sound(Held', heap')
  <2>1. NULL \in Pointer /\ 3 \in 1 .. 5 /\ DOMAIN heap \subseteq DOMAIN heap'
        /\ g \in DOMAIN heap'
    BY <1>2, Addresses
  <2>2. Sound(Held, heap)
    BY DEF LInv
  <2> QED  BY <1>2, <1>5, <2>1, <2>2, OneMore
<1>7. Types'
  <2>1. elf_memory' \in [Address -> Pointer]
    BY <1>1, <1>2, <1>3, Addresses DEF TypeOK
  <2> QED  BY <1>1, <1>2, <1>3, <2>1 DEF Types, TypeOK, Steps, Loading
<1>8. Once' /\ Complete' /\ Progress' /\ ElfLocals' /\ OpenWhileReading'
  <2>1. Complete'
    BY <1>3, <1>4 DEF LInv, Complete
  <2> QED
    BY <1>1, <1>3, <2>1 DEF LInv, Once, Progress, ElfLocals, OpenWhileReading, Loading
<1> QED  BY <1>6, <1>7, <1>8 DEF LInv, Sound

LEMMA CopyBackStep == LInv /\ CopyBack => LInv'
<1> SUFFICES ASSUME LInv, CopyBack PROVE LInv'
  OBVIOUS
<1>0. PICK g : g = copy.tmp
  OBVIOUS
<1>1. /\ pc = "copying" /\ pc' = "idle" /\ heap' = Freed(heap, g)
      /\ UNCHANGED <<process, elf_memory, processes, file, open, new, elf_file, wild>>
  BY <1>0 DEF CopyBack
<1>2. /\ Types /\ TypeOK /\ Loaded' = Loaded /\ Known' = Known /\ Known = Loaded
      /\ Known \subseteq Address
  BY <1>1, KnownAddresses DEF LInv, Types, Known, Loaded, Loading
<1>3. /\ HeapOK(heap') /\ DOMAIN heap' = DOMAIN heap \ {g}
      /\ DOMAIN heap' \subseteq Address /\ Taken(heap') \subseteq Block
  BY <1>1, <1>2, FreedOK, HeapTypes DEF Types
<1>4. \A b \in Known : \A j \in 1 .. 5 : Parts(b)'[j] = Parts(b)[j]
  BY <1>1, PartsKept
<1>5. \A b \in Pointer, j \in 1 .. 5 :
        Held'[b][j] = IF b \in Known THEN Held[b][j] ELSE NULL
  <2>1. \A j \in 1 .. 5 : Local'[j] = NULL
    BY <1>1, LocalsNext, FiveRoles
  <2> TAKE b \in Pointer, j \in 1 .. 5
  <2>2. CASE b = NULL
    BY <1>2, <2>1, <2>2, HeldNext, Addresses
  <2>3. CASE b \in Address
    BY <1>2, <1>4, <2>3, HeldBy, HeldNext
  <2> QED  BY <2>2, <2>3, HeldNext
<1>6. Sound(Held', heap')
  <2>1. \A b \in Pointer, j \in 1 .. 5 : Held'[b][j] \in {NULL, Held[b][j]}
    BY <1>5
  <2>2. ASSUME NEW b \in Pointer, NEW j \in 1 .. 5, Held'[b][j] # NULL,
               Held'[b][j] \in DOMAIN heap
        PROVE  Held'[b][j] \in DOMAIN heap'
    <3>1. Held[b][j] = Held'[b][j] /\ b # NULL
      BY <1>2, <1>5, <2>2, Addresses
    <3>2. NULL \in Pointer /\ 3 \in 1 .. 5 /\ Held[NULL][3] = g
      BY <1>0, <1>1, HeldBy, Locals, Addresses
    <3>3. Held[b][j] # g
      BY <2>2, <3>1, <3>2 DEF LInv, Sound
    <3> QED  BY <1>3, <2>2, <3>1, <3>3
  <2>3. Sound(Held, heap)
    BY DEF LInv
  <2> QED  BY <2>1, <2>2, <2>3, Fewer
<1>7. Types'
  BY <1>1, <1>2, <1>3 DEF Types, TypeOK, Steps, Loading
<1>8. Once' /\ Complete' /\ Progress' /\ ElfLocals' /\ OpenWhileReading'
  <2>1. Complete'
    BY <1>2, <1>4 DEF LInv, Complete
  <2> QED
    BY <1>1, <1>2, <2>1 DEF LInv, Once, Progress, ElfLocals, OpenWhileReading, Loading
<1> QED  BY <1>6, <1>7, <1>8 DEF LInv, Sound

\* What the loaded programs consist of stays.
LEMMA PartsStay ==
  ASSUME LInv, Next, NEW a \in Loaded
  PROVE  /\ process'[a] = process[a]
         /\ \A i \in 1 .. 5 : Parts(a)'[i] = Parts(a)[i]
         /\ elf_memory'[process[a].data] = elf_memory[process[a].data]
         /\ process[a].data \in Address
<1>0. /\ Types /\ TypeOK /\ Sound(Held, heap) /\ a \in Known /\ a \in Address /\ a # NULL
      /\ a \in Pointer
  BY KnownAddresses, Addresses DEF LInv, Types, Known
<1>1. process[a].data # NULL
  <2>1. Parts(a)[2] # NULL
    BY DEF LInv, Complete
  <2> QED  BY <2>1, PartsAre
<1>2. a \in DOMAIN heap /\ process[a].data \in DOMAIN heap /\ process[a].data \in Address
  BY <1>0, <1>1, PartsAllocated DEF TypeOK
<1>3. /\ process \in [Address -> ProcessType] /\ elf_memory \in [Address -> Pointer]
  BY <1>0 DEF Types, TypeOK
<1>4. /\ Struct \in Nat \ {0} /\ StackSize \in Nat \ {0}
      /\ Loading => new.file.size \in Nat \ {0}
      /\ Loading => a # new.address
      /\ \A size \in Nat \ {0} : Given(size) # NULL => Given(size) \in Address /\ Given(size) \notin DOMAIN heap
  BY <1>0, Addresses, GivenFacts DEF LInv, Types, Once
<1>5. pc \in {"elf_read", "validate"} => process[a].data # elf_file
  <2> SUFFICES ASSUME pc \in {"elf_read", "validate"}, process[a].data = elf_file PROVE FALSE
    OBVIOUS
  <2>1. Held[NULL][1] = elf_file /\ NULL \in Pointer
    BY HeldBy, Locals, Addresses
  <2>2. Held[a][2] = elf_file
    BY <1>0, HeldBy, PartsAre
  <2> QED  BY <1>0, <1>1, <2>1, <2>2 DEF Sound
<1>6. process'[a] = process[a] /\ elf_memory'[process[a].data] = elf_memory[process[a].data]
  <2>1. CASE Start \/ ElfOpen \/ Stack \/ Task \/ \E s \in Slots : CopyString(s)
    <3>1. PICK g \in Address \ DOMAIN heap : elf_memory' = [elf_memory EXCEPT ![g] = NULL]
      <4>1. ASSUME NEW size \in Nat \ {0}, Obtained(size), NoElfFile(size)
            PROVE  \E g \in Address \ DOMAIN heap : elf_memory' = [elf_memory EXCEPT ![g] = NULL]
        BY <1>4, <4>1 DEF Obtained, NoElfFile
      <4> QED  BY <1>4, <2>1, <4>1 DEF Start, ElfOpen, Stack, Task, CopyString
    <3>2. elf_memory'[process[a].data] = elf_memory[process[a].data]
      BY <1>2, <1>3, <3>1
    <3>3. process'[a] = process[a]
      <4>1. CASE Start
        BY <1>0, <1>2, <1>3, <1>4, <4>1 DEF Start, Obtained
      <4>2. CASE ElfOpen \/ \E s \in Slots : CopyString(s)
        BY <4>2 DEF ElfOpen, CopyString
      <4>3. CASE Stack \/ Task
        BY <1>0, <1>3, <1>4, <4>3 DEF Stack, Task, Loading
      <4> QED  BY <2>1, <4>1, <4>2, <4>3
    <3> QED  BY <3>2, <3>3
  <2>2. CASE ElfMissing \/ ElfUnreadable \/ BinaryFails \/ NoStack \/ MapFails
    BY <2>2 DEF ElfMissing, ElfUnreadable, BinaryFails, NoStack, MapFails, Fail
  <2>3. CASE ElfRead
    BY <1>2, <1>3, <1>4, <1>5, <2>3 DEF ElfRead, Obtained, Loading
  <2>4. CASE BinaryRead
    <3>1. elf_memory'[process[a].data] = elf_memory[process[a].data]
      BY <1>2, <1>3, <1>4, <2>4 DEF BinaryRead, Obtained, NoElfFile, Loading
    <3>2. process'[a] = process[a]
      BY <1>0, <1>3, <1>4, <2>4 DEF BinaryRead, Loading
    <3> QED  BY <3>1, <3>2
  <2>5. CASE OutOfMemoryInElf \/ TaskOfBinary \/ NoTask
    BY <2>5 DEF OutOfMemoryInElf, TaskOfBinary, NoTask, GoWild, memory
  <2>6. CASE ElfValid
    BY <1>0, <1>3, <1>4, <2>6 DEF ElfValid, Loading
  <2>7. CASE ElfInvalid \/ BinaryOpen \/ Map \/ CopyBack \/ \E s \in Slots : Exit(s) \/ FreeMemory(s)
    BY <2>7 DEF ElfInvalid, BinaryOpen, Map, CopyBack, Exit, FreeMemory, memory
  <2>8. ASSUME NEW s \in Slots, Malloc(s)
        PROVE  process'[a] = process[a] /\ elf_memory'[process[a].data] = elf_memory[process[a].data]
    <3>1. PICK size \in Nat \ {0} : Obtained(size) /\ NoElfFile(size)
      BY <2>8, MallocGives
    <3>2. process' = process
      BY <2>8 DEF Malloc
    <3> QED  BY <1>2, <1>3, <1>4, <3>1, <3>2 DEF Obtained, NoElfFile
  <2> QED
    BY <2>1, <2>2, <2>3, <2>4, <2>5, <2>6, <2>7, <2>8 DEF Next
<1>7. \A i \in 1 .. 5 : Parts(a)'[i] = Parts(a)[i]
  BY <1>6, PartsKept
<1> QED  BY <1>2, <1>6, <1>7

LEMMA InitHolds == Init => LInv
<1> SUFFICES ASSUME Init PROVE LInv
  OBVIOUS
<1>1. /\ pc = "idle" /\ heap = EmptyHeap /\ open = {} /\ new = NoLoad
      /\ elf_file = NULL /\ wild = "no"
      /\ processes = [s \in Slots |-> NULL]
      /\ process = [a \in Address |-> NewProcess]
      /\ elf_memory = [a \in Address |-> NULL]
      /\ file = [s \in Slots |-> NoFile]
  BY DEF Init
<1>2. HeapOK(heap) /\ DOMAIN heap \subseteq Address /\ Taken(heap) \subseteq Block
  BY <1>1, EmptyHeapOK, HeapTypes
<1>3. NULL \in Pointer /\ 0 \in Slots
  BY Addresses
<1>4. Types
  <2>1. /\ process \in [Address -> ProcessType] /\ elf_memory \in [Address -> Pointer]
        /\ processes \in [Slots -> Pointer]
    BY <1>1, <1>3 DEF ProcessType, NewProcess
  <2> QED  BY <1>1, <1>2, <1>3, <2>1 DEF Types, TypeOK, Steps, Loading, NoLoad
<1>5. Loaded = {} /\ Known = {}
  BY <1>1 DEF Loaded, Known, NoLoad
<1>6. Once /\ Complete /\ Progress /\ ElfLocals /\ OpenWhileReading
  BY <1>1, <1>5 DEF Once, Complete, Progress, ElfLocals, OpenWhileReading, Loading
<1>7. Sound(Held, heap)
  <2>1. \A j \in 1 .. 5 : Local[j] = NULL
    BY <1>1, Locals, FiveRoles
  <2>2. \A a \in Pointer, j \in 1 .. 5 : Held[a][j] = NULL
    BY <1>5, <2>1, HeldBy, HeldNext
  <2> QED  BY <2>2 DEF Sound
<1> QED  BY <1>4, <1>6, <1>7 DEF LInv

LEMMA NextHolds == LInv /\ Kept /\ [Next]_vars => LInv'
<1>1. ASSUME LInv, UNCHANGED vars PROVE LInv'
  <2>1. UNCHANGED <<heap, process, elf_memory, processes, file, open, pc, new, elf_file, copy, wild>>
    BY <1>1 DEF vars, memory, loaded
  <2> QED
    BY <1>1, <2>1
    DEF LInv, Types, TypeOK, Once, Complete, Progress, ElfLocals, OpenWhileReading, Sound, Held,
        Local, Known, Loaded, Parts, Loading
<1>2. ASSUME LInv, Kept, Next PROVE LInv'
  BY <1>2, StartStep, ElfOpenStep, ElfMissingStep, ElfUnreadableStep, ElfReadStep,
     UndefinedStep, ElfValidStep, ElfInvalidStep, BinaryOpenStep, BinaryFailsStep,
     BinaryReadStep, StackStep, NoStackStep, TaskStep, MapStep, MapFailsStep, ExitStep,
     MallocStep, FreeMemoryStep, CopyStringStep, CopyBackStep
  DEF Next
<1> QED  BY <1>1, <1>2

\* Which block is in a role after a step: one that nobody had, or one that was in a
\* role before.
Comes(x) ==
  \/ x \notin DOMAIN heap /\ allocations' = allocations
  \/ \E c \in Pointer, k \in 1 .. 5 : Held[c][k] = x

\* Only malloc, free and the exit change what programs were given.
LEMMA GivenStays ==
  ASSUME LInv, Next, ~ \E s \in Slots : Malloc(s) \/ FreeMemory(s) \/ Exit(s)
  PROVE  allocations' = allocations
BY DEF Next, Start, ElfOpen, ElfMissing, ElfUnreadable, ElfRead, OutOfMemoryInElf, ElfValid,
       ElfInvalid, BinaryOpen, BinaryFails, BinaryRead, Stack, NoStack, Task, TaskOfBinary, NoTask,
       Map, MapFails, CopyString, CopyBack, Fail, GoWild, loaded, malloced

\* The local variables and the process that is being loaded get a fresh block, or
\* one that was in the local variables.
LEMMA NewRoles ==
  ASSUME LInv, LInv', Next
  PROVE  /\ \A j \in 1 .. 5 : Local'[j] # NULL => Comes(Local'[j])
         /\ \A b \in Known' \ Loaded, j \in 1 .. 5 : Parts(b)'[j] # NULL => Comes(Parts(b)'[j])
<1>0. /\ Types /\ TypeOK /\ NULL \in Pointer /\ Held[NULL] = Local
      /\ process \in [Address -> ProcessType] /\ elf_memory \in [Address -> Pointer]
      /\ Struct \in Nat \ {0} /\ StackSize \in Nat \ {0}
  BY HeldBy, Addresses DEF LInv, Types, TypeOK
<1>1. \A j \in 1 .. 5 : Comes(Local[j])
  BY <1>0 DEF Comes
<1>2. ASSUME Loading, NEW a, a = new.address
      PROVE  /\ a \in Address /\ a # NULL /\ Known = Loaded \cup {a} /\ Held[a] = Parts(a)
             /\ \A j \in 1 .. 5 : Comes(Parts(a)[j])
             /\ process[a].data # NULL => process[a].data \in DOMAIN heap /\ process[a].data \in Address
  <2>1. a \in Address /\ a # NULL /\ Known = Loaded \cup {a} /\ a \in Pointer /\ a \in Known
    BY <1>0, <1>2, KnownAddresses, Addresses
  <2>2. Held[a] = Parts(a)
    BY <2>1, HeldBy
  <2>3. \A j \in 1 .. 5 : Comes(Parts(a)[j])
    BY <2>1, <2>2 DEF Comes
  <2>4. process[a].data # NULL => process[a].data \in DOMAIN heap
    BY <1>0, <2>1, PartsAllocated DEF LInv
  <2> QED  BY <1>0, <2>1, <2>2, <2>3, <2>4 DEF TypeOK
<1>3. ASSUME NEW size \in Nat \ {0}, Obtained(size), ~ \E s \in Slots : Malloc(s) \/ FreeMemory(s) \/ Exit(s)
      PROVE  Comes(Given(size)) /\ Given(size) \in Address /\ Given(size) \notin DOMAIN heap
  BY <1>3, Obtains, GivenStays DEF Comes
<1>4. CASE Start
  <2>1. PICK g : g = Given(Struct)
    OBVIOUS
  <2>2. /\ Obtained(Struct) /\ pc = "idle" /\ pc' = "elf_load" /\ new'.address = g
        /\ processes' = processes /\ process' = [process EXCEPT ![g] = NewProcess]
    BY <1>4, <2>1 DEF Start, loaded
  <2>3. ~ \E s \in Slots : Malloc(s) \/ FreeMemory(s) \/ Exit(s)
    BY <2>2 DEF Malloc, FreeMemory, Exit
  <2>4. Comes(g) /\ process'[g] = NewProcess
    BY <1>0, <1>3, <2>1, <2>2, <2>3
  <2>5. Known' = Loaded \cup {g} \/ Known' = Loaded
    BY <2>2 DEF Known, Loaded
  <2>6. /\ Parts(g)'[1] = g /\ Parts(g)'[2] = NULL /\ Parts(g)'[3] = NULL
        /\ Parts(g)'[4] = NULL /\ Parts(g)'[5] = NULL
    BY <2>4, PartsNext DEF NewProcess
  <2>7. \A j \in 1 .. 5 : Local'[j] = NULL
    BY <2>2, LocalsNext, FiveRoles
  <2> QED  BY <2>4, <2>5, <2>6, <2>7, FiveRoles
\* The steps of a load that keep the processes in the table.
<1>5. ASSUME Loading, pc' # "idle", new' = new, processes' = processes
      PROVE  Known' = Known
  BY <1>5 DEF Known, Loaded
<1>6. CASE ElfOpen
  <2>1. PICK a, g : a = new.address /\ g = Given(Struct)
    OBVIOUS
  <2>2. /\ Obtained(Struct) /\ pc = "elf_load" /\ pc' = "elf_read" /\ elf_file' = g
        /\ UNCHANGED <<processes, process, new>>
    BY <1>6, <2>1 DEF ElfOpen, loaded
  <2>3. Loading /\ ~ \E s \in Slots : Malloc(s) \/ FreeMemory(s) \/ Exit(s)
    BY <2>2 DEF Malloc, FreeMemory, Exit, Loading
  <2>4. Comes(g) /\ Known' = Loaded \cup {a}
    BY <1>0, <1>2, <1>3, <1>5, <2>1, <2>2, <2>3
  <2>5. process[a].data = NULL
    BY <2>1, <2>2, <2>3 DEF LInv, Progress
  <2>6. \A j \in 1 .. 5 : Parts(a)'[j] = Parts(a)[j]
    BY <2>2, <2>5, PartsKept
  <2>7. \A j \in 1 .. 5 : Local'[j] = IF j = 1 THEN g ELSE NULL
    BY <2>2, LocalsNext, FiveRoles
  <2> QED  BY <1>2, <2>1, <2>3, <2>4, <2>6, <2>7
<1>7. CASE ElfRead
  <2>1. PICK a, size, g : a = new.address /\ size = new.file.size /\ g = Given(size)
    OBVIOUS
  <2>2. /\ Obtained(size) /\ pc = "elf_read" /\ pc' = "validate"
        /\ elf_memory' = [elf_memory EXCEPT ![g] = NULL, ![elf_file] = g]
        /\ UNCHANGED <<processes, process, new, elf_file>>
    BY <1>7, <2>1 DEF ElfRead, loaded
  <2>3. Loading /\ ~ \E s \in Slots : Malloc(s) \/ FreeMemory(s) \/ Exit(s)
    BY <2>2 DEF Malloc, FreeMemory, Exit, Loading
  <2>31. size \in Nat \ {0} /\ elf_file \in Address
    BY <1>0, <2>1, <2>2, <2>3, Addresses DEF LInv, Types, ElfLocals
  <2>4. Comes(g) /\ g \in Address /\ Known' = Loaded \cup {a}
    BY <1>0, <1>2, <1>3, <1>5, <2>1, <2>2, <2>3, <2>31
  <2>5. process[a].data = NULL
    BY <2>1, <2>2, <2>3 DEF LInv, Progress
  <2>6. \A j \in 1 .. 5 : Parts(a)'[j] = Parts(a)[j]
    BY <2>2, <2>5, PartsKept
  <2>7. \A j \in 1 .. 5 : Local'[j] = IF j = 1 THEN Local[1] ELSE IF j = 2 THEN g ELSE NULL
    <3>1. elf_memory'[elf_file] = g
      BY <1>0, <2>2, <2>31, <2>4
    <3> QED  BY <2>2, <3>1, Locals, LocalsNext, FiveRoles
  <2>8. Comes(Local[1])
    BY <1>1
  <2> QED  BY <1>2, <2>1, <2>3, <2>4, <2>6, <2>7, <2>8
<1>8. CASE ElfValid
  <2>1. PICK a : a = new.address
    OBVIOUS
  <2>2. /\ pc = "validate" /\ pc' = "stack"
        /\ process' = [process EXCEPT ![a].filetype = "elf", ![a].data = elf_file]
        /\ UNCHANGED <<processes, elf_memory, new, elf_file>>
    BY <1>8, <2>1 DEF ElfValid, loaded
  <2>3. Loading
    BY <2>2 DEF Loading
  <2>4. a \in Address /\ Known' = Loaded \cup {a} /\ elf_file # NULL
    BY <1>2, <1>5, <2>1, <2>2, <2>3 DEF LInv, ElfLocals
  <2>5. /\ process'[a].data = elf_file /\ process'[a].stack = process[a].stack
        /\ process'[a].task = process[a].task
    BY <1>0, <2>2, <2>4 DEF ProcessType
  <2>6. /\ Parts(a)'[1] = Parts(a)[1] /\ Parts(a)'[2] = Local[1] /\ Parts(a)'[3] = Local[2]
        /\ Parts(a)'[4] = Parts(a)[4] /\ Parts(a)'[5] = Parts(a)[5]
    <3>1. Local[1] = elf_file /\ Local[2] = elf_memory[elf_file]
      BY <2>2, Locals
    <3>2. Parts(a)'[2] = elf_file /\ Parts(a)'[3] = elf_memory[elf_file]
      <4>1. Parts(a)'[2] = process'[a].data
        BY PartsNext
      <4>2. Parts(a)'[3] = IF process'[a].data = NULL THEN NULL ELSE elf_memory'[process'[a].data]
        BY PartsNext
      <4>3. elf_memory' = elf_memory
        BY <2>2
      <4> QED  BY <2>4, <2>5, <4>1, <4>2, <4>3
    <3>3. Parts(a)'[1] = Parts(a)[1] /\ Parts(a)'[4] = Parts(a)[4] /\ Parts(a)'[5] = Parts(a)[5]
      BY <2>5, PartsAre, PartsNext
    <3> QED  BY <3>1, <3>2, <3>3
  <2>7. \A j \in 1 .. 5 : Local'[j] = NULL
    BY <2>2, LocalsNext, FiveRoles
  <2>8. Comes(Local[1]) /\ Comes(Local[2])
    BY <1>1
  <2>9. Comes(Parts(a)[1]) /\ Comes(Parts(a)[4]) /\ Comes(Parts(a)[5])
    BY <1>2, <2>1, <2>3
  <2> QED  BY <2>4, <2>6, <2>7, <2>8, <2>9, FiveRoles
<1>9. CASE BinaryRead \/ Stack \/ Task
  <2>1. PICK a, size, g :
          /\ a = new.address /\ g = Given(size) /\ Obtained(size) /\ NoElfFile(size)
          /\ \/ pc = "binary_read" /\ size = new.file.size /\ process' = [process EXCEPT ![a].data = g]
             \/ size = StackSize /\ process' = [process EXCEPT ![a].stack = g]
             \/ size = Struct /\ process' = [process EXCEPT ![a].task = g]
    BY <1>9 DEF BinaryRead, Stack, Task
  <2>2. /\ pc \in {"binary_read", "stack", "task"} /\ pc' \in {"stack", "task", "map"}
        /\ UNCHANGED <<processes, new>>
    BY <1>9 DEF BinaryRead, Stack, Task, loaded
  <2>3. Loading /\ ~ \E s \in Slots : Malloc(s) \/ FreeMemory(s) \/ Exit(s)
    BY <2>2 DEF Malloc, FreeMemory, Exit, Loading
  <2>31. size \in Nat \ {0} /\ a \in Address
    BY <1>0, <1>2, <2>1, <2>3, Addresses DEF Types
  <2>4. Comes(g) /\ g \in Address /\ g \notin DOMAIN heap /\ Known' = Loaded \cup {a}
    BY <1>2, <1>3, <1>5, <2>1, <2>2, <2>3, <2>31
  <2>5. elf_memory'[g] = NULL /\ \A x \in Address \ {g} : elf_memory'[x] = elf_memory[x]
    BY <1>0, <2>1, <2>4 DEF NoElfFile
  <2>6. /\ process'[a].data \in {g, process[a].data} /\ process'[a].stack \in {g, process[a].stack}
        /\ process'[a].task \in {g, process[a].task}
    BY <1>0, <2>1, <2>31 DEF ProcessType
  <2>7. /\ process[a].data # NULL => process[a].data \in Address \ {g}
        /\ \A j \in 1 .. 5 : Comes(Parts(a)[j])
    BY <1>2, <2>1, <2>3, <2>4
  <2>8. Parts(a)'[3] = NULL \/ Parts(a)'[3] = Parts(a)[3]
    BY <2>5, <2>6, <2>7, PartsAre, PartsNext
  <2>9. /\ Parts(a)'[1] = Parts(a)[1] /\ Parts(a)'[2] \in {g, Parts(a)[2]}
        /\ Parts(a)'[4] \in {g, Parts(a)[4]} /\ Parts(a)'[5] \in {g, Parts(a)[5]}
    BY <2>6, PartsAre, PartsNext
  <2>10. \A j \in 1 .. 5 : Local'[j] = NULL
    BY <2>2, LocalsNext, FiveRoles
  <2>11. \A j \in 1 .. 5 : Parts(a)'[j] \in {NULL, g, Parts(a)[j]}
    BY <2>8, <2>9, FiveRoles
  <2> QED  BY <2>4, <2>7, <2>10, <2>11
<1>10. CASE ElfInvalid \/ BinaryOpen \/ OutOfMemoryInElf \/ TaskOfBinary \/ NoTask
  <2>1. /\ pc \notin {"idle", "copying"} /\ pc' \in {"binary", "binary_read", "wild"}
        /\ UNCHANGED <<process, elf_memory, processes, new>>
    BY <1>10 DEF ElfInvalid, BinaryOpen, OutOfMemoryInElf, TaskOfBinary, NoTask, GoWild, memory, loaded
  <2>2. PICK a : a = new.address /\ Loading
    BY <2>1 DEF Loading
  <2>3. Known' = Loaded \cup {a} /\ \A j \in 1 .. 5 : Parts(a)'[j] = Parts(a)[j]
    BY <1>2, <1>5, <2>1, <2>2, PartsKept
  <2>4. \A j \in 1 .. 5 : Local'[j] = NULL
    BY <2>1, LocalsNext, FiveRoles
  <2> QED  BY <1>2, <2>2, <2>3, <2>4
<1>11. CASE ElfMissing \/ ElfUnreadable \/ BinaryFails \/ NoStack \/ MapFails
  <2>1. pc' = "idle" /\ new'.address = NULL /\ processes' = processes
    BY <1>11 DEF ElfMissing, ElfUnreadable, BinaryFails, NoStack, MapFails, Fail, Return, NoLoad, loaded
  <2>2. Known' = Loaded
    BY <2>1 DEF Known, Loaded
  <2>3. \A j \in 1 .. 5 : Local'[j] = NULL
    BY <2>1, LocalsNext, FiveRoles
  <2> QED  BY <2>2, <2>3
<1>12. CASE Map
  <2>1. /\ pc = "map" /\ pc' = "idle" /\ new'.address = NULL /\ UNCHANGED <<process, elf_memory>>
        /\ processes' = [processes EXCEPT ![new.slot] = new.address]
    BY <1>12 DEF Map, Return, NoLoad, memory
  <2>2. PICK a : a = new.address /\ Loading
    BY <2>1 DEF Loading
  <2>3. Known' \subseteq Loaded \cup {a}
    BY <1>0, <2>1, <2>2 DEF Known, Loaded, TypeOK
  <2>4. \A j \in 1 .. 5 : Parts(a)'[j] = Parts(a)[j]
    BY <2>1, PartsKept
  <2>5. \A j \in 1 .. 5 : Local'[j] = NULL
    BY <2>1, LocalsNext, FiveRoles
  <2> QED  BY <1>2, <2>2, <2>3, <2>4, <2>5
<1>13. CASE CopyBack \/ \E s \in Slots : Exit(s) \/ Malloc(s) \/ FreeMemory(s)
  <2>1. pc' = "idle" /\ new' = new /\ pc \in {"idle", "copying"}
    BY <1>13 DEF CopyBack, Exit, Malloc, FreeMemory
  <2>2. new'.address = NULL
    BY <1>0, <2>1 DEF TypeOK
  <2>3. processes' = processes \/ \E s \in Slots : processes' = [processes EXCEPT ![s] = NULL]
    BY <1>13 DEF CopyBack, Exit, Malloc, FreeMemory
  <2>4. Known' \subseteq Loaded
    BY <1>0, <2>2, <2>3 DEF Known, Loaded, TypeOK
  <2>5. \A j \in 1 .. 5 : Local'[j] = NULL
    BY <2>1, LocalsNext, FiveRoles
  <2> QED  BY <2>4, <2>5
<1>14. CASE \E s \in Slots : CopyString(s)
  <2>1. PICK g : g = Given(Struct)
    OBVIOUS
  <2>2. /\ Obtained(Struct) /\ pc = "idle" /\ pc' = "copying" /\ copy'.tmp = g
        /\ new' = new /\ processes' = processes
    BY <1>14, <2>1 DEF CopyString
  <2>3. allocations' = allocations /\ new'.address = NULL
    BY <1>0, <1>14, <2>2 DEF CopyString, malloced, TypeOK
  <2>4. Comes(g)
    BY <1>0, <2>1, <2>2, <2>3, Obtains DEF Comes
  <2>5. Known' = Loaded
    <3>1. Loaded' = Loaded
      BY <2>2 DEF Loaded
    <3> QED  BY <2>3, <3>1 DEF Known
  <2>6. \A j \in 1 .. 5 : Local'[j] = IF j = 3 THEN g ELSE NULL
    BY <2>2, LocalsNext, FiveRoles
  <2> QED  BY <2>4, <2>5, <2>6
<1> QED
  BY <1>4, <1>6, <1>7, <1>8, <1>9, <1>10, <1>11, <1>12, <1>13, <1>14 DEF Next

LEMMA RolesCome ==
  ASSUME LInv, LInv', Next, NEW b \in Pointer, NEW j \in 1 .. 5, Held'[b][j] # NULL
  PROVE  Comes(Held'[b][j])
<1>0. Types /\ Loaded \subseteq Address /\ Loaded \subseteq Known
  BY KnownAddresses DEF LInv, Known
<1>1. CASE b = NULL
  BY <1>1, HeldNext, NewRoles
<1>2. CASE b \in Address /\ b \in Known' \ Loaded
  BY <1>2, HeldNext, NewRoles
<1>3. CASE b \in Loaded
  <2>1. Held[b] = Parts(b) /\ Held'[b][j] = Parts(b)'[j]
    <3>1. b \in Address /\ b \in Known
      BY <1>0, <1>3
    <3>2. Held'[b] = IF b \in Known' THEN Parts(b)' ELSE Nothing
      BY <3>1, HeldNext
    <3> QED  BY <3>1, <3>2, HeldBy
  <2>2. Parts(b)'[j] = Parts(b)[j]
    BY <1>3, PartsStay
  <2> QED  BY <2>1, <2>2 DEF Comes
<1>4. CASE b \in Address /\ b \notin Known'
  BY <1>4, HeldBy, HeldNext
<1> QED  BY <1>1, <1>2, <1>3, <1>4, HeldNext

\* What a step frees was in a role, or malloc had given it to the program that
\* frees it or terminates.
LEMMA HeapKeeps ==
  ASSUME LInv, Kept, Next, NEW x \in DOMAIN heap, x \notin DOMAIN heap'
  PROVE  \/ \E c \in Pointer, k \in 1 .. 5 : Held[c][k] = x
         \/ \E s \in Slots : x \in allocations[s] /\ x \notin allocations'[s]
<1>0. /\ Types /\ TypeOK /\ HeapOK(heap) /\ Struct \in Nat \ {0} /\ StackSize \in Nat \ {0}
      /\ (Loading => new.file.size \in Nat \ {0})
  BY Addresses DEF LInv, Types
<1>1. ASSUME NEW size \in Nat \ {0}, Obtained(size) PROVE x \in DOMAIN heap'
  BY <1>1, Obtains
<1>2. ASSUME NEW left, HeapOK(left), DOMAIN heap \subseteq DOMAIN left, Fail(left), Loading
      PROVE  \E c \in Pointer, k \in 1 .. 5 : Held[c][k] = x
  <2>1. PICK a : a = new.address
    OBVIOUS
  <2>2. DOMAIN heap' = DOMAIN left \ {process[a].task}
    BY <1>2, <2>1, FreedOK DEF Fail
  <2>3. x = process[a].task
    BY <1>2, <2>2
  <2>4. a \in Address /\ a \in Known /\ a \in Pointer
    BY <1>0, <1>2, <2>1, KnownAddresses, Addresses
  <2>5. Held[a][5] = x /\ 5 \in 1 .. 5
    BY <2>3, <2>4, HeldBy, PartsAre
  <2> QED  BY <2>4, <2>5
<1>3. ASSUME Fail(heap), Loading PROVE \E c \in Pointer, k \in 1 .. 5 : Held[c][k] = x
  BY <1>0, <1>2, <1>3
<1>4. ASSUME NEW size \in Nat \ {0}, Given(size) # NULL, Fail(With(size)), Loading
      PROVE \E c \in Pointer, k \in 1 .. 5 : Held[c][k] = x
  <2>1. HeapOK(With(size)) /\ DOMAIN heap \subseteq DOMAIN With(size)
    BY <1>0, <1>4, GivenFacts
  <2> QED  BY <1>2, <1>4, <2>1
<1>5. CASE Start \/ ElfOpen \/ Task \/ \E s \in Slots : CopyString(s)
  BY <1>0, <1>1, <1>5 DEF Start, ElfOpen, Task, CopyString
<1>6. CASE ElfMissing
  BY <1>0, <1>3, <1>4, <1>6 DEF ElfMissing, Loading
<1>7. CASE ElfUnreadable \/ BinaryFails \/ NoStack \/ MapFails
  BY <1>0, <1>3, <1>4, <1>7 DEF ElfUnreadable, BinaryFails, NoStack, MapFails, Loading
<1>8. CASE ElfRead \/ BinaryRead
  BY <1>0, <1>1, <1>8 DEF ElfRead, BinaryRead, Loading
<1>9. CASE Stack
  BY <1>0, <1>1, <1>9 DEF Stack
<1>10. CASE OutOfMemoryInElf \/ TaskOfBinary \/ NoTask
  BY <1>10 DEF OutOfMemoryInElf, TaskOfBinary, NoTask, GoWild, memory
<1>11. CASE ElfValid \/ ElfInvalid \/ BinaryOpen \/ Map
  BY <1>11 DEF ElfValid, ElfInvalid, BinaryOpen, Map, memory
<1>12. ASSUME NEW s \in Slots, Exit(s)
       PROVE  \/ \E c \in Pointer, k \in 1 .. 5 : Held[c][k] = x
              \/ \E t \in Slots : x \in allocations[t] /\ x \notin allocations'[t]
  <2>1. PICK a, h0, h1, h2, h3 :
          /\ a = processes[s] /\ h0 = FreedAll(heap, allocations[s])
          /\ h1 = Freed(h0, elf_memory[process[a].data])
          /\ h2 = Freed(h1, process[a].data) /\ h3 = Freed(h2, process[a].stack)
    OBVIOUS
  <2>2. heap' = Freed(h3, process[a].task) /\ a # NULL
        /\ allocations' = [allocations EXCEPT ![s] = {}]
    BY <1>12, <2>1 DEF Exit
  <2>3. HeapOK(h0) /\ DOMAIN h0 = DOMAIN heap \ allocations[s]
    BY <1>0, <2>1, FreedAllOK
  <2>4. HeapOK(h1) /\ DOMAIN h1 = DOMAIN h0 \ {elf_memory[process[a].data]}
    BY <2>1, <2>3, FreedOK
  <2>5. HeapOK(h2) /\ DOMAIN h2 = DOMAIN h1 \ {process[a].data}
    <3>1. HeapOK(h1) /\ h2 = Freed(h1, process[a].data)
      BY <2>1, <2>4
    <3> QED  BY <3>1, FreedOK
  <2>6. HeapOK(h3) /\ DOMAIN h3 = DOMAIN h2 \ {process[a].stack}
    <3>1. HeapOK(h2) /\ h3 = Freed(h2, process[a].stack)
      BY <2>1, <2>5
    <3> QED  BY <3>1, FreedOK
  <2>7. DOMAIN heap' = DOMAIN h3 \ {process[a].task}
    BY <2>2, <2>6, FreedOK
  <2>8. a \in Loaded /\ a \in Known /\ a \in Address /\ a \in Pointer
    <3>1. a \in Loaded
      BY <2>1, <2>2 DEF Loaded
    <3> QED  BY <1>0, <3>1, KnownAddresses, Addresses DEF Known
  <2>9. Held[a] = Parts(a) /\ Parts(a)[2] # NULL
    BY <2>8, HeldBy DEF LInv, Complete
  <2>10. /\ Held[a][2] = process[a].data /\ Held[a][3] = elf_memory[process[a].data]
         /\ Held[a][4] = process[a].stack /\ Held[a][5] = process[a].task
    BY <2>9, PartsAre
  <2>11. CASE x \in allocations[s]
    <3>1. allocations'[s] = {}
      BY <2>2 DEF Kept
    <3> QED  BY <2>11, <3>1
  <2>12. CASE x \notin allocations[s]
    <3>1. x \in {Held[a][2], Held[a][3], Held[a][4], Held[a][5]}
      BY <2>3, <2>4, <2>5, <2>6, <2>7, <2>10, <2>12
    <3>2. 2 \in 1 .. 5 /\ 3 \in 1 .. 5 /\ 4 \in 1 .. 5 /\ 5 \in 1 .. 5
      OBVIOUS
    <3> QED  BY <2>8, <3>1, <3>2
  <2> QED  BY <2>11, <2>12
<1>13. CASE CopyBack
  <2>1. DOMAIN heap' = DOMAIN heap \ {copy.tmp} /\ pc = "copying"
    BY <1>0, <1>13, FreedOK DEF CopyBack
  <2>2. NULL \in Pointer /\ 3 \in 1 .. 5 /\ Held[NULL][3] = copy.tmp
    BY <2>1, HeldBy, Locals, Addresses
  <2> QED  BY <2>1, <2>2
<1>14. ASSUME NEW s \in Slots, FreeMemory(s)
       PROVE  \E t \in Slots : x \in allocations[t] /\ x \notin allocations'[t]
  <2>1. PICK ptr \in allocations[s] : /\ allocations' = [allocations EXCEPT ![s] = @ \ {ptr}]
                                      /\ heap' = Freed(heap, ptr)
    BY <1>14 DEF FreeMemory
  <2>2. DOMAIN heap' = DOMAIN heap \ {ptr}
    BY <1>0, <2>1, FreedOK
  <2>3. x = ptr /\ allocations'[s] = allocations[s] \ {ptr}
    BY <1>14, <2>1, <2>2 DEF Kept
  <2> QED  BY <2>1, <2>3
<1>15. ASSUME NEW s \in Slots, Malloc(s) PROVE FALSE
  BY <1>1, <1>15, MallocGives
<1> QED
  BY <1>5, <1>6, <1>7, <1>8, <1>9, <1>10, <1>11, <1>12, <1>13, <1>14, <1>15 DEF Next

\* What malloc has given stays with the program, but for what is freed.
LEMMA KeptNext == LInv /\ Kept /\ Next => Kept'
<1> SUFFICES ASSUME LInv, Kept, Next PROVE Kept'
  OBVIOUS
<1>0. /\ LInv' /\ Types /\ allocations \in [Slots -> SUBSET Address]
  BY NextHolds DEF Kept, LInv
<1>1. CASE \E s \in Slots : Malloc(s)
  <2>1. PICK s \in Slots : Malloc(s)
    BY <1>1
  <2>2. PICK size \in Nat \ {0} : /\ Obtained(size)
                                  /\ allocations' = [allocations EXCEPT ![s] = @ \cup {Given(size)}]
    BY <2>1, MallocGives
  <2>3. PICK g : /\ g = Given(size) /\ g \in Address /\ g # NULL /\ g \notin DOMAIN heap
                 /\ DOMAIN heap' = DOMAIN heap \cup {g}
    BY <2>2, Obtains
  <2>4. /\ allocations' \in [Slots -> SUBSET Address]
        /\ \A t \in Slots : allocations'[t] = allocations[t] \cup (IF t = s THEN {g} ELSE {})
    BY <1>0, <2>2, <2>3
  <2>5. \A b \in Pointer, j \in 1 .. 5 : Held'[b][j] = Held[b][j]
    BY <2>1, MallocStep
  <2>6. \A b \in Pointer, j \in 1 .. 5 : Held[b][j] # g
    BY <2>3 DEF LInv, Sound
  <2>7. \A t \in Slots : g \notin allocations[t]
    BY <2>3 DEF Kept
  <2> QED  BY <2>3, <2>4, <2>5, <2>6, <2>7 DEF Kept
<1>2. CASE ~ \E s \in Slots : Malloc(s)
  <2>1. /\ allocations' \in [Slots -> SUBSET Address]
        /\ \A t \in Slots : allocations'[t] \subseteq allocations[t]
    <3>1. CASE \E s \in Slots : FreeMemory(s) \/ Exit(s)
      <4>1. PICK s \in Slots, set \in SUBSET Address :
              /\ allocations' = [allocations EXCEPT ![s] = set] /\ set \subseteq allocations[s]
        BY <1>0, <3>1 DEF FreeMemory, Exit
      <4> QED  BY <1>0, <4>1
    <3>2. CASE ~ \E s \in Slots : Malloc(s) \/ FreeMemory(s) \/ Exit(s)
      BY <1>0, <3>2, GivenStays
    <3> QED  BY <1>2, <3>1, <3>2
  <2>2. ASSUME NEW t \in Slots, NEW x \in allocations'[t]
        PROVE  /\ x \in DOMAIN heap' /\ x # NULL
               /\ \A b \in Pointer, j \in 1 .. 5 : Held'[b][j] # x
               /\ \A u \in Slots : x \in allocations'[u] => u = t
    <3>1. /\ x \in allocations[t] /\ x \in DOMAIN heap /\ x # NULL
          /\ \A b \in Pointer, j \in 1 .. 5 : Held[b][j] # x
          /\ \A u \in Slots : x \in allocations[u] => u = t
      <4>1. x \in allocations[t] /\ x \in Address
        BY <1>0, <2>1, <2>2
      <4>2. x # NULL
        BY <4>1, Addresses
      <4> QED  BY <4>1, <4>2 DEF Kept
    <3>2. x \in DOMAIN heap'
      <4> SUFFICES ASSUME x \notin DOMAIN heap' PROVE FALSE
        OBVIOUS
      <4>1. PICK s \in Slots : x \in allocations[s] /\ x \notin allocations'[s]
        BY <3>1, HeapKeeps
      <4> QED  BY <2>2, <3>1, <4>1
    <3>3. ASSUME NEW b \in Pointer, NEW j \in 1 .. 5, Held'[b][j] = x PROVE FALSE
      <4>1. Comes(x)
        BY <3>1, <3>3, <1>0, RolesCome
      <4> QED  BY <3>1, <4>1 DEF Comes
    <3> QED  BY <2>1, <3>1, <3>2, <3>3
  <2> QED  BY <2>1, <2>2 DEF Kept
<1> QED  BY <1>1, <1>2

LEMMA KeptHolds == LInv /\ Kept /\ [Next]_vars => Kept'
<1>1. ASSUME Kept, UNCHANGED vars PROVE Kept'
  <2>1. UNCHANGED <<heap, process, elf_memory, processes, pc, new, elf_file, copy, allocations>>
    BY <1>1 DEF vars, memory, loaded, malloced
  <2> QED  BY <1>1, <2>1 DEF Kept, Held, Local, Known, Loaded, Parts
<1> QED  BY <1>1, KeptNext

LEMMA KeptFirst == Init => Kept
<1> SUFFICES ASSUME Init PROVE Kept
  OBVIOUS
<1>1. allocations = [s \in Slots |-> {}]
  BY DEF Init
<1> QED  BY <1>1 DEF Kept

LEMMA LInvariant == Spec => [](LInv /\ Kept)
<1>1. Init => LInv /\ Kept
  BY InitHolds, KeptFirst
<1>2. LInv /\ Kept /\ [Next]_vars => (LInv /\ Kept)'
  BY NextHolds, KeptHolds
<1> QED  BY <1>1, <1>2, PTL DEF Spec
-----------------------------------------------------------------------------
\* The state of a load, of the table and of the heap stays well typed: what is
\* allocated lies in the heap, and there is a process being loaded exactly
\* while process_load_for_slot runs.
THEOREM LoadTyping == Spec => []TypeOK
<1>1. LInv /\ Kept => TypeOK
  BY DEF LInv, Types
<1> QED  BY <1>1, LInvariant, PTL

\* Whichever allocation, read or mapping fails, and however programs are loaded,
\* call malloc and free, are copied from and terminated: what a process points to
\* and what malloc gave it is allocated, belongs to nobody else and has one role,
\* and a program in the table is complete.
THEOREM PartsCorrect == Spec => []PartsAreOwned
<1>1. LInv /\ Kept => PartsAreOwned
  <2> SUFFICES ASSUME LInv, Kept PROVE PartsAreOwned
    OBVIOUS
  <2>1. \A a \in Known : a \in Pointer /\ Held[a] = Parts(a)
    <3>1. Known \subseteq Address
      BY KnownAddresses DEF LInv
    <3> QED  BY <3>1, HeldBy, Addresses
  <2>2. ASSUME NEW a \in Known, NEW b \in Known, NEW i \in 1 .. 5, NEW j \in 1 .. 5,
               Parts(a)[i] # NULL
        PROVE  /\ Parts(a)[i] \in DOMAIN heap
               /\ Parts(a)[i] = Parts(b)[j] => a = b /\ i = j
    BY <2>1, <2>2 DEF LInv, Sound
  <2>3. \A a \in Loaded : \A i \in 1 .. 5 : Parts(a)[i] # NULL
    BY DEF LInv, Complete
  <2>4. \A s \in Slots : \A ptr \in allocations[s] :
          /\ ptr \in DOMAIN heap
          /\ \A a \in Known : \A i \in 1 .. 5 : Parts(a)[i] # ptr
          /\ \A t \in Slots : ptr \in allocations[t] => t = s
    BY <2>1 DEF Kept
  <2> QED  BY <2>2, <2>3, <2>4 DEF PartsAreOwned
<1> QED  BY <1>1, LInvariant, PTL

\* Every way out of elf_load and of process_load_binary closes its file.
THEOREM FilesCorrect == Spec => []FilesAreClosed
<1>1. LInv /\ Kept => FilesAreClosed
  BY DEF LInv, OpenWhileReading, FilesAreClosed
<1> QED  BY <1>1, LInvariant, PTL

-----------------------------------------------------------------------------
(***************************************************************************)
(* Page directories.                                                       *)
(***************************************************************************)

(* Addresses. *)

\* A page divides the address space.
LEMMA SpaceIs ==
  /\ PageSize \in Nat \ {0} /\ AddressSpace \in Nat \ {0}
  /\ \E k \in Nat \ {0} : AddressSpace = k * PageSize
<1>1. Entries * Entries \in Nat \ {0} /\ PageSize \in Nat \ {0}
  BY PagingAssumption, HeapAssumption
<1>2. PICK k \in Nat \ {0} : k = Entries * Entries
  BY <1>1
<1>3. AddressSpace = k * PageSize /\ k * PageSize \in Nat \ {0}
  BY <1>1, <1>2 DEF AddressSpace
<1> QED  BY <1>1, <1>2, <1>3

LEMMA AlignedIs ==
  ASSUME NEW a \in Nat, a % PageSize = 0
  PROVE  a \div PageSize \in Nat /\ a = (a \div PageSize) * PageSize
BY SpaceIs

LEMMA MultipleIs ==
  ASSUME NEW k \in Nat
  PROVE  k * PageSize \in Nat /\ (k * PageSize) % PageSize = 0 /\ (k * PageSize) \div PageSize = k
<1>1. k * PageSize \in Nat /\ k * PageSize = k * PageSize + 0 /\ 0 \in 0 .. PageSize - 1
  BY SpaceIs
<1> QED  BY <1>1, SpaceIs, Quotient

\* Multiples of the size of a page.
LEMMA AlignedSums ==
  ASSUME NEW a \in Nat, NEW b \in Nat, a % PageSize = 0, b % PageSize = 0
  PROVE  /\ (a + b) % PageSize = 0
         /\ a < b => a + PageSize <= b
         /\ a <= b => (b - a) % PageSize = 0 /\ (b - a) \div PageSize \in Nat
                      /\ b - a = ((b - a) \div PageSize) * PageSize
<1>1. PICK k \in Nat : a = k * PageSize
  BY AlignedIs
<1>2. PICK l \in Nat : b = l * PageSize
  BY AlignedIs
<1>3. (a + b) % PageSize = 0
  <2>1. a + b = (k + l) * PageSize /\ k + l \in Nat
    BY <1>1, <1>2, SpaceIs
  <2> QED  BY <2>1, MultipleIs
<1>4. ASSUME a < b PROVE a + PageSize <= b
  <2>1. k < l
    <3> SUFFICES ASSUME l <= k PROVE FALSE
      OBVIOUS
    <3>1. l * PageSize <= k * PageSize
      BY SpaceIs
    <3> QED  BY <1>1, <1>2, <1>4, <3>1
  <2>2. (k + 1) * PageSize <= l * PageSize /\ (k + 1) * PageSize = k * PageSize + PageSize
    BY <2>1, SpaceIs
  <2> QED  BY <1>1, <1>2, <2>2
<1>5. ASSUME a <= b
      PROVE  (b - a) % PageSize = 0 /\ (b - a) \div PageSize \in Nat
             /\ b - a = ((b - a) \div PageSize) * PageSize
  <2>1. b - a \in Nat /\ b - a = (l - k) * PageSize
    BY <1>1, <1>2, <1>5, SpaceIs
  <2>2. l - k \in Nat
    <3> SUFFICES ASSUME l < k PROVE FALSE
      OBVIOUS
    <3>1. (l + 1) * PageSize <= k * PageSize /\ (l + 1) * PageSize = l * PageSize + PageSize
      BY SpaceIs
    <3> QED  BY <1>1, <1>2, <1>5, <3>1, SpaceIs
  <2> QED  BY <2>1, <2>2, MultipleIs
<1> QED  BY <1>3, <1>4, <1>5

\* Rounding down gives the page of an address.
LEMMA LowerPage ==
  ASSUME NEW a \in Nat
  PROVE  /\ AlignToLowerPage(a) \in Nat /\ AlignToLowerPage(a) % PageSize = 0
         /\ AlignToLowerPage(a) <= a /\ a < AlignToLowerPage(a) + PageSize
         /\ AlignToLowerPage(a) = (a \div PageSize) * PageSize
         /\ AlignToLowerPage(a) \div PageSize = a \div PageSize
<1>1. a \div PageSize \in Nat /\ a = (a \div PageSize) * PageSize + (a % PageSize)
      /\ a % PageSize \in 0 .. PageSize - 1
  BY SpaceIs
<1>2. AlignToLowerPage(a) = (a \div PageSize) * PageSize
  BY <1>1, SpaceIs DEF AlignToLowerPage
<1>3. PICK k \in Nat, r \in 0 .. PageSize - 1 : k = a \div PageSize /\ r = a % PageSize
  BY <1>1
<1>4. PICK x \in Nat : x = k * PageSize /\ x % PageSize = 0 /\ x \div PageSize = k
  BY MultipleIs
<1>5. AlignToLowerPage(a) = x /\ a = x + r
  BY <1>1, <1>2, <1>3, <1>4
<1>6. x <= a /\ a < x + PageSize
  BY <1>3, <1>4, <1>5, SpaceIs
<1> QED  BY <1>3, <1>4, <1>5, <1>6

\* Rounding up gives the first page border that is not below an address.
LEMMA UpperPage ==
  ASSUME NEW a \in Nat
  PROVE  /\ AlignAddress(a) \in Nat /\ AlignAddress(a) % PageSize = 0
         /\ a <= AlignAddress(a) /\ AlignAddress(a) < a + PageSize
         /\ a % PageSize = 0 => AlignAddress(a) = a
<1>1. a = AlignToLowerPage(a) + (a % PageSize) /\ a % PageSize \in 0 .. PageSize - 1
  BY SpaceIs DEF AlignToLowerPage
<1>2. CASE a % PageSize = 0
  BY <1>2, SpaceIs DEF AlignAddress
<1>3. CASE a % PageSize # 0
  <2>1. PICK b \in Nat : b = AlignToLowerPage(a) /\ b % PageSize = 0
    BY LowerPage
  <2>2. PICK r \in 0 .. PageSize - 1 : r = a % PageSize /\ a = b + r /\ r # 0
    BY <1>1, <1>3, <2>1
  <2>3. AlignAddress(a) = b + PageSize
    BY <2>1, <2>2, SpaceIs DEF AlignAddress
  <2>4. PageSize % PageSize = 0 /\ PageSize \in Nat
    BY SpaceIs
  <2>5. (b + PageSize) % PageSize = 0
    BY <2>1, <2>4, AlignedSums
  <2> QED  BY <2>1, <2>2, <2>3, <2>5, <1>3, SpaceIs
<1> QED  BY <1>2, <1>3

LEMMA SameRemainder ==
  ASSUME NEW a \in Nat, NEW b \in Nat, NEW c \in Nat, a % PageSize = b % PageSize
  PROVE  (a + c) % PageSize = (b + c) % PageSize
<1>0. PICK m \in Nat \ {0} : m = PageSize
  BY SpaceIs
<1>1. PICK q \in Int, s \in Int, r \in 0 .. m - 1 : a = q * m + r /\ b = s * m + r
  <2>1. /\ a = (a \div m) * m + (a % m) /\ b = (b \div m) * m + (b % m)
        /\ a \div m \in Int /\ b \div m \in Int /\ a % m \in 0 .. m - 1
    OBVIOUS
  <2> QED  BY <1>0, <2>1
<1>2. PICK y \in Nat : y = r + c
  BY <1>1
<1>3. PICK t \in Int, u \in 0 .. m - 1 : y = t * m + u
  <2>1. y = (y \div m) * m + (y % m) /\ y \div m \in Int /\ y % m \in 0 .. m - 1
    OBVIOUS
  <2> QED  BY <2>1
<1>4. /\ q * m \in Int /\ s * m \in Int /\ t * m \in Int
      /\ (q + t) * m = q * m + t * m /\ (s + t) * m = s * m + t * m
      /\ q + t \in Int /\ s + t \in Int
  OBVIOUS
<1>5. a + c = (q + t) * m + u /\ b + c = (s + t) * m + u /\ a + c \in Int /\ b + c \in Int
  BY <1>1, <1>2, <1>3, <1>4
<1>6. (a + c) % m = u
  BY <1>4, <1>5, Quotient
<1>7. (b + c) % m = u
  BY <1>4, <1>5, Quotient
<1> QED  BY <1>0, <1>6, <1>7

\* Equal offsets in a page: the pages of both ranges are at the same distance.
LEMMA SameSpan ==
  ASSUME NEW a \in Nat, NEW b \in Nat, NEW n \in Nat, a % PageSize = b % PageSize
  PROVE  /\ AlignToLowerPage(a) - AlignToLowerPage(b) = a - b
         /\ AlignAddress(a + n) - AlignAddress(b + n) = a - b
<1>1. PICK r \in Nat : r = a % PageSize /\ r = b % PageSize
  BY SpaceIs
<1>2. PICK e \in Nat, z \in Nat : e = a + n /\ z = b + n
  OBVIOUS
<1>3. PICK u \in Nat : u = e % PageSize /\ u = z % PageSize
  <2>1. (a + n) % PageSize = (b + n) % PageSize
    BY SameRemainder
  <2>2. e % PageSize \in Nat
    BY SpaceIs
  <2> QED  BY <1>2, <2>1, <2>2
<1>4. AlignAddress(e) - AlignAddress(z) = e - z
  BY <1>3, SpaceIs DEF AlignAddress
<1>5. AlignToLowerPage(a) - AlignToLowerPage(b) = a - b
  BY <1>1 DEF AlignToLowerPage
<1> QED  BY <1>2, <1>4, <1>5

\* Rounding up stays in the address space.
LEMMA RoundedInSpace ==
  ASSUME NEW a \in Nat, a < AddressSpace
  PROVE  /\ AlignAddress(a) <= AddressSpace
         /\ a + PageSize <= AddressSpace => AlignAddress(a) < AddressSpace
<1>1. PICK e \in Nat : e = AlignAddress(a) /\ e % PageSize = 0 /\ e < a + PageSize
  BY UpperPage
<1>2. PICK k \in Nat : AddressSpace = k * PageSize
  BY SpaceIs
<1>3. AddressSpace % PageSize = 0 /\ AddressSpace \in Nat
  BY <1>2, MultipleIs
<1>4. AddressSpace < e => AddressSpace + PageSize <= e
  BY <1>1, <1>3, AlignedSums
<1> QED  BY <1>1, <1>3, <1>4, SpaceIs

LEMMA WordIs ==
  ASSUME NEW a \in Nat
  PROVE  /\ Word(a) \in Nat /\ Word(a) < AddressSpace /\ Word(a) <= a
         /\ a < AddressSpace => Word(a) = a
         /\ a % PageSize = 0 => Word(a) % PageSize = 0
         /\ AddressSpace <= a /\ a < AddressSpace + AddressSpace => Word(a) = a - AddressSpace
<1>0. PICK m \in Nat \ {0} : m = AddressSpace
  BY SpaceIs
<1>1. Word(a) \in 0 .. AddressSpace - 1 /\ a = (a \div AddressSpace) * AddressSpace + Word(a)
      /\ a \div AddressSpace \in Nat
  <2>1. a = (a \div m) * m + (a % m) /\ a \div m \in Nat /\ a % m \in 0 .. m - 1
    OBVIOUS
  <2> QED  BY <1>0, <2>1 DEF Word
<1>2. PICK q \in Nat : q = a \div AddressSpace
  BY <1>1
<1>3. q * AddressSpace \in Nat /\ a = q * AddressSpace + Word(a)
  BY <1>1, <1>2, SpaceIs
<1>4. a < AddressSpace => Word(a) = a
  BY SpaceIs DEF Word
<1>5. ASSUME a % PageSize = 0 PROVE Word(a) % PageSize = 0
  <2>1. PICK k \in Nat \ {0} : AddressSpace = k * PageSize
    BY SpaceIs
  <2>2. q * AddressSpace = (q * k) * PageSize /\ q * k \in Nat
    BY <2>1, SpaceIs
  <2>3. (q * AddressSpace) % PageSize = 0
    BY <2>2, MultipleIs
  <2>4. Word(a) = a - q * AddressSpace /\ q * AddressSpace <= a
    BY <1>1, <1>3, SpaceIs
  <2> QED  BY <1>3, <1>5, <2>3, <2>4, AlignedSums
<1>6. ASSUME AddressSpace <= a, a < AddressSpace + AddressSpace
      PROVE  Word(a) = a - AddressSpace
  <2>1. a = 1 * AddressSpace + (a - AddressSpace) /\ a - AddressSpace \in 0 .. AddressSpace - 1
    BY <1>6, SpaceIs
  <2> QED  BY <2>1, SpaceIs, Quotient DEF Word
<1> QED  BY <1>1, <1>3, <1>4, <1>5, <1>6, SpaceIs

\* Aligned addresses have indexes of their own.
LEMMA IndexesDiffer ==
  ASSUME NEW a \in Nat, NEW b \in Nat, a % PageSize = 0, b % PageSize = 0,
         GetIndexes(a) = GetIndexes(b)
  PROVE  a = b
<1>1. PICK t \in Nat \ {0} : t = Entries * PageSize
  BY PagingAssumption, SpaceIs
<1>2. \A x \in Nat : x % PageSize = 0 => x = (x \div t) * t + ((x % t) \div PageSize) * PageSize
  <2> TAKE x \in Nat
  <2> HAVE x % PageSize = 0
  <2>1. x = (x \div t) * t + (x % t) /\ x \div t \in Nat /\ x % t \in Nat
    BY <1>1
  <2>2. PICK q \in Nat : q = x \div t
    BY <2>1
  <2>3. q * t = (q * Entries) * PageSize /\ q * Entries \in Nat /\ q * t \in Nat
    BY <1>1, PagingAssumption, SpaceIs
  <2>4. (q * t) % PageSize = 0
    BY <2>3, MultipleIs
  <2>5. x % t = x - q * t /\ q * t <= x
    BY <2>1, <2>2, <2>3
  <2>6. (x % t) % PageSize = 0
    <3>1. (x - q * t) % PageSize = 0
      BY <2>3, <2>4, <2>5, AlignedSums
    <3> QED  BY <2>5, <3>1
  <2> QED  BY <2>1, <2>6, AlignedIs
<1>3. a \div t = b \div t /\ (a % t) \div PageSize = (b % t) \div PageSize
  BY <1>1 DEF GetIndexes
<1> QED  BY <1>2, <1>3

-----------------------------------------------------------------------------
(* Directories. *)

\* The record that paging_new_4gb and paging_set make.
IsChunk(c) == c = [flags |-> c.flags, set |-> c.set]

\* paging_new_4gb maps every page to itself.
LEMMA NewChunk ==
  ASSUME NEW flags
  PROVE  /\ IsChunk(New4gb(flags)) /\ New4gb(flags).flags = flags
         /\ \A a : PagingGet(New4gb(flags), a) = [frame |-> a, flags |-> flags]
BY DEF IsChunk, New4gb, PagingGet, Original

\* What is set is there, and nothing else changes.
LEMMA GetAfterSet ==
  ASSUME NEW c, IsChunk(c), NEW a \in Nat, a % PageSize = 0, NEW entry
  PROVE  LET after == PagingSet(c, a, entry)
         IN  /\ IsChunk(after) /\ after.flags = c.flags
             /\ PagingGet(after, a) = entry
             /\ \A b \in Nat : b % PageSize = 0 /\ b # a => PagingGet(after, b) = PagingGet(c, b)
<1>0. PICK i, others, all, after :
        /\ i = GetIndexes(a) /\ others = Restrict(c.set, DOMAIN c.set \ {i})
        /\ all = [j \in DOMAIN others \cup {i} |-> IF j = i THEN entry ELSE others[j]]
        /\ after = PagingSet(c, a, entry)
  OBVIOUS
<1>1. /\ DOMAIN others = DOMAIN c.set \ {i}
      /\ \A j \in DOMAIN c.set \ {i} : others[j] = c.set[j]
  BY <1>0 DEF Restrict
<1>2. after = [c EXCEPT !.set = IF entry = Original(c, a) THEN others ELSE all]
  BY <1>0 DEF PagingSet
<1>3. /\ IsChunk(after) /\ after.flags = c.flags
      /\ after.set = IF entry = Original(c, a) THEN others ELSE all
  BY <1>2 DEF IsChunk
<1>4. \A b : Original(after, b) = Original(c, b)
  BY <1>3 DEF Original
<1>5. PagingGet(after, a) = entry
  <2>1. CASE entry = Original(c, a)
    BY <1>0, <1>1, <1>3, <1>4, <2>1 DEF PagingGet
  <2>2. CASE entry # Original(c, a)
    BY <1>0, <1>1, <1>3, <1>4, <2>2 DEF PagingGet
  <2> QED  BY <2>1, <2>2
<1>6. ASSUME NEW b \in Nat, b % PageSize = 0, b # a
      PROVE  PagingGet(after, b) = PagingGet(c, b)
  <2>1. PICK j : j = GetIndexes(b)
    OBVIOUS
  <2>2. j # i
    BY <1>0, <1>6, <2>1, IndexesDiffer
  <2>3. /\ j \in DOMAIN after.set <=> j \in DOMAIN c.set
        /\ j \in DOMAIN c.set => after.set[j] = c.set[j]
    BY <1>0, <1>1, <1>3, <2>2
  <2> QED  BY <1>4, <2>1, <2>3 DEF PagingGet
<1> QED  BY <1>0, <1>3, <1>5, <1>6

\* A page of a range has its own place in the range.
LEMMA PagesOfRange ==
  ASSUME NEW a \in Nat, NEW j \in Nat, NEW k \in Nat,
         j * PageSize < AddressSpace, k * PageSize < AddressSpace, j < k
  PROVE  Word(a + j * PageSize) # Word(a + k * PageSize)
<1>0. PICK m \in Nat \ {0} : m = AddressSpace
  BY SpaceIs
<1>1. PICK x \in Nat, y \in Nat : x = j * PageSize /\ y = k * PageSize
  BY MultipleIs
<1>2. x < y
  <2>1. (j + 1) * PageSize <= k * PageSize /\ (j + 1) * PageSize = j * PageSize + PageSize
    BY SpaceIs
  <2> QED  BY <1>1, <2>1, SpaceIs
<1> SUFFICES ASSUME (a + x) % m = (a + y) % m PROVE FALSE
  BY <1>0, <1>1 DEF Word
<1>3. PICK p \in Nat, q \in Nat, r \in 0 .. m - 1 : a + x = p * m + r /\ a + y = q * m + r
  <2>1. /\ a + x = ((a + x) \div m) * m + ((a + x) % m) /\ (a + x) \div m \in Nat
        /\ a + y = ((a + y) \div m) * m + ((a + y) % m) /\ (a + y) \div m \in Nat
        /\ (a + x) % m \in 0 .. m - 1
    OBVIOUS
  <2> QED  BY <2>1
<1>4. y - x = (q - p) * m
  BY <1>3
<1>5. q - p = 0 \/ q - p >= 1 \/ q - p <= -1
  OBVIOUS
<1>6. q - p >= 1 => (q - p) * m >= m
  BY <1>4
<1>7. q - p <= -1 => (q - p) * m <= -m
  BY <1>4
<1>8. q - p = 0 => (q - p) * m = 0
  OBVIOUS
<1> QED  BY <1>0, <1>1, <1>2, <1>4, <1>5, <1>6, <1>7, <1>8

\* What is mapped when n pages are.
Mapped(c, after, virt, phys, n, flags) ==
  /\ IsChunk(after) /\ after.flags = c.flags
  /\ \A k \in 0 .. n - 1 :
       PagingGet(after, Word(virt + k * PageSize)) =
         [frame |-> Word(phys + k * PageSize), flags |-> flags]
  /\ \A b \in Nat : b % PageSize = 0 /\ (\A k \in 0 .. n - 1 : b # Word(virt + k * PageSize)) =>
       PagingGet(after, b) = PagingGet(c, b)

\* A loop that maps page after page, by one page.
LEMMA OnePageMore ==
  ASSUME NEW c, NEW before, NEW virt \in Nat, NEW phys, NEW n \in Nat, NEW flags,
         virt % PageSize = 0, n * PageSize < AddressSpace, Mapped(c, before, virt, phys, n, flags)
  PROVE  Mapped(c, PagingSet(before, Word(virt + n * PageSize),
                             [frame |-> Word(phys + n * PageSize), flags |-> flags]),
                virt, phys, n + 1, flags)
<1>0. PICK a, entry, after :
        /\ a = Word(virt + n * PageSize)
        /\ entry = [frame |-> Word(phys + n * PageSize), flags |-> flags]
        /\ after = PagingSet(before, a, entry)
  OBVIOUS
<1>1. \A k \in Nat : Word(virt + k * PageSize) \in Nat
                     /\ Word(virt + k * PageSize) % PageSize = 0
  <2> TAKE k \in Nat
  <2>1. PICK x \in Nat : x = k * PageSize /\ x % PageSize = 0
    BY MultipleIs
  <2>2. (virt + x) % PageSize = 0
    BY <2>1, AlignedSums
  <2>3. virt + x \in Nat
    BY <2>1
  <2> QED  BY <2>1, <2>2, <2>3, WordIs
<1>2. a \in Nat /\ a % PageSize = 0 /\ IsChunk(before)
  BY <1>0, <1>1 DEF Mapped
<1>3. /\ IsChunk(after) /\ after.flags = before.flags /\ PagingGet(after, a) = entry
      /\ \A b \in Nat : b % PageSize = 0 /\ b # a => PagingGet(after, b) = PagingGet(before, b)
  BY <1>0, <1>2, GetAfterSet
<1>4. ASSUME NEW k \in 0 .. n
      PROVE  PagingGet(after, Word(virt + k * PageSize)) =
               [frame |-> Word(phys + k * PageSize), flags |-> flags]
  <2>1. CASE k = n
    BY <1>0, <1>3, <2>1
  <2>2. CASE k # n
    <3>1. k \in 0 .. n - 1 /\ k < n /\ k \in Nat
      BY <2>2
    <3>2. k * PageSize < AddressSpace
      <4>1. k * PageSize <= n * PageSize /\ k * PageSize \in Nat /\ n * PageSize \in Nat
        BY <3>1, SpaceIs
      <4> QED  BY <4>1, SpaceIs
    <3>3. Word(virt + k * PageSize) # a
      BY <1>0, <3>1, <3>2, PagesOfRange
    <3> QED  BY <1>1, <1>3, <3>1, <3>3 DEF Mapped
  <2> QED  BY <2>1, <2>2
<1>5. ASSUME NEW b \in Nat, b % PageSize = 0, \A k \in 0 .. n : b # Word(virt + k * PageSize)
      PROVE  PagingGet(after, b) = PagingGet(c, b)
  <2>1. b # a /\ \A k \in 0 .. n - 1 : b # Word(virt + k * PageSize)
    BY <1>0, <1>5
  <2> QED  BY <1>3, <1>5, <2>1 DEF Mapped
<1>6. (n + 1) - 1 = n
  OBVIOUS
<1>7. after.flags = c.flags
  BY <1>3 DEF Mapped
<1>8. Mapped(c, after, virt, phys, n + 1, flags)
  BY <1>3, <1>4, <1>5, <1>6, <1>7 DEF Mapped
<1> QED  BY <1>0, <1>8

\* paging_map_range, for which an address space has no more pages than it can
\* map: all of them are mapped, and nothing else is.
LEMMA MapRangeIs ==
  ASSUME NEW c, IsChunk(c), NEW virt \in Nat, virt % PageSize = 0, NEW phys,
         NEW count \in Nat, count * PageSize < AddressSpace, NEW flags
  PROVE  Mapped(c, MapRange(c, virt, phys, count, flags), virt, phys, count, flags)
<1> DEFINE Step(g, n) ==
             IF n = 0 THEN c
             ELSE PagingSet(g[n - 1], Word(virt + (n - 1) * PageSize),
                            [frame |-> Word(phys + (n - 1) * PageSize), flags |-> flags])
           bad == {k \in Nat : ~ \E g : g = [n \in 0 .. k |-> Step(g, n)]}
<1>1. MapRange(c, virt, phys, count, flags) =
        (CHOOSE g : g = [n \in 0 .. count |-> Step(g, n)])[count]
  BY DEF MapRange
<1>2. \A g, h, n : n # 0 /\ g[n - 1] = h[n - 1] => Step(g, n) = Step(h, n)
  OBVIOUS
<1>3. \A g : Step(g, 0) = c
  OBVIOUS
<1>4. \A g, n : n # 0 =>
        Step(g, n) = PagingSet(g[n - 1], Word(virt + (n - 1) * PageSize),
                            [frame |-> Word(phys + (n - 1) * PageSize), flags |-> flags])
  OBVIOUS
<1> HIDE DEF Step
<1>5. bad = {}
  <2> SUFFICES ASSUME bad # {} PROVE FALSE
    OBVIOUS
  <2>1. PICK k \in bad : \A y \in bad : k <= y
    BY LeastElement
  <2>2. k \in Nat /\ ~ \E g : g = [n \in 0 .. k |-> Step(g, n)]
    BY <2>1
  <2>3. k # 0
    <3> SUFFICES ASSUME k = 0 PROVE FALSE
      OBVIOUS
    <3> DEFINE g == [n \in 0 .. 0 |-> c]
    <3>1. g = [n \in 0 .. 0 |-> Step(g, n)]
      BY <1>3
    <3> QED  BY <2>2, <3>1
  <2>4. k - 1 \in Nat /\ k - 1 \notin bad
    <3>1. k - 1 \in Nat /\ ~ (k <= k - 1)
      BY <2>2, <2>3
    <3> QED  BY <2>1, <3>1
  <2>5. PICK g : g = [n \in 0 .. k - 1 |-> Step(g, n)]
    BY <2>4
  <2> DEFINE h == [n \in 0 .. k |-> IF n = k THEN Step(g, k) ELSE g[n]]
  <2>6. \A n \in 0 .. k - 1 : h[n] = g[n]
    BY <2>2, <2>3
  <2>7. \A n \in 0 .. k : Step(h, n) = Step(g, n)
    BY <1>2, <1>3, <2>2, <2>6
  <2>8. h = [n \in 0 .. k |-> Step(h, n)]
    <3>1. \A n \in 0 .. k : h[n] = Step(g, n)
      BY <2>2, <2>5
    <3> QED  BY <2>7, <3>1
  <2> QED  BY <2>2, <2>8
<1>6. PICK G : /\ G = [n \in 0 .. count |-> Step(G, n)]
               /\ MapRange(c, virt, phys, count, flags) = G[count]
  <2>1. \E g : g = [n \in 0 .. count |-> Step(g, n)]
    BY <1>5
  <2> QED  BY <1>1, <2>1
<1>7. \A n \in 0 .. count : G[n] = Step(G, n)
  BY <1>6, Zenon
<1> DEFINE wrong == {n \in 0 .. count : ~ Mapped(c, G[n], virt, phys, n, flags)}
<1>8. wrong = {}
  <2> SUFFICES ASSUME wrong # {} PROVE FALSE
    OBVIOUS
  <2>1. wrong \in SUBSET Nat
    OBVIOUS
  <2>2. PICK n \in wrong : \A y \in wrong : n <= y
    BY <2>1, LeastElement
  <2>3. n \in 0 .. count /\ ~ Mapped(c, G[n], virt, phys, n, flags)
    BY <2>2
  <2>4. n # 0
    <3>1. 0 \in 0 .. count /\ G[0] = c
      BY <1>3, <1>7
    <3>2. Mapped(c, c, virt, phys, 0, flags)
      BY DEF Mapped
    <3> QED  BY <2>3, <3>1, <3>2
  <2>5. PICK l \in Nat : l = n - 1 /\ n = l + 1 /\ l \in 0 .. count /\ l \notin wrong
    BY <2>2, <2>3, <2>4
  <2>6. Mapped(c, G[l], virt, phys, l, flags)
    BY <2>5
  <2>7. l * PageSize < AddressSpace
    <3>1. l * PageSize <= count * PageSize /\ l * PageSize \in Nat /\ count * PageSize \in Nat
      BY <2>5, SpaceIs
    <3> QED  BY <3>1, SpaceIs
  <2>8. G[n] = PagingSet(G[l], Word(virt + l * PageSize),
                         [frame |-> Word(phys + l * PageSize), flags |-> flags])
    BY <1>4, <1>7, <2>3, <2>4, <2>5
  <2>9. Mapped(c, G[n], virt, phys, l + 1, flags)
    BY <2>5, <2>6, <2>7, <2>8, OnePageMore
  <2> QED  BY <2>3, <2>5, <2>9
<1>9. Mapped(c, G[count], virt, phys, count, flags)
  BY <1>8
<1> QED  BY <1>6, <1>9

\* paging_map_to, when it succeeds.
LEMMA MapToIs ==
  ASSUME NEW c, IsChunk(c), NEW virt \in Nat, NEW phys \in Nat, NEW end \in Nat,
         end < AddressSpace, NEW flags, MapTo(c, virt, phys, end, flags).ok
  PROVE  /\ virt % PageSize = 0 /\ phys % PageSize = 0 /\ end % PageSize = 0 /\ phys <= end
         /\ (end - phys) \div PageSize \in Nat
         /\ end - phys = ((end - phys) \div PageSize) * PageSize
         /\ Mapped(c, MapTo(c, virt, phys, end, flags).chunk, virt, phys,
                   (end - phys) \div PageSize, flags)
<1>1. virt % PageSize = 0 /\ phys % PageSize = 0 /\ end % PageSize = 0 /\ phys <= end
  BY DEF MapTo, Aligned
<1>2. PICK n \in Nat : n = (end - phys) \div PageSize /\ end - phys = n * PageSize
  BY <1>1, AlignedSums
<1>3. MapTo(c, virt, phys, end, flags).chunk = MapRange(c, virt, phys, n, flags)
  BY <1>1, <1>2 DEF MapTo, Aligned
<1>4. n * PageSize < AddressSpace
  <2>1. n * PageSize <= end /\ n * PageSize \in Nat
    BY <1>1, <1>2
  <2> QED  BY <2>1, SpaceIs
<1>5. Mapped(c, MapRange(c, virt, phys, n, flags), virt, phys, n, flags)
  BY <1>1, <1>4, MapRangeIs
<1> QED  BY <1>1, <1>2, <1>3, <1>5

\* The place of an address in a range of pages.
LEMMA PlaceInRange ==
  ASSUME NEW b \in Nat, NEW virt \in Nat, NEW n \in Nat, b % PageSize = 0, virt % PageSize = 0,
         virt <= b, b < virt + n * PageSize
  PROVE  \E k \in 0 .. n - 1 : b - virt = k * PageSize
<1>1. PICK k \in Nat : b - virt = k * PageSize
  BY AlignedSums
<1>2. k < n
  <2> SUFFICES ASSUME n <= k PROVE FALSE
    OBVIOUS
  <2>1. n * PageSize <= k * PageSize /\ n * PageSize \in Nat /\ k * PageSize \in Nat
    BY SpaceIs
  <2> QED  BY <1>1, <2>1
<1> QED  BY <1>1, <1>2

LEMMA InRange ==
  ASSUME NEW n \in Nat, NEW k \in 0 .. n - 1
  PROVE  k * PageSize \in Nat /\ n * PageSize \in Nat /\ k * PageSize + PageSize <= n * PageSize
<1>1. (k + 1) * PageSize <= n * PageSize /\ (k + 1) * PageSize = k * PageSize + PageSize
  BY SpaceIs
<1> QED  BY <1>1, SpaceIs

\* Every page leads where it did before or into the range.
LEMMA MapToFrames ==
  ASSUME NEW c, IsChunk(c), NEW virt \in Nat, NEW phys \in Nat, NEW end \in Nat,
         end < AddressSpace, NEW flags, MapTo(c, virt, phys, end, flags).ok,
         NEW b \in Nat, b % PageSize = 0
  PROVE  \/ PagingGet(MapTo(c, virt, phys, end, flags).chunk, b) = PagingGet(c, b)
         \/ \E fr \in Nat :
              /\ fr % PageSize = 0 /\ phys <= fr /\ fr < end
              /\ PagingGet(MapTo(c, virt, phys, end, flags).chunk, b) =
                   [frame |-> fr, flags |-> flags]
<1>0. PICK n, after : n = (end - phys) \div PageSize
                      /\ after = MapTo(c, virt, phys, end, flags).chunk
  OBVIOUS
<1>1. /\ phys % PageSize = 0 /\ phys <= end /\ n \in Nat /\ end - phys = n * PageSize
      /\ Mapped(c, after, virt, phys, n, flags)
  BY <1>0, MapToIs
<1>2. CASE \A k \in 0 .. n - 1 : b # Word(virt + k * PageSize)
  BY <1>0, <1>1, <1>2 DEF Mapped
<1>3. ASSUME NEW k \in 0 .. n - 1, b = Word(virt + k * PageSize)
      PROVE  \E fr \in Nat : /\ fr % PageSize = 0 /\ phys <= fr /\ fr < end
                             /\ PagingGet(after, b) = [frame |-> fr, flags |-> flags]
  <2>1. PICK x \in Nat : x = k * PageSize /\ x % PageSize = 0 /\ x + PageSize <= end - phys
    BY <1>1, <1>3, InRange, MultipleIs
  <2>2. phys + x \in Nat /\ phys <= phys + x /\ phys + x < end
    BY <1>1, <2>1, SpaceIs
  <2>3. (phys + x) % PageSize = 0
    BY <1>1, <2>1, AlignedSums
  <2>4. Word(phys + x) = phys + x
    BY <2>2, WordIs, SpaceIs
  <2>5. PagingGet(after, b) = [frame |-> phys + x, flags |-> flags]
    BY <1>1, <1>3, <2>1, <2>4 DEF Mapped
  <2> QED  BY <2>2, <2>3, <2>5
<1> QED  BY <1>0, <1>2, <1>3

\* A range that does not wrap around is mapped page by page.
LEMMA MapToPages ==
  ASSUME NEW c, IsChunk(c), NEW virt \in Nat, NEW phys \in Nat, NEW end \in Nat,
         end < AddressSpace, NEW flags, MapTo(c, virt, phys, end, flags).ok,
         virt + (end - phys) <= AddressSpace,
         NEW b \in Nat, b % PageSize = 0
  PROVE  PagingGet(MapTo(c, virt, phys, end, flags).chunk, b) =
           IF virt <= b /\ b < virt + (end - phys)
           THEN [frame |-> phys + (b - virt), flags |-> flags] ELSE PagingGet(c, b)
<1>0. PICK n, after : n = (end - phys) \div PageSize
                      /\ after = MapTo(c, virt, phys, end, flags).chunk
  OBVIOUS
<1>1. /\ virt % PageSize = 0 /\ phys <= end /\ n \in Nat /\ end - phys = n * PageSize
      /\ Mapped(c, after, virt, phys, n, flags)
  BY <1>0, MapToIs
<1>2. \A k \in 0 .. n - 1 :
        /\ Word(virt + k * PageSize) = virt + k * PageSize
        /\ Word(phys + k * PageSize) = phys + k * PageSize
        /\ k * PageSize < end - phys /\ k * PageSize \in Nat
  <2> TAKE k \in 0 .. n - 1
  <2>1. PICK x \in Nat : x = k * PageSize /\ x + PageSize <= end - phys
    BY <1>1, InRange
  <2>2. /\ virt + x \in Nat /\ virt + x < AddressSpace /\ phys + x \in Nat
        /\ phys + x < AddressSpace /\ x < end - phys
    BY <1>1, <2>1, SpaceIs
  <2> QED  BY <2>1, <2>2, WordIs
<1>3. CASE virt <= b /\ b < virt + (end - phys)
  <2>1. PICK k \in 0 .. n - 1 : b - virt = k * PageSize
    BY <1>1, <1>3, PlaceInRange
  <2>2. b = virt + k * PageSize /\ Word(virt + k * PageSize) = b
    BY <1>2, <2>1
  <2>3. PagingGet(after, b) = [frame |-> phys + k * PageSize, flags |-> flags]
    BY <1>1, <1>2, <2>2 DEF Mapped
  <2> QED  BY <1>0, <1>3, <2>1, <2>3
<1>4. CASE ~ (virt <= b /\ b < virt + (end - phys))
  <2>1. ASSUME NEW k \in 0 .. n - 1 PROVE b # Word(virt + k * PageSize)
    BY <1>1, <1>2, <1>4
  <2> QED  BY <1>0, <1>1, <1>4, <2>1 DEF Mapped
<1> QED  BY <1>3, <1>4

-----------------------------------------------------------------------------
(***************************************************************************)
(* The segments of a file: what map_elf and map_memory put into a          *)
(* directory, and the range that process_pheaders finds.                   *)
(***************************************************************************)

\* The fields of a program header are addresses.
LEMMA HeaderIs ==
  ASSUME NEW h \in ProgramHeader
  PROVE  /\ h.offset \in Nat /\ h.vaddr \in Nat /\ h.filesz \in Nat /\ h.memsz \in Nat
         /\ h.offset < AddressSpace /\ h.vaddr < AddressSpace
         /\ h.filesz < AddressSpace /\ h.memsz < AddressSpace
BY SpaceIs DEF ProgramHeader

\* The headers of a file, by index and as a set.
LEMMA HeadersAre ==
  ASSUME NEW f \in File
  PROVE  /\ Len(f.phdrs) \in Nat /\ DOMAIN f.phdrs = 1 .. Len(f.phdrs)
         /\ \A i \in 1 .. Len(f.phdrs) : f.phdrs[i] \in ProgramHeader
         /\ \A h : h \in Range(f.phdrs) <=> \E i \in 1 .. Len(f.phdrs) : h = f.phdrs[i]
<1>1. f.phdrs \in Seq(ProgramHeader)
  BY LoadAssumption
<1>2. /\ Len(f.phdrs) \in Nat /\ DOMAIN f.phdrs = 1 .. Len(f.phdrs)
      /\ \A i \in 1 .. Len(f.phdrs) : f.phdrs[i] \in ProgramHeader
  BY <1>1
<1> QED  BY <1>2 DEF Range

\* The heap ends before the address space does, by a page at least.
LEMMA HeapEnds ==
  ASSUME NEW a \in Address
  PROVE  /\ a \in Nat /\ a % PageSize = 0 /\ PageSize <= a
         /\ a <= Blocks * PageSize /\ Blocks * PageSize \in Nat
         /\ a + PageSize < AddressSpace
<1>1. PICK b \in 1 .. Blocks : a = b * PageSize
  BY DEF Address, Block, AddressOf
<1>2. Blocks \in Nat /\ b \in Nat /\ b >= 1
  BY HeapAssumption
<1>3. a \in Nat /\ a % PageSize = 0
  BY <1>1, <1>2, MultipleIs
<1>4. 1 * PageSize <= b * PageSize /\ 1 * PageSize = PageSize
  BY <1>2, SpaceIs
<1>5. b * PageSize <= Blocks * PageSize /\ Blocks * PageSize \in Nat
  BY <1>1, <1>2, SpaceIs
<1>6. (Blocks + 1) * PageSize = Blocks * PageSize + PageSize
  BY <1>2, SpaceIs
<1> QED  BY <1>1, <1>3, <1>4, <1>5, <1>6, LoadAssumption, SpaceIs

\* The rights that a header gives.
HeaderFlags(h) == UserFlags \cup (IF PF_W \in h.flags THEN {"write"} ELSE {})

\* What process_map_elf does for a header.
MapHeader(c, base, h) ==
  MapTo(c, AlignToLowerPage(h.vaddr), AlignToLowerPage(PhdrAddress(base, h)),
        MapEnd(PhdrAddress(base, h), h), HeaderFlags(h))

\* A page that the header leads into its contents.
Leads(base, h, entry) ==
  \E fr \in Nat :
    /\ fr % PageSize = 0 /\ AlignToLowerPage(PhdrAddress(base, h)) <= fr
    /\ fr < MapEnd(PhdrAddress(base, h), h)
    /\ entry = [frame |-> fr, flags |-> HeaderFlags(h)]

\* Where the pages of a header lead.
LEMMA HeaderLeads ==
  ASSUME NEW c, IsChunk(c), NEW base \in Address, NEW h \in ProgramHeader,
         MapHeader(c, base, h).ok
  PROVE  /\ IsChunk(MapHeader(c, base, h).chunk)
         /\ \A b \in Nat : b % PageSize = 0 =>
              \/ PagingGet(MapHeader(c, base, h).chunk, b) = PagingGet(c, b)
              \/ Leads(base, h, PagingGet(MapHeader(c, base, h).chunk, b))
<1>0. PICK virt, phys, end, flags :
        /\ virt = AlignToLowerPage(h.vaddr) /\ phys = AlignToLowerPage(PhdrAddress(base, h))
        /\ end = MapEnd(PhdrAddress(base, h), h) /\ flags = HeaderFlags(h)
  OBVIOUS
<1>1. h.offset \in Nat /\ h.vaddr \in Nat /\ h.memsz \in Nat /\ base \in Nat
  BY HeaderIs, HeapEnds
<1>2. PhdrAddress(base, h) \in Nat
  BY <1>1, WordIs DEF PhdrAddress
<1>3. virt \in Nat /\ phys \in Nat
  BY <1>0, <1>1, <1>2, LowerPage
<1>4. end \in Nat /\ end < AddressSpace
  <2>1. Word(PhdrAddress(base, h) + h.memsz) \in Nat
    BY <1>1, <1>2, WordIs
  <2>2. AlignAddress(Word(PhdrAddress(base, h) + h.memsz)) \in Nat
    BY <2>1, UpperPage
  <2> QED  BY <1>0, <2>2, WordIs DEF MapEnd, AlignToUpperPage
<1>5. MapHeader(c, base, h) = MapTo(c, virt, phys, end, flags)
  BY <1>0 DEF MapHeader
<1>6. IsChunk(MapTo(c, virt, phys, end, flags).chunk)
  BY <1>3, <1>4, <1>5, MapToIs DEF Mapped
<1>7. ASSUME NEW b \in Nat, b % PageSize = 0
      PROVE  \/ PagingGet(MapTo(c, virt, phys, end, flags).chunk, b) = PagingGet(c, b)
             \/ Leads(base, h, PagingGet(MapTo(c, virt, phys, end, flags).chunk, b))
  <2>1. CASE PagingGet(MapTo(c, virt, phys, end, flags).chunk, b) = PagingGet(c, b)
    BY <2>1
  <2>2. CASE \E fr \in Nat :
              /\ fr % PageSize = 0 /\ phys <= fr /\ fr < end
              /\ PagingGet(MapTo(c, virt, phys, end, flags).chunk, b) =
                   [frame |-> fr, flags |-> flags]
    BY <1>0, <2>2 DEF Leads
  <2> QED  BY <1>3, <1>4, <1>5, <1>7, <2>1, <2>2, MapToFrames
<1> QED  BY <1>5, <1>6, <1>7

\* What is linked at the place that it has in its page.
InPlace(h) ==
  /\ h.vaddr % PageSize = h.offset % PageSize
  /\ h.vaddr + h.memsz < AddressSpace
  /\ (Blocks + 1) * PageSize + h.offset + h.memsz <= AddressSpace

\* What a page of a header leads to then.
HeaderEntry(base, h, b) == [frame |-> base + h.offset + (b - h.vaddr), flags |-> HeaderFlags(h)]

LEMMA PlaceIs ==
  ASSUME NEW base \in Address, NEW h \in ProgramHeader, InPlace(h)
  PROVE  /\ PhdrAddress(base, h) = base + h.offset
         /\ MapEnd(base + h.offset, h) = AlignAddress(base + h.offset + h.memsz)
         /\ FirstPage(h) \in Nat /\ EndPage(h) \in Nat /\ EndPage(h) <= AddressSpace
         /\ FirstPage(h) % PageSize = 0 /\ EndPage(h) % PageSize = 0
         /\ FirstPage(h) <= h.vaddr /\ h.vaddr + h.memsz <= EndPage(h)
         /\ AlignAddress(base + h.offset + h.memsz) < AddressSpace
         /\ AlignToLowerPage(base + h.offset) - FirstPage(h) = base + h.offset - h.vaddr
         /\ AlignAddress(base + h.offset + h.memsz) - EndPage(h) = base + h.offset - h.vaddr
<1>0. PICK o \in Nat, x \in Nat, n \in Nat :
        o = h.offset /\ x = h.vaddr /\ n = h.memsz
  BY HeaderIs
<1>1. /\ base \in Nat /\ base % PageSize = 0
      /\ base <= Blocks * PageSize /\ Blocks * PageSize \in Nat
      /\ PageSize \in Nat \ {0} /\ AddressSpace \in Nat \ {0}
  BY HeapEnds, SpaceIs
<1>2. (Blocks + 1) * PageSize = Blocks * PageSize + PageSize
  BY HeapAssumption, SpaceIs
<1>3. /\ x % PageSize = o % PageSize /\ x + n < AddressSpace
      /\ base + o + n + PageSize <= AddressSpace
  BY <1>0, <1>1, <1>2 DEF InPlace
<1>4. PICK p \in Nat : p = base + o
  BY <1>1
<1>5. p < AddressSpace /\ p + n < AddressSpace /\ p + n + PageSize <= AddressSpace
  BY <1>1, <1>3, <1>4
<1>6. p % PageSize = x % PageSize
  <2>1. PICK k \in Nat : k = 0 /\ k % PageSize = 0 /\ k + o = o
    BY <1>1
  <2>2. base % PageSize = k % PageSize
    BY <1>1, <2>1
  <2>3. (base + o) % PageSize = (k + o) % PageSize
    BY <1>1, <2>2, SameRemainder
  <2> QED  BY <1>3, <1>4, <2>1, <2>3
<1>7. /\ AlignToLowerPage(p) - AlignToLowerPage(x) = p - x
      /\ AlignAddress(p + n) - AlignAddress(x + n) = p - x
  BY <1>6, SameSpan
<1>8. AlignAddress(p + n) < AddressSpace /\ AlignAddress(x + n) <= AddressSpace
  BY <1>3, <1>5, RoundedInSpace
<1>9. /\ AlignAddress(p + n) \in Nat
      /\ AlignAddress(x + n) \in Nat /\ AlignAddress(x + n) % PageSize = 0
      /\ x + n <= AlignAddress(x + n)
  BY UpperPage
<1>10. Word(p) = p /\ Word(p + n) = p + n /\ Word(AlignAddress(p + n)) = AlignAddress(p + n)
  BY <1>5, <1>8, <1>9, WordIs
<1>11. PhdrAddress(base, h) = p
  BY <1>0, <1>4, <1>10 DEF PhdrAddress
<1>12. MapEnd(p, h) = AlignAddress(p + n)
  BY <1>0, <1>10 DEF MapEnd, AlignToUpperPage
<1>13. FirstPage(h) = AlignToLowerPage(x) /\ EndPage(h) = AlignAddress(x + n)
  BY <1>0 DEF FirstPage, EndPage
<1>14. AlignToLowerPage(x) \in Nat /\ AlignToLowerPage(x) % PageSize = 0 /\ AlignToLowerPage(x) <= x
  BY LowerPage
<1>15. p = base + h.offset /\ p + n = base + h.offset + h.memsz /\ x + n = h.vaddr + h.memsz
       /\ p - x = base + h.offset - h.vaddr
  BY <1>0, <1>1, <1>4
<1>16. /\ FirstPage(h) \in Nat /\ EndPage(h) \in Nat /\ EndPage(h) <= AddressSpace
       /\ FirstPage(h) % PageSize = 0 /\ EndPage(h) % PageSize = 0
       /\ FirstPage(h) <= h.vaddr /\ h.vaddr + h.memsz <= EndPage(h)
  BY <1>0, <1>8, <1>9, <1>13, <1>14
<1>17. /\ AlignToLowerPage(p) - FirstPage(h) = p - x
       /\ AlignAddress(p + n) - EndPage(h) = p - x
  BY <1>7, <1>13
<1> QED  BY <1>8, <1>11, <1>12, <1>15, <1>16, <1>17

\* A page is covered by a header exactly if it is between its ends.
LEMMA PageCovers ==
  ASSUME NEW b \in Nat, b % PageSize = 0, NEW h
  PROVE  Covers(h, b) <=> b \in FirstPage(h) .. EndPage(h) - 1
BY SpaceIs DEF Covers, AlignToLowerPage

\* The pages of a header that is in place are mapped, and no others.
LEMMA HeaderPages ==
  ASSUME NEW c, IsChunk(c), NEW base \in Address, NEW h \in ProgramHeader, InPlace(h),
         MapHeader(c, base, h).ok, NEW b \in Nat, b % PageSize = 0
  PROVE  PagingGet(MapHeader(c, base, h).chunk, b) =
           IF Covers(h, b) THEN HeaderEntry(base, h, b) ELSE PagingGet(c, b)
<1>0. PICK virt, phys, end, flags :
        /\ virt = FirstPage(h) /\ phys = AlignToLowerPage(base + h.offset)
        /\ end = AlignAddress(base + h.offset + h.memsz) /\ flags = HeaderFlags(h)
  OBVIOUS
<1>1. /\ h.offset \in Nat /\ h.vaddr \in Nat /\ h.memsz \in Nat /\ base \in Nat
  BY HeaderIs, HeapEnds
<1>2. /\ virt \in Nat /\ EndPage(h) \in Nat /\ EndPage(h) <= AddressSpace /\ end < AddressSpace
      /\ phys - virt = base + h.offset - h.vaddr
      /\ end - EndPage(h) = base + h.offset - h.vaddr
  BY <1>0, PlaceIs
<1>3. phys \in Nat /\ end \in Nat
  <2>1. base + h.offset \in Nat /\ base + h.offset + h.memsz \in Nat
    BY <1>1
  <2> QED  BY <1>0, <2>1, LowerPage, UpperPage
<1>4. MapHeader(c, base, h) = MapTo(c, virt, phys, end, flags)
  BY <1>0, PlaceIs DEF MapHeader, FirstPage
<1>5. virt + (end - phys) = EndPage(h)
  BY <1>1, <1>2, <1>3
<1>6. PagingGet(MapTo(c, virt, phys, end, flags).chunk, b) =
        IF virt <= b /\ b < virt + (end - phys)
        THEN [frame |-> phys + (b - virt), flags |-> flags] ELSE PagingGet(c, b)
  <2>1. virt + (end - phys) <= AddressSpace
    BY <1>2, <1>5
  <2>2. MapTo(c, virt, phys, end, flags).ok
    BY <1>4
  <2> QED  BY <1>2, <1>3, <2>1, <2>2, MapToPages
<1>7. Covers(h, b) <=> virt <= b /\ b < virt + (end - phys)
  BY <1>0, <1>2, <1>5, PageCovers
<1>8. phys + (b - virt) = base + h.offset + (b - h.vaddr)
  BY <1>1, <1>2, <1>3
<1>9. HeaderEntry(base, h, b) = [frame |-> phys + (b - virt), flags |-> flags]
  BY <1>0, <1>8 DEF HeaderEntry
<1> QED  BY <1>4, <1>6, <1>7, <1>9

-----------------------------------------------------------------------------
(* All the headers. *)

\* Every page after the first n headers: what a new directory has, or into the
\* contents of one of them.
LeadsInto(base, f, n, chunk) ==
  /\ IsChunk(chunk)
  /\ \A b \in Nat : b % PageSize = 0 =>
       \/ PagingGet(chunk, b) = [frame |-> b, flags |-> UserFlags]
       \/ \E i \in 1 .. n : Leads(base, f.phdrs[i], PagingGet(chunk, b))

\* If all are in place, the last one of them that covers a page decides.
LastDecides(base, f, n, chunk) ==
  \A b \in Nat : b % PageSize = 0 =>
    /\ (\A i \in 1 .. n : ~ Covers(f.phdrs[i], b)) =>
         PagingGet(chunk, b) = [frame |-> b, flags |-> UserFlags]
    /\ \A i \in 1 .. n :
         Covers(f.phdrs[i], b) /\ (\A j \in i + 1 .. n : ~ Covers(f.phdrs[j], b)) =>
           PagingGet(chunk, b) = HeaderEntry(base, f.phdrs[i], b)

AllInPlace(f) == \A i \in 1 .. Len(f.phdrs) : InPlace(f.phdrs[i])

MappedSoFar(base, f, n, r) ==
  r.ok => LeadsInto(base, f, n, r.chunk) /\ (AllInPlace(f) => LastDecides(base, f, n, r.chunk))

\* One more header keeps what holds of the headers before it.
LEMMA HeaderMore ==
  ASSUME NEW base \in Address, NEW f \in File, NEW n \in 1 .. Len(f.phdrs), NEW c,
         MappedSoFar(base, f, n - 1, [ok |-> TRUE, chunk |-> c])
  PROVE  MappedSoFar(base, f, n, MapHeader(c, base, f.phdrs[n]))
<1> DEFINE h == f.phdrs[n]
           r == MapHeader(c, base, h)
<1>1. h \in ProgramHeader /\ n \in Nat
  BY HeadersAre
<1>2. LeadsInto(base, f, n - 1, c) /\ (AllInPlace(f) => LastDecides(base, f, n - 1, c))
  BY DEF MappedSoFar
<1> SUFFICES ASSUME r.ok
             PROVE  LeadsInto(base, f, n, r.chunk) /\ (AllInPlace(f) => LastDecides(base, f, n, r.chunk))
  BY DEF MappedSoFar
<1> HIDE DEF h, r
<1>3. /\ IsChunk(r.chunk)
      /\ \A b \in Nat : b % PageSize = 0 =>
           PagingGet(r.chunk, b) = PagingGet(c, b) \/ Leads(base, h, PagingGet(r.chunk, b))
  <2>1. IsChunk(c) /\ MapHeader(c, base, h).ok
    BY <1>2 DEF LeadsInto, r
  <2> QED  BY <1>1, <2>1, HeaderLeads DEF r
<1>4. LeadsInto(base, f, n, r.chunk)
  <2> SUFFICES ASSUME NEW b \in Nat, b % PageSize = 0
               PROVE  \/ PagingGet(r.chunk, b) = [frame |-> b, flags |-> UserFlags]
                      \/ \E i \in 1 .. n : Leads(base, f.phdrs[i], PagingGet(r.chunk, b))
    BY <1>3 DEF LeadsInto
  <2>1. CASE Leads(base, h, PagingGet(r.chunk, b))
    BY <1>1, <2>1 DEF h
  <2>2. CASE PagingGet(r.chunk, b) = PagingGet(c, b)
    <3>1. CASE PagingGet(c, b) = [frame |-> b, flags |-> UserFlags]
      BY <2>2, <3>1
    <3>2. CASE \E i \in 1 .. n - 1 : Leads(base, f.phdrs[i], PagingGet(c, b))
      BY <1>1, <2>2, <3>2
    <3> QED  BY <1>2, <3>1, <3>2 DEF LeadsInto
  <2> QED  BY <1>3, <2>1, <2>2
<1>5. ASSUME AllInPlace(f) PROVE LastDecides(base, f, n, r.chunk)
  <2> SUFFICES ASSUME NEW b \in Nat, b % PageSize = 0
               PROVE  /\ (\A i \in 1 .. n : ~ Covers(f.phdrs[i], b)) =>
                           PagingGet(r.chunk, b) = [frame |-> b, flags |-> UserFlags]
                      /\ \A i \in 1 .. n :
                           Covers(f.phdrs[i], b) /\ (\A j \in i + 1 .. n : ~ Covers(f.phdrs[j], b)) =>
                             PagingGet(r.chunk, b) = HeaderEntry(base, f.phdrs[i], b)
    BY DEF LastDecides
  <2>1. InPlace(h)
    BY <1>1, <1>5 DEF AllInPlace, h
  <2>2. PagingGet(r.chunk, b) = IF Covers(h, b) THEN HeaderEntry(base, h, b) ELSE PagingGet(c, b)
    <3>1. IsChunk(c) /\ MapHeader(c, base, h).ok
      BY <1>2 DEF LeadsInto, r
    <3> QED  BY <1>1, <2>1, <3>1, HeaderPages DEF r
  <2>3. /\ (\A i \in 1 .. n - 1 : ~ Covers(f.phdrs[i], b)) =>
             PagingGet(c, b) = [frame |-> b, flags |-> UserFlags]
        /\ \A i \in 1 .. n - 1 :
             Covers(f.phdrs[i], b) /\ (\A j \in i + 1 .. n - 1 : ~ Covers(f.phdrs[j], b)) =>
               PagingGet(c, b) = HeaderEntry(base, f.phdrs[i], b)
    BY <1>2, <1>5 DEF LastDecides
  <2>4. (\A i \in 1 .. n : ~ Covers(f.phdrs[i], b)) =>
          PagingGet(r.chunk, b) = [frame |-> b, flags |-> UserFlags]
    <3> HAVE \A i \in 1 .. n : ~ Covers(f.phdrs[i], b)
    <3>1. ~ Covers(h, b) /\ \A i \in 1 .. n - 1 : ~ Covers(f.phdrs[i], b)
      BY <1>1 DEF h
    <3> QED  BY <2>2, <2>3, <3>1
  <2>5. ASSUME NEW i \in 1 .. n, Covers(f.phdrs[i], b), \A j \in i + 1 .. n : ~ Covers(f.phdrs[j], b)
        PROVE  PagingGet(r.chunk, b) = HeaderEntry(base, f.phdrs[i], b)
    <3>1. CASE i = n
      BY <2>2, <2>5, <3>1 DEF h
    <3>2. CASE i # n
      <4>1. i \in 1 .. n - 1 /\ n \in i + 1 .. n /\ \A j \in i + 1 .. n - 1 : j \in i + 1 .. n
        BY <1>1, <3>2
      <4>2. ~ Covers(h, b)
        BY <2>5, <4>1 DEF h
      <4>3. PagingGet(c, b) = HeaderEntry(base, f.phdrs[i], b)
        BY <2>3, <2>5, <4>1
      <4> QED  BY <2>2, <4>2, <4>3
    <3> QED  BY <3>1, <3>2
  <2> QED  BY <2>4, <2>5
<1> QED  BY <1>4, <1>5

\* process_map_elf.
LEMMA MapElfIs ==
  ASSUME NEW base \in Address, NEW f \in File
  PROVE  MappedSoFar(base, f, Len(f.phdrs), MapElf(NewDirectory, base, f))
<1> DEFINE total == Len(f.phdrs)
           First == [ok |-> TRUE, chunk |-> NewDirectory]
           Step(g, n) ==
             IF n = 0 THEN First
             ELSE IF ~g[n - 1].ok THEN g[n - 1]
             ELSE MapHeader(g[n - 1].chunk, base, f.phdrs[n])
           bad == {k \in Nat : ~ \E g : g = [n \in 0 .. k |-> Step(g, n)]}
<1>1. MapElf(NewDirectory, base, f) = (CHOOSE g : g = [n \in 0 .. total |-> Step(g, n)])[total]
  BY DEF MapElf, MapHeader, HeaderFlags
<1>2. \A g, h, n : n # 0 /\ g[n - 1] = h[n - 1] => Step(g, n) = Step(h, n)
  OBVIOUS
<1>3. \A g : Step(g, 0) = First
  OBVIOUS
<1>4. \A g, n : n # 0 =>
        Step(g, n) = IF ~g[n - 1].ok THEN g[n - 1]
                     ELSE MapHeader(g[n - 1].chunk, base, f.phdrs[n])
  OBVIOUS
<1>5. total \in Nat
  BY HeadersAre
<1> HIDE DEF Step, total, First
<1>6. bad = {}
  <2> SUFFICES ASSUME bad # {} PROVE FALSE
    OBVIOUS
  <2>1. PICK k \in bad : \A y \in bad : k <= y
    BY LeastElement
  <2>2. k \in Nat /\ ~ \E g : g = [n \in 0 .. k |-> Step(g, n)]
    BY <2>1
  <2>3. k # 0
    <3> SUFFICES ASSUME k = 0 PROVE FALSE
      OBVIOUS
    <3> DEFINE g == [n \in 0 .. 0 |-> First]
    <3>1. g = [n \in 0 .. 0 |-> Step(g, n)]
      BY <1>3
    <3> QED  BY <2>2, <3>1
  <2>4. k - 1 \in Nat /\ k - 1 \notin bad
    <3>1. k - 1 \in Nat /\ ~ (k <= k - 1)
      BY <2>2, <2>3
    <3> QED  BY <2>1, <3>1
  <2>5. PICK g : g = [n \in 0 .. k - 1 |-> Step(g, n)]
    BY <2>4
  <2> DEFINE h == [n \in 0 .. k |-> IF n = k THEN Step(g, k) ELSE g[n]]
  <2>6. \A n \in 0 .. k - 1 : h[n] = g[n]
    BY <2>2, <2>3
  <2>7. \A n \in 0 .. k : Step(h, n) = Step(g, n)
    BY <1>2, <1>3, <2>2, <2>6
  <2>8. h = [n \in 0 .. k |-> Step(h, n)]
    <3>1. \A n \in 0 .. k : h[n] = Step(g, n)
      BY <2>2, <2>5
    <3> QED  BY <2>7, <3>1
  <2> QED  BY <2>2, <2>8
<1>7. PICK G : G = [n \in 0 .. total |-> Step(G, n)] /\ MapElf(NewDirectory, base, f) = G[total]
  <2>1. \E g : g = [n \in 0 .. total |-> Step(g, n)]
    BY <1>5, <1>6
  <2> QED  BY <1>1, <2>1
<1>8. \A n \in 0 .. total : G[n] = Step(G, n)
  BY <1>7, Zenon
<1> DEFINE wrong == {n \in 0 .. total : ~ MappedSoFar(base, f, n, G[n])}
<1>9. wrong = {}
  <2> SUFFICES ASSUME wrong # {} PROVE FALSE
    OBVIOUS
  <2>1. wrong \in SUBSET Nat
    BY <1>5
  <2>2. PICK n \in wrong : \A y \in wrong : n <= y
    BY <2>1, LeastElement
  <2>3. n \in 0 .. total /\ ~ MappedSoFar(base, f, n, G[n])
    BY <2>2
  <2>4. n # 0
    <3>1. 0 \in 0 .. total /\ G[0] = First
      BY <1>3, <1>5, <1>8
    <3>2. First.ok = TRUE /\ First.chunk = NewDirectory
      BY DEF First
    <3>3. IsChunk(NewDirectory)
          /\ \A b : PagingGet(NewDirectory, b) = [frame |-> b, flags |-> UserFlags]
      BY NewChunk DEF NewDirectory
    <3>4. LeadsInto(base, f, 0, NewDirectory) /\ LastDecides(base, f, 0, NewDirectory)
      BY <3>3 DEF LeadsInto, LastDecides
    <3>5. MappedSoFar(base, f, 0, First)
      BY <3>2, <3>4 DEF MappedSoFar
    <3> QED  BY <2>3, <3>1, <3>5
  <2>5. n \in 1 .. total /\ n - 1 \in 0 .. total /\ n - 1 \notin wrong
    BY <1>5, <2>2, <2>3, <2>4
  <2>6. PICK r : r = G[n - 1] /\ MappedSoFar(base, f, n - 1, r)
    BY <2>5
  <2>7. G[n] = IF ~r.ok THEN r ELSE MapHeader(r.chunk, base, f.phdrs[n])
    BY <1>4, <1>8, <2>3, <2>4, <2>6
  <2>8. CASE ~r.ok
    BY <2>3, <2>7, <2>8 DEF MappedSoFar
  <2>9. CASE r.ok
    <3>1. PICK c : c = r.chunk
      OBVIOUS
    <3>2. MappedSoFar(base, f, n - 1, [ok |-> TRUE, chunk |-> c])
      BY <2>6, <2>9, <3>1 DEF MappedSoFar
    <3>3. n \in 1 .. Len(f.phdrs)
      BY <2>5 DEF total
    <3>4. MappedSoFar(base, f, n, MapHeader(c, base, f.phdrs[n]))
      BY <3>2, <3>3, HeaderMore
    <3> QED  BY <2>3, <2>7, <2>9, <3>1, <3>4
  <2> QED  BY <2>8, <2>9
<1>10. MappedSoFar(base, f, total, G[total])
  BY <1>5, <1>9
<1> QED  BY <1>7, <1>10 DEF total

\* There is room for a block's size in the blocks that it needs.
LEMMA BlocksHold ==
  ASSUME NEW h, HeapOK(h), NEW a \in DOMAIN h, NEW size \in Nat \ {0}, h[a] = NeededBlocks(size)
  PROVE  /\ a \in Address /\ a \in Nat
         /\ a + size <= (Blocks + 1) * PageSize /\ (Blocks + 1) * PageSize \in Nat
         /\ \A b \in Nat : a <= b /\ b < a + size => b \div PageSize \in BlocksAt(h, a)
<1>1. PICK k \in Nat, n \in Nat \ {0} : a = k * PageSize /\ n = NeededBlocks(size)
                                        /\ a \div PageSize = k /\ k \in Block
  <2>1. a \in BlockAddress
    BY DEF HeapOK
  <2>2. a \div PageSize \in Block /\ a = AddressOf(a \div PageSize) /\ a \div PageSize \in Nat
    BY <2>1, BlockAddresses, HeapAssumption DEF Block
  <2> QED  BY <2>2, Needed DEF AddressOf
<1>2. a \in Address
  BY <1>1 DEF Address, AddressOf
<1>3. k .. k + n - 1 \subseteq 1 .. Blocks /\ Blocks \in Nat
  BY <1>1, HeapAssumption DEF HeapOK, BlocksAt, Block
<1>4. k + n - 1 <= Blocks
  <2>1. k + n - 1 \in k .. k + n - 1
    BY <1>1
  <2> QED  BY <1>3, <2>1
<1>5. size <= n * PageSize /\ n * PageSize \in Nat
  <2>1. PICK m \in Nat \ {0} : m = PageSize
    BY SpaceIs
  <2>2. PICK y \in Nat : y = size + m - 1
    BY <2>1
  <2>3. n = y \div m
    BY <1>1, <2>1, <2>2 DEF NeededBlocks
  <2>4. y = (y \div m) * m + (y % m) /\ y % m \in 0 .. m - 1
    OBVIOUS
  <2>5. n * m \in Nat
    BY <1>1
  <2> QED  BY <2>1, <2>2, <2>3, <2>4, <2>5
<1>6. k * PageSize + n * PageSize = (k + n) * PageSize /\ (k + n) * PageSize <= (Blocks + 1) * PageSize
      /\ (k + n) * PageSize \in Nat /\ k * PageSize \in Nat /\ (Blocks + 1) * PageSize \in Nat
  BY <1>1, <1>3, <1>4, SpaceIs
<1>7. a + size <= (Blocks + 1) * PageSize
  BY <1>1, <1>5, <1>6
<1>8. ASSUME NEW b \in Nat, a <= b, b < a + size PROVE b \div PageSize \in BlocksAt(h, a)
  <2>1. PICK q \in Nat, r \in 0 .. PageSize - 1 : q = b \div PageSize /\ b = q * PageSize + r
    BY SpaceIs
  <2>2. k <= q
    <3> SUFFICES ASSUME q + 1 <= k PROVE FALSE
      BY <1>1, <2>1
    <3>1. (q + 1) * PageSize <= k * PageSize /\ (q + 1) * PageSize = q * PageSize + PageSize
      BY SpaceIs
    <3> QED  BY <1>1, <1>6, <1>8, <2>1, <3>1, SpaceIs
  <2>3. q <= k + n - 1
    <3> SUFFICES ASSUME k + n <= q PROVE FALSE
      BY <1>1, <2>1
    <3>1. (k + n) * PageSize <= q * PageSize /\ q * PageSize \in Nat
      BY SpaceIs
    <3> QED  BY <1>1, <1>5, <1>6, <1>8, <2>1, <3>1, SpaceIs
  <2> QED  BY <1>1, <2>1, <2>2, <2>3 DEF BlocksAt
<1> QED  BY <1>1, <1>2, <1>6, <1>7, <1>8

\* The heap ends before the address space.
LEMMA HeapBelow == (Blocks + 1) * PageSize < AddressSpace
BY LoadAssumption



\* process_map_memory: over what process_map_elf maps lies the stack.
LEMMA MapMemoryIs ==
  ASSUME NEW p, NEW f \in File, elf_memory[p.data] \in Address, p.stack \in Address,
         p.stack + StackSize <= (Blocks + 1) * PageSize, MapMemory(p, f).ok
  PROVE  LET m == MapElf(NewDirectory, elf_memory[p.data], f)
             chunk == MapMemory(p, f).chunk
         IN  /\ m.ok /\ IsChunk(chunk)
             /\ \A b \in Nat : b % PageSize = 0 =>
                  PagingGet(chunk, b) =
                    IF StackEnd <= b /\ b < AlignAddress(StackEnd + StackSize)
                    THEN [frame |-> p.stack + (b - StackEnd), flags |-> UserFlags \cup {"write"}]
                    ELSE PagingGet(m.chunk, b)
<1>0. PICK m, flags, end, stack :
        /\ m = MapElf(NewDirectory, elf_memory[p.data], f) /\ flags = UserFlags \cup {"write"}
        /\ stack = p.stack /\ end = AlignAddress(stack + StackSize)
  OBVIOUS
<1>1. /\ stack \in Nat /\ stack % PageSize = 0 /\ StackEnd \in Nat /\ StackEnd % PageSize = 0
      /\ StackSize \in Nat \ {0} /\ AlignAddress(StackEnd + StackSize) <= AddressSpace
      /\ stack + StackSize <= (Blocks + 1) * PageSize /\ (Blocks + 1) * PageSize < AddressSpace
  BY <1>0, HeapEnds, LoadAssumption DEF Aligned
<1>2. PICK top \in Nat : top = (Blocks + 1) * PageSize /\ top % PageSize = 0
  <2>1. Blocks + 1 \in Nat
    BY HeapAssumption
  <2> QED  BY <2>1, MultipleIs
<1>3. stack + StackSize < AddressSpace /\ stack + StackSize \in Nat /\ stack + StackSize <= top
  BY <1>1, <1>2, SpaceIs
<1>4. /\ end \in Nat /\ end % PageSize = 0 /\ stack + StackSize <= end
      /\ end < stack + StackSize + PageSize
  BY <1>0, <1>3, UpperPage
<1>5. end < AddressSpace
  <2>1. top < end => top + PageSize <= end
    BY <1>2, <1>4, AlignedSums
  <2> QED  BY <1>1, <1>2, <1>3, <1>4, <2>1, SpaceIs
<1>6. Word(stack + StackSize) = stack + StackSize /\ Word(end) = end
  BY <1>3, <1>4, <1>5, WordIs
<1>7. AlignToUpperPage(stack + StackSize) = end
  BY <1>0, <1>6 DEF AlignToUpperPage
<1>8. end - stack = AlignAddress(StackEnd + StackSize) - StackEnd
  <2>1. AlignAddress(stack + StackSize) - AlignAddress(StackEnd + StackSize) = stack - StackEnd
    BY <1>1, SameSpan
  <2>2. AlignAddress(StackEnd + StackSize) \in Nat
    BY <1>1, UpperPage
  <2> QED  BY <1>0, <1>1, <1>4, <2>1, <2>2
<1>9. m.ok /\ MapMemory(p, f).chunk = MapTo(m.chunk, StackEnd, stack, end, flags).chunk
  BY <1>0, <1>7 DEF MapMemory
<1>10. IsChunk(m.chunk)
  BY <1>0, <1>9, MapElfIs DEF MappedSoFar, LeadsInto
<1>11. MapTo(m.chunk, StackEnd, stack, end, flags).ok
  BY <1>1, <1>4 DEF MapTo, Aligned
<1>12. IsChunk(MapTo(m.chunk, StackEnd, stack, end, flags).chunk)
  BY <1>1, <1>4, <1>5, <1>10, <1>11, MapToIs DEF Mapped
<1>13. ASSUME NEW b \in Nat, b % PageSize = 0
       PROVE  PagingGet(MapTo(m.chunk, StackEnd, stack, end, flags).chunk, b) =
                IF StackEnd <= b /\ b < AlignAddress(StackEnd + StackSize)
                THEN [frame |-> stack + (b - StackEnd), flags |-> flags]
                ELSE PagingGet(m.chunk, b)
  <2>1. PICK e \in Nat : e = AlignAddress(StackEnd + StackSize)
    BY <1>1, UpperPage
  <2>2. StackEnd + (end - stack) = e /\ StackEnd + (end - stack) <= AddressSpace
    BY <1>1, <1>4, <1>8, <2>1
  <2>3. PagingGet(MapTo(m.chunk, StackEnd, stack, end, flags).chunk, b) =
          IF StackEnd <= b /\ b < StackEnd + (end - stack)
          THEN [frame |-> stack + (b - StackEnd), flags |-> flags] ELSE PagingGet(m.chunk, b)
    BY <1>1, <1>4, <1>5, <1>10, <1>11, <1>13, <2>2, MapToPages
  <2> QED  BY <2>1, <2>2, <2>3
<1> QED  BY <1>0, <1>9, <1>12, <1>13

\* Pages are in the order of their addresses.
LEMMA PageOrder ==
  ASSUME NEW a \in Nat, NEW b \in Nat, a <= b
  PROVE  /\ a \div PageSize <= b \div PageSize
         /\ AlignToLowerPage(a) <= AlignToLowerPage(b)
         /\ a % PageSize = 0 => a <= AlignToLowerPage(b)
<1>1. PICK x \in Nat, y \in Nat : x = a \div PageSize /\ y = b \div PageSize
  BY SpaceIs
<1>2. /\ x * PageSize <= a /\ a < x * PageSize + PageSize /\ x * PageSize \in Nat
      /\ y * PageSize <= b /\ b < y * PageSize + PageSize /\ y * PageSize \in Nat
      /\ AlignToLowerPage(a) = x * PageSize /\ AlignToLowerPage(b) = y * PageSize
  BY <1>1, LowerPage, SpaceIs
<1>3. x <= y
  <2> SUFFICES ASSUME y + 1 <= x PROVE FALSE
    BY <1>1
  <2>1. (y + 1) * PageSize <= x * PageSize /\ (y + 1) * PageSize = y * PageSize + PageSize
    BY SpaceIs
  <2> QED  BY <1>2, <2>1, SpaceIs
<1>4. x * PageSize <= y * PageSize
  BY <1>3, SpaceIs
<1>5. a % PageSize = 0 => AlignToLowerPage(a) = a
  BY SpaceIs DEF AlignToLowerPage
<1> QED  BY <1>1, <1>2, <1>3, <1>4, <1>5

\* A header whose contents are in the file leads into the memory of the file or
\* right behind it, also if its p_memsz wraps around.
LEMMA LeadsHome ==
  ASSUME NEW h, HeapOK(h), NEW base \in DOMAIN h, NEW f \in File, h[base] = NeededBlocks(f.size),
         NEW g \in ProgramHeader, g.offset + g.filesz <= f.size, NEW entry, Leads(base, g, entry)
  PROVE  \/ entry.frame \div PageSize \in BlocksAt(h, base)
         \/ /\ g.memsz > 0
            /\ entry.frame \div PageSize \in
                 (base + g.offset) \div PageSize .. (base + g.offset + g.memsz - 1) \div PageSize
<1>1. /\ g.offset \in Nat /\ g.filesz \in Nat /\ g.memsz \in Nat /\ g.memsz < AddressSpace
      /\ f.size \in Nat \ {0}
  BY HeaderIs, LoadAssumption
<1>2. /\ base \in Address /\ base \in Nat /\ base % PageSize = 0
      /\ base + f.size <= (Blocks + 1) * PageSize /\ (Blocks + 1) * PageSize \in Nat
      /\ (Blocks + 1) * PageSize < AddressSpace
      /\ \A b \in Nat : base <= b /\ b < base + f.size => b \div PageSize \in BlocksAt(h, base)
  <2>1. base \in Address
    BY <1>1, BlocksHold
  <2> QED  BY <1>1, <2>1, BlocksHold, HeapEnds, HeapBelow
<1>3. PICK start \in Nat : start = base + g.offset
  BY <1>1, <1>2
<1>4. start <= base + f.size /\ start < AddressSpace /\ AddressSpace \in Nat \ {0}
  BY <1>1, <1>2, <1>3, SpaceIs
<1>5. PhdrAddress(base, g) = start
  BY <1>3, <1>4, WordIs DEF PhdrAddress
<1>6. PICK fr \in Nat :
        /\ fr % PageSize = 0 /\ AlignToLowerPage(start) <= fr /\ fr < MapEnd(start, g)
        /\ entry.frame = fr
  BY <1>5 DEF Leads
<1>7. base <= AlignToLowerPage(start)
  BY <1>1, <1>2, <1>3, PageOrder
<1>8. base <= fr
  BY <1>2, <1>6, <1>7, LowerPage
<1>9. PICK w \in Nat : w = Word(start + g.memsz)
  BY <1>1, WordIs
<1>10. fr < w
  <2>1. PICK e \in Nat : e = AlignAddress(w) /\ e % PageSize = 0 /\ e < w + PageSize
    BY UpperPage
  <2>2. MapEnd(start, g) = Word(e)
    BY <1>9, <2>1 DEF MapEnd, AlignToUpperPage
  <2>3. fr < e
    BY <1>6, <2>1, <2>2, WordIs
  <2>4. fr + PageSize <= e
    BY <1>6, <2>1, <2>3, AlignedSums
  <2> QED  BY <2>1, <2>4, SpaceIs
<1>11. CASE fr < start
  BY <1>1, <1>2, <1>4, <1>6, <1>8, <1>11
<1>12. CASE start <= fr
  <2>1. start + g.memsz < AddressSpace
    <3> SUFFICES ASSUME AddressSpace <= start + g.memsz PROVE FALSE
      BY <1>1, <1>4
    <3>1. w = start + g.memsz - AddressSpace
      BY <1>1, <1>4, <1>9, WordIs
    <3> QED  BY <1>1, <1>4, <1>10, <1>12, <3>1
  <2>2. w = start + g.memsz
    BY <1>1, <1>9, <2>1, WordIs
  <2>3. g.memsz > 0 /\ fr <= start + g.memsz - 1 /\ start + g.memsz - 1 \in Nat
    BY <1>1, <1>10, <1>12, <2>2
  <2>4. /\ start \div PageSize <= fr \div PageSize
        /\ fr \div PageSize <= (start + g.memsz - 1) \div PageSize
    BY <1>12, <2>3, PageOrder
  <2>5. /\ start \div PageSize \in Int /\ fr \div PageSize \in Int
        /\ (start + g.memsz - 1) \div PageSize \in Int
    BY <2>3, SpaceIs
  <2>6. fr \div PageSize \in start \div PageSize .. (start + g.memsz - 1) \div PageSize
    BY <2>4, <2>5
  <2> QED  BY <1>3, <1>6, <2>3, <2>6
<1> QED  BY <1>11, <1>12

-----------------------------------------------------------------------------
(* The addresses in struct elf_file. *)

IsSegment(f, i) == f.phdrs[i].type = PT_LOAD

SegmentOK(h) ==
  InPlace(h) /\ h.vaddr > 0 /\ h.filesz <= h.memsz

RangeSoFar(base, f, n, r) ==
  /\ r.vbase \in Nat /\ r.vend \in Nat
  /\ (\A i \in 1 .. n : ~ IsSegment(f, i)) => r.vbase = 0 /\ r.vend = 0
  /\ \A i \in 1 .. n : IsSegment(f, i) =>
       /\ 0 < r.vbase /\ r.vbase <= f.phdrs[i].vaddr
       /\ 0 < r.vend /\ f.phdrs[i].vaddr + f.phdrs[i].filesz <= r.vend
  /\ (\E i \in 1 .. n : IsSegment(f, i)) =>
       /\ \E i \in 1 .. n : /\ IsSegment(f, i) /\ r.vbase = f.phdrs[i].vaddr
                            /\ r.pbase = base + f.phdrs[i].offset
       /\ \E i \in 1 .. n : /\ IsSegment(f, i) /\ r.vend = f.phdrs[i].vaddr + f.phdrs[i].filesz
                            /\ r.pend = base + f.phdrs[i].offset + f.phdrs[i].filesz

\* One segment more.
LEMMA SegmentMore ==
  ASSUME NEW base \in Address, NEW f \in File, NEW n \in 1 .. Len(f.phdrs), NEW r,
         RangeSoFar(base, f, n - 1, r), IsSegment(f, n), SegmentOK(f.phdrs[n])
  PROVE  RangeSoFar(base, f, n, ProcessPhdr(base, r, f.phdrs[n]))
<1>0. PICK h, r2 : h = f.phdrs[n] /\ r2 = ProcessPhdr(base, r, h)
  OBVIOUS
<1>1. h \in ProgramHeader /\ n \in Nat
  BY <1>0, HeadersAre
<1>2. PICK v \in Nat, o \in Nat, z \in Nat, m \in Nat :
        v = h.vaddr /\ o = h.offset /\ z = h.filesz /\ m = h.memsz
  BY <1>1, HeaderIs
<1>21. PICK e \in Nat : e = v + z
  OBVIOUS
<1>3. /\ base \in Nat /\ base <= Blocks * PageSize /\ Blocks * PageSize \in Nat
      /\ (Blocks + 1) * PageSize = Blocks * PageSize + PageSize
      /\ PageSize \in Nat \ {0} /\ AddressSpace \in Nat \ {0}
  <2>1. (Blocks + 1) * PageSize = Blocks * PageSize + PageSize
    BY HeapAssumption, SpaceIs
  <2> QED  BY <2>1, HeapEnds, SpaceIs
<1>4. /\ v > 0 /\ z <= m /\ v + m < AddressSpace
      /\ base + o + m + PageSize <= AddressSpace
  <2>1. SegmentOK(h)
    BY <1>0
  <2>2. /\ v > 0 /\ z <= m /\ v + m < AddressSpace
        /\ (Blocks + 1) * PageSize + o + m <= AddressSpace
    BY <1>2, <2>1 DEF SegmentOK, InPlace
  <2> QED  BY <1>3, <2>2
<1>5. PICK p \in Nat : p = base + o /\ p < AddressSpace /\ p + z < AddressSpace
  <2>1. base + o \in Nat
    BY <1>3
  <2>2. base + o < AddressSpace /\ base + o + z < AddressSpace
    BY <1>3, <1>4
  <2> QED  BY <2>1, <2>2
<1>6. e < AddressSpace /\ Word(e) = e /\ Word(p) = p /\ Word(p + z) = p + z
  <2>1. e < AddressSpace
    BY <1>21, <1>3, <1>4
  <2> QED  BY <1>5, <2>1, WordIs
<1>7. PhdrAddress(base, h) = p
  BY <1>2, <1>5, <1>6 DEF PhdrAddress
<1>8. /\ IsLower(r, v) => r2.vbase = v /\ r2.pbase = p
      /\ ~ IsLower(r, v) => r2.vbase = r.vbase /\ r2.pbase = r.pbase
      /\ IsHigher(r, e) => r2.vend = e /\ r2.pend = p + z
      /\ ~ IsHigher(r, e) => r2.vend = r.vend /\ r2.pend = r.pend
  BY <1>0, <1>2, <1>21, <1>6, <1>7 DEF ProcessPhdr
<1>9. r.vbase \in Nat /\ r.vend \in Nat
  BY DEF RangeSoFar
<1>10. /\ e = v + z /\ r2.vbase \in Nat /\ r2.vend \in Nat /\ r2.vbase > 0 /\ r2.vend > 0
       /\ r2.vbase <= v /\ e <= r2.vend
       /\ r.vbase > 0 => r2.vbase <= r.vbase
       /\ r.vend <= r2.vend
  <2>1. /\ r2.vbase \in Nat /\ r2.vbase > 0 /\ r2.vbase <= v
        /\ r.vbase > 0 => r2.vbase <= r.vbase
    BY <1>4, <1>8, <1>9 DEF IsLower
  <2>2. /\ r2.vend \in Nat /\ r2.vend > 0 /\ e <= r2.vend /\ r.vend <= r2.vend
    <3>1. e > 0
      BY <1>21, <1>4
    <3> QED  BY <1>8, <1>9, <3>1 DEF IsHigher
  <2> QED  BY <1>21, <2>1, <2>2
<1>11. ASSUME NEW i \in 1 .. n, IsSegment(f, i)
       PROVE  /\ 0 < r2.vbase /\ r2.vbase <= f.phdrs[i].vaddr
              /\ 0 < r2.vend /\ f.phdrs[i].vaddr + f.phdrs[i].filesz <= r2.vend
  <2>1. CASE i = n
    <3>1. f.phdrs[i].vaddr = v /\ f.phdrs[i].vaddr + f.phdrs[i].filesz = e
      BY <1>0, <1>2, <1>21, <2>1
    <3> QED  BY <1>10, <3>1
  <2>2. CASE i # n
    <3>1. i \in 1 .. n - 1
      BY <1>1, <2>2
    <3>2. /\ 0 < r.vbase /\ r.vbase <= f.phdrs[i].vaddr
          /\ f.phdrs[i].vaddr + f.phdrs[i].filesz <= r.vend
      BY <1>11, <3>1 DEF RangeSoFar
    <3>5. f.phdrs[i] \in ProgramHeader
      <4>1. i \in 1 .. Len(f.phdrs)
        BY <1>1, HeadersAre
      <4> QED  BY <4>1, HeadersAre
    <3>3. PICK x \in Nat, y \in Nat : x = f.phdrs[i].vaddr /\ y = f.phdrs[i].filesz
      BY <3>5, HeaderIs
    <3>6. 0 < r.vbase /\ r.vbase <= x /\ x + y <= r.vend
      BY <3>2, <3>3
    <3>4. /\ 0 < r2.vbase /\ r2.vbase <= x /\ 0 < r2.vend /\ x + y <= r2.vend
      <4>1. x + y \in Nat
        BY <3>3
      <4> QED  BY <1>9, <1>10, <3>6, <4>1
    <3> QED  BY <3>3, <3>4
  <2> QED  BY <2>1, <2>2
<1>12. \E i \in 1 .. n : /\ IsSegment(f, i) /\ r2.vbase = f.phdrs[i].vaddr
                         /\ r2.pbase = base + f.phdrs[i].offset
  <2>1. CASE IsLower(r, v)
    BY <1>0, <1>1, <1>2, <1>5, <1>8, <2>1
  <2>2. CASE ~ IsLower(r, v)
    <3>1. r.vbase # 0
      BY <2>2 DEF IsLower
    <3>2. \E i \in 1 .. n - 1 : IsSegment(f, i)
      BY <3>1 DEF RangeSoFar
    <3>3. PICK i \in 1 .. n - 1 : /\ IsSegment(f, i) /\ r.vbase = f.phdrs[i].vaddr
                                  /\ r.pbase = base + f.phdrs[i].offset
      BY <3>2 DEF RangeSoFar
    <3>4. i \in 1 .. n
      BY <1>1
    <3> QED  BY <1>8, <2>2, <3>3, <3>4
  <2> QED  BY <2>1, <2>2
<1>13. \E i \in 1 .. n : /\ IsSegment(f, i) /\ r2.vend = f.phdrs[i].vaddr + f.phdrs[i].filesz
                         /\ r2.pend = base + f.phdrs[i].offset + f.phdrs[i].filesz
  <2>1. CASE IsHigher(r, e)
    BY <1>0, <1>1, <1>2, <1>21, <1>5, <1>8, <2>1
  <2>2. CASE ~ IsHigher(r, e)
    <3>1. r.vend # 0
      BY <2>2 DEF IsHigher
    <3>2. \E i \in 1 .. n - 1 : IsSegment(f, i)
      BY <3>1 DEF RangeSoFar
    <3>3. PICK i \in 1 .. n - 1 :
            /\ IsSegment(f, i) /\ r.vend = f.phdrs[i].vaddr + f.phdrs[i].filesz
            /\ r.pend = base + f.phdrs[i].offset + f.phdrs[i].filesz
      BY <3>2 DEF RangeSoFar
    <3>4. i \in 1 .. n
      BY <1>1
    <3> QED  BY <1>8, <2>2, <3>3, <3>4
  <2> QED  BY <2>1, <2>2
<1>14. n \in 1 .. n
  BY <1>1
<1>15. RangeSoFar(base, f, n, r2)
  BY <1>10, <1>11, <1>12, <1>13, <1>14 DEF RangeSoFar
<1> QED  BY <1>0, <1>15

\* A header of another type changes nothing.
LEMMA NoSegmentMore ==
  ASSUME NEW base, NEW f, NEW n \in Nat \ {0}, NEW r,
         RangeSoFar(base, f, n - 1, r), ~ IsSegment(f, n)
  PROVE  RangeSoFar(base, f, n, r)
<1>1. \A i \in 1 .. n : IsSegment(f, i) => i \in 1 .. n - 1
  OBVIOUS
<1>2. \A i \in 1 .. n - 1 : i \in 1 .. n
  OBVIOUS
<1> QED  BY <1>1, <1>2 DEF RangeSoFar

\* elf_process_pheaders.
LEMMA ProcessPheadersIs ==
  ASSUME NEW base \in Address, NEW f \in File,
         \A i \in 1 .. Len(f.phdrs) : IsSegment(f, i) => SegmentOK(f.phdrs[i])
  PROVE  RangeSoFar(base, f, Len(f.phdrs), ProcessPheaders(base, f))
<1> DEFINE total == Len(f.phdrs)
           Step(g, n) ==
             IF n = 0 THEN NoRange
             ELSE IF f.phdrs[n].type # PT_LOAD THEN g[n - 1]
             ELSE ProcessPhdr(base, g[n - 1], f.phdrs[n])
           bad == {k \in Nat : ~ \E g : g = [n \in 0 .. k |-> Step(g, n)]}
<1>1. ProcessPheaders(base, f) = (CHOOSE g : g = [n \in 0 .. total |-> Step(g, n)])[total]
  BY DEF ProcessPheaders
<1>2. \A g, h, n : n # 0 /\ g[n - 1] = h[n - 1] => Step(g, n) = Step(h, n)
  OBVIOUS
<1>3. \A g : Step(g, 0) = NoRange
  OBVIOUS
<1>4. \A g, n : n # 0 =>
        Step(g, n) = IF f.phdrs[n].type # PT_LOAD THEN g[n - 1]
                     ELSE ProcessPhdr(base, g[n - 1], f.phdrs[n])
  OBVIOUS
<1>5. total \in Nat
  BY HeadersAre
<1> HIDE DEF Step, total
<1>6. bad = {}
  <2> SUFFICES ASSUME bad # {} PROVE FALSE
    OBVIOUS
  <2>1. PICK k \in bad : \A y \in bad : k <= y
    BY LeastElement
  <2>2. k \in Nat /\ ~ \E g : g = [n \in 0 .. k |-> Step(g, n)]
    BY <2>1
  <2>3. k # 0
    <3> SUFFICES ASSUME k = 0 PROVE FALSE
      OBVIOUS
    <3> DEFINE g == [n \in 0 .. 0 |-> NoRange]
    <3>1. g = [n \in 0 .. 0 |-> Step(g, n)]
      BY <1>3
    <3> QED  BY <2>2, <3>1
  <2>4. k - 1 \in Nat /\ k - 1 \notin bad
    <3>1. k - 1 \in Nat /\ ~ (k <= k - 1)
      BY <2>2, <2>3
    <3> QED  BY <2>1, <3>1
  <2>5. PICK g : g = [n \in 0 .. k - 1 |-> Step(g, n)]
    BY <2>4
  <2> DEFINE h == [n \in 0 .. k |-> IF n = k THEN Step(g, k) ELSE g[n]]
  <2>6. \A n \in 0 .. k - 1 : h[n] = g[n]
    BY <2>2, <2>3
  <2>7. \A n \in 0 .. k : Step(h, n) = Step(g, n)
    BY <1>2, <1>3, <2>2, <2>6
  <2>8. h = [n \in 0 .. k |-> Step(h, n)]
    <3>1. \A n \in 0 .. k : h[n] = Step(g, n)
      BY <2>2, <2>5
    <3> QED  BY <2>7, <3>1
  <2> QED  BY <2>2, <2>8
<1>7. PICK G : G = [n \in 0 .. total |-> Step(G, n)] /\ ProcessPheaders(base, f) = G[total]
  <2>1. \E g : g = [n \in 0 .. total |-> Step(g, n)]
    BY <1>5, <1>6
  <2> QED  BY <1>1, <2>1
<1>8. \A n \in 0 .. total : G[n] = Step(G, n)
  BY <1>7, Zenon
<1> DEFINE wrong == {n \in 0 .. total : ~ RangeSoFar(base, f, n, G[n])}
<1>9. wrong = {}
  <2> SUFFICES ASSUME wrong # {} PROVE FALSE
    OBVIOUS
  <2>1. wrong \in SUBSET Nat
    BY <1>5
  <2>2. PICK n \in wrong : \A y \in wrong : n <= y
    BY <2>1, LeastElement
  <2>3. n \in 0 .. total /\ ~ RangeSoFar(base, f, n, G[n])
    BY <2>2
  <2>4. n # 0
    <3>1. 0 \in 0 .. total /\ G[0] = NoRange
      BY <1>3, <1>5, <1>8
    <3>2. RangeSoFar(base, f, 0, NoRange)
      BY DEF RangeSoFar, NoRange
    <3> QED  BY <2>3, <3>1, <3>2
  <2>5. n \in 1 .. total /\ n \in Nat \ {0} /\ n - 1 \in 0 .. total /\ n - 1 \notin wrong
    BY <1>5, <2>2, <2>3, <2>4
  <2>6. PICK r : r = G[n - 1] /\ RangeSoFar(base, f, n - 1, r)
    BY <2>5
  <2>7. G[n] = IF ~ IsSegment(f, n) THEN r ELSE ProcessPhdr(base, r, f.phdrs[n])
    BY <1>4, <1>8, <2>3, <2>4, <2>6 DEF IsSegment
  <2>8. CASE ~ IsSegment(f, n)
    BY <2>3, <2>5, <2>6, <2>7, <2>8, NoSegmentMore
  <2>9. CASE IsSegment(f, n)
    <3>1. n \in 1 .. Len(f.phdrs)
      BY <2>5 DEF total
    <3>2. RangeSoFar(base, f, n, ProcessPhdr(base, r, f.phdrs[n]))
      BY <2>6, <2>9, <3>1, SegmentMore
    <3> QED  BY <2>3, <2>7, <2>9, <3>2
  <2> QED  BY <2>8, <2>9
<1>10. RangeSoFar(base, f, total, G[total])
  BY <1>5, <1>9
<1> QED  BY <1>7, <1>10 DEF total

-----------------------------------------------------------------------------
(***************************************************************************)
(* What is mapped.  The properties speak of what a directory leads to; it  *)
(* was written once, by map_memory, from the file and from the addresses   *)
(* that the process had then.  So the invariant keeps that connection: the *)
(* directory of a loaded program is the one that map_memory makes of its   *)
(* file, its memory and its stack, apart from the blocks that malloc    *)
(* has mapped to themselves and from the one page that                     *)
(* copy_string_from_task has mapped over and is about to restore; and the  *)
(* blocks of the memory and the stack are as many as their sizes need.     *)
(***************************************************************************)

\* The memory of a file and the stack of a process have the blocks they need.
SizesOf(a, f) ==
  /\ Parts(a)[3] # NULL => heap[Parts(a)[3]] = NeededBlocks(f.size)
  /\ Parts(a)[4] # NULL => heap[Parts(a)[4]] = NeededBlocks(StackSize)

\* That holds for the loaded programs and for the one that is being loaded.
Sizes ==
  /\ \A s \in Slots : processes[s] # NULL => SizesOf(processes[s], file[s])
  /\ pc \in {"stack", "task", "map"} => SizesOf(new.address, new.file)
  /\ pc = "validate" => heap[elf_memory[elf_file]] = NeededBlocks(new.file.size)

Copying == pc = "copying" => copy.slot \in Slots /\ copy.tmp \in Address

\* What a page leads to once copy_string_from_task has restored it.
Entry(s, b) ==
  IF pc = "copying" /\ copy.slot = s /\ b = copy.tmp THEN copy.old ELSE PagingGet(directory[s], b)

\* What process_malloc makes of a page of a block that it maps.
GrantedEntry(b) == [frame |-> b, flags |-> UserFlags \cup {"write"}]

Over(chunk, set, b) ==
  IF b \div PageSize \in set THEN GrantedEntry(b) ELSE PagingGet(chunk, b)

\* Only loaded programs are given blocks, which are blocks of the heap.
Granted ==
  /\ granted \in [Slots -> SUBSET Block]
  /\ \A s \in Slots : processes[s] = NULL => granted[s] = {}

DirectoryIs(s) ==
  LET m == MapMemory(process[processes[s]], file[s])
  IN  /\ m.ok /\ IsChunk(directory[s])
      /\ \A b \in Nat : b % PageSize = 0 => Entry(s, b) = Over(m.chunk, granted[s], b)

Directories == \A s \in Slots : processes[s] # NULL => file[s] \in File /\ DirectoryIs(s)

MInv ==
  /\ LInv /\ Kept /\ DOMAIN directory = Slots
  /\ Granted /\ Sizes /\ Copying /\ Directories

-----------------------------------------------------------------------------
(* Pages and the blocks of the heap. *)

\* Multiples have the order of their factors.
LEMMA MultiplesOrder ==
  ASSUME NEW i \in Nat, NEW j \in Nat
  PROVE  i * PageSize <= j * PageSize <=> i <= j
<1>1. PICK m \in Nat \ {0} : m = PageSize
  BY SpaceIs
<1>2. i <= j => i * m <= j * m
  OBVIOUS
<1>3. ASSUME j + 1 <= i PROVE ~ (i * m <= j * m)
  <2>1. (j + 1) * m <= i * m /\ (j + 1) * m = j * m + m /\ j * m \in Nat /\ i * m \in Nat
    BY <1>3
  <2> QED  BY <2>1
<1> QED  BY <1>1, <1>2, <1>3

\* Rounding up gives the least multiple.
LEMMA LeastUpper ==
  ASSUME NEW x \in Nat, NEW b \in Nat, b % PageSize = 0
  PROVE  x <= b <=> AlignAddress(x) <= b
<1>1. PICK e \in Nat : e = AlignAddress(x) /\ e % PageSize = 0 /\ x <= e /\ e < x + PageSize
  BY UpperPage
<1>2. b < e => b + PageSize <= e
  BY <1>1, AlignedSums
<1> QED  BY <1>1, <1>2, SpaceIs

\* Aligned addresses between two others.
LEMMA PageBetween ==
  ASSUME NEW a \in Nat, NEW e \in Nat, NEW b \in Nat,
         a % PageSize = 0, e % PageSize = 0, b % PageSize = 0
  PROVE  (a <= b /\ b < e) <=> b \div PageSize \in Pages(a, e)
<1>1. PICK i \in Nat, j \in Nat, k \in Nat :
        /\ i = a \div PageSize /\ j = e \div PageSize /\ k = b \div PageSize
        /\ a = i * PageSize /\ e = j * PageSize /\ b = k * PageSize
  BY AlignedIs
<1>2. a <= b <=> i <= k
  BY <1>1, MultiplesOrder
<1>3. e <= b <=> j <= k
  BY <1>1, MultiplesOrder
<1>4. k \in Pages(a, e) <=> i <= k /\ k <= j - 1
  BY <1>1 DEF Pages
<1> QED  BY <1>1, <1>2, <1>3, <1>4

\* The pages of the heap.
LEMMA HeapPage ==
  ASSUME NEW b \in Nat, b % PageSize = 0, b \div PageSize \in Block
  PROVE  PageSize <= b /\ b < (Blocks + 1) * PageSize
<1>1. PICK k \in Nat : k = b \div PageSize /\ b = k * PageSize /\ 1 <= k /\ ~ (Blocks + 1 <= k)
  BY AlignedIs, HeapAssumption DEF Block
<1>2. 1 * PageSize = PageSize /\ (Blocks + 1) * PageSize \in Nat /\ Blocks + 1 \in Nat
  BY HeapAssumption, SpaceIs
<1>3. 1 * PageSize <= k * PageSize /\ ~ ((Blocks + 1) * PageSize <= k * PageSize)
  BY <1>1, <1>2, MultiplesOrder
<1> QED  BY <1>1, <1>2, <1>3, SpaceIs

-----------------------------------------------------------------------------
(* What a step leaves alone. *)

\* Allocations keep their sizes.
Less(h, g) == HeapOK(g) /\ DOMAIN g \subseteq DOMAIN h /\ \A x \in DOMAIN g : g[x] = h[x]
Agrees(h, g) == \A x \in DOMAIN h \cap DOMAIN g : g[x] = h[x]

LEMMA FreedLess ==
  ASSUME NEW h, HeapOK(h), NEW a
  PROVE  Less(h, Freed(h, a))
BY FreedOK DEF Less

LEMMA FreedAgrees ==
  ASSUME NEW h, HeapOK(h), NEW left, HeapOK(left), Agrees(h, left), NEW a
  PROVE  Agrees(h, Freed(left, a))
<1>1. Less(left, Freed(left, a))
  BY FreedLess
<1> QED  BY <1>1 DEF Less, Agrees

LEMMA WithAgrees ==
  ASSUME Types, NEW size \in Nat \ {0}, Given(size) # NULL
  PROVE  /\ HeapOK(With(size)) /\ Agrees(heap, With(size))
         /\ With(size)[Given(size)] = NeededBlocks(size)
BY KzallocGives DEF Types, Given, With, NULL, Agrees

LEMMA SelfAgrees == ASSUME NEW h PROVE Agrees(h, h)
BY DEF Agrees

LEMMA FailAgrees ==
  ASSUME Types, NEW left, HeapOK(left), Agrees(heap, left), Fail(left)
  PROVE  Agrees(heap, heap')
BY FreedAgrees DEF Fail, Types

LEMMA HeapStays == LInv /\ Next => Agrees(heap, heap')
<1> SUFFICES ASSUME LInv, Next PROVE Agrees(heap, heap')
  OBVIOUS
<1>0. /\ Types /\ HeapOK(heap) /\ Agrees(heap, heap)
      /\ Struct \in Nat \ {0} /\ StackSize \in Nat \ {0}
      /\ (Loading => new.file.size \in Nat \ {0})
  BY Addresses, SelfAgrees DEF LInv, Types
<1>1. ASSUME UNCHANGED heap PROVE Agrees(heap, heap')
  BY <1>0, <1>1
<1>2. ASSUME NEW size \in Nat \ {0}, Obtained(size) PROVE Agrees(heap, heap')
  BY <1>0, <1>2, WithAgrees DEF Obtained
<1>3. ASSUME Fail(heap) PROVE Agrees(heap, heap')
  BY <1>0, <1>3, FailAgrees
<1>4. ASSUME NEW size \in Nat \ {0}, Given(size) # NULL, Fail(With(size))
      PROVE Agrees(heap, heap')
  BY <1>0, <1>4, WithAgrees, FailAgrees
<1>5. CASE Start \/ ElfOpen \/ Task \/ \E s \in Slots : CopyString(s)
  BY <1>0, <1>2, <1>5 DEF Start, ElfOpen, Task, CopyString
<1>6. CASE ElfMissing
  BY <1>0, <1>3, <1>4, <1>6 DEF ElfMissing
<1>7. CASE ElfUnreadable \/ BinaryFails \/ NoStack \/ MapFails
  BY <1>0, <1>3, <1>4, <1>7 DEF ElfUnreadable, BinaryFails, NoStack, MapFails, Loading
<1>8. CASE ElfRead \/ BinaryRead
  BY <1>0, <1>2, <1>8 DEF ElfRead, BinaryRead, Loading
<1>9. CASE Stack
  BY <1>0, <1>2, <1>9 DEF Stack
<1>10. CASE OutOfMemoryInElf \/ TaskOfBinary \/ NoTask
  BY <1>1, <1>10 DEF OutOfMemoryInElf, TaskOfBinary, NoTask, GoWild, memory
<1>11. CASE ElfValid \/ ElfInvalid \/ BinaryOpen \/ Map
  BY <1>1, <1>11 DEF ElfValid, ElfInvalid, BinaryOpen, Map, memory
<1>12. CASE \E s \in Slots : Exit(s)
  <2>1. PICK set, a, b, c, d : heap' = Freed(Freed(Freed(Freed(FreedAll(heap, set), a), b), c), d)
    BY <1>12 DEF Exit
  <2>2. PICK g0, g1, g2, g3 : /\ g0 = FreedAll(heap, set)
                              /\ g1 = Freed(g0, a) /\ g2 = Freed(g1, b) /\ g3 = Freed(g2, c)
    OBVIOUS
  <2>8. HeapOK(g0) /\ Agrees(heap, g0)
    <3>1. HeapOK(g0) /\ DOMAIN g0 = DOMAIN heap \ set
          /\ \A y \in DOMAIN heap \ set : g0[y] = heap[y]
      <4>1. /\ HeapOK(FreedAll(heap, set)) /\ DOMAIN FreedAll(heap, set) = DOMAIN heap \ set
            /\ \A y \in DOMAIN heap \ set : FreedAll(heap, set)[y] = heap[y]
        BY <1>0, FreedAllOK
      <4>2. g0 = FreedAll(heap, set)
        BY <2>2
      <4> QED  BY <4>1, <4>2
    <3> QED  BY <3>1 DEF Agrees
  <2>3. HeapOK(g1) /\ HeapOK(g2) /\ HeapOK(g3)
    BY <2>2, <2>8, FreedOK
  <2>4. Agrees(heap, g1)
    BY <1>0, <2>2, <2>8, FreedAgrees
  <2>5. Agrees(heap, g2)
    BY <1>0, <2>2, <2>3, <2>4, FreedAgrees
  <2>6. Agrees(heap, g3)
    BY <1>0, <2>2, <2>3, <2>5, FreedAgrees
  <2>7. heap' = Freed(g3, d)
    BY <2>1, <2>2
  <2> QED  BY <1>0, <2>3, <2>6, <2>7, FreedAgrees
<1>13. CASE CopyBack
  BY <1>0, <1>13, FreedAgrees DEF CopyBack
<1>14. CASE \E s \in Slots : Malloc(s)
  BY <1>2, <1>14, MallocGives
<1>15. CASE \E s \in Slots : FreeMemory(s)
  BY <1>0, <1>15, FreedAgrees DEF FreeMemory
<1> QED
  BY <1>5, <1>6, <1>7, <1>8, <1>9, <1>10, <1>11, <1>12, <1>13, <1>14, <1>15 DEF Next

\* Which steps change the table.
LEMMA TableStays ==
  ASSUME Next, ~ Map, ~ \E s \in Slots : Exit(s)
  PROVE  processes' = processes /\ file' = file
BY DEF Next, Start, ElfOpen, ElfMissing, ElfUnreadable, ElfRead, OutOfMemoryInElf, ElfValid,
       ElfInvalid, BinaryOpen, BinaryFails, BinaryRead, Stack, NoStack, Task, TaskOfBinary, NoTask,
       MapFails, Malloc, FreeMemory, CopyString, CopyBack, Fail, GoWild, loaded

\* So a slot stays, but for the last step of a load and the exit.
LEMMA SlotsStay ==
  ASSUME LInv, Next, NEW s \in Slots, processes'[s] # NULL
  PROVE  \/ Map /\ s = new.slot
         \/ /\ processes'[s] = processes[s] /\ file'[s] = file[s]
            /\ processes[s] \in Loaded /\ processes[s] \in Loaded'
<1>0. processes \in [Slots -> Pointer] /\ DOMAIN file = Slots
  BY DEF LInv, Types, TypeOK
<1>1. CASE Map
  BY <1>0, <1>1 DEF Map, Loaded
<1>2. CASE \E t \in Slots : Exit(t)
  BY <1>0, <1>2 DEF Exit, Loaded, NULL
<1>3. ASSUME ~ Map, ~ \E t \in Slots : Exit(t)
      PROVE  processes' = processes /\ file' = file
  BY <1>3, TableStays
<1> QED  BY <1>1, <1>2, <1>3 DEF Loaded

\* What a process has after a step is allocated then.
LEMMA PartsAllocatedNext ==
  ASSUME LInv', NEW a \in Known'
  PROVE  \A i \in 1 .. 5 : Parts(a)'[i] # NULL => Parts(a)'[i] \in DOMAIN heap'
<1>1. a \in Address /\ a \in Pointer
  BY Addresses DEF LInv, Types, TypeOK, Known, Loaded, Loading
<1>2. Held'[a] = Parts(a)'
  BY <1>1, HeldNext
<1> QED  BY <1>1, <1>2 DEF LInv, Sound

\* A program that stays loaded keeps the sizes of its blocks.
LEMMA SizesStay ==
  ASSUME LInv, LInv', Next, NEW a \in Loaded, a \in Loaded', NEW f, SizesOf(a, f)
  PROVE  SizesOf(a, f)'
<1>1. a \in Known /\ a \in Known'
  BY DEF Known
<1>2. \A i \in 1 .. 5 : /\ Parts(a)'[i] = Parts(a)[i]
                        /\ Parts(a)[i] # NULL => Parts(a)[i] \in DOMAIN heap \cap DOMAIN heap'
  BY <1>1, PartsStay, PartsAllocated, PartsAllocatedNext DEF LInv
<1>3. \A x \in DOMAIN heap \cap DOMAIN heap' : heap'[x] = heap[x]
  BY HeapStays DEF Agrees
<1>4. 3 \in 1 .. 5 /\ 4 \in 1 .. 5
  OBVIOUS
<1>5. PICK x, y : /\ x = Parts(a)[3] /\ Parts(a)'[3] = x /\ (x # NULL => heap'[x] = heap[x])
                  /\ y = Parts(a)[4] /\ Parts(a)'[4] = y /\ (y # NULL => heap'[y] = heap[y])
  BY <1>2, <1>3, <1>4
<1> QED  BY <1>5 DEF SizesOf

LEMMA Gets ==
  ASSUME LInv, NEW size \in Nat \ {0}, Obtained(size), NoElfFile(size)
  PROVE  \E g \in Address \ DOMAIN heap :
           /\ g = Given(size) /\ heap'[g] = NeededBlocks(size)
           /\ \A x \in DOMAIN heap : heap'[x] = heap[x]
           /\ elf_memory' = [elf_memory EXCEPT ![g] = NULL]
<1>1. PICK g : g = Given(size)
  OBVIOUS
<1>2. g \in Address \ DOMAIN heap /\ DOMAIN heap' = DOMAIN heap \cup {g} /\ g # NULL
  BY <1>1, Obtains
<1>3. heap' = With(size) /\ elf_memory' = [elf_memory EXCEPT ![g] = NULL]
  BY <1>1 DEF Obtained, NoElfFile
<1>4. heap'[g] = NeededBlocks(size) /\ \A x \in DOMAIN heap : heap'[x] = heap[x]
  BY <1>1, <1>2, <1>3, WithAgrees DEF LInv, Agrees
<1> QED  BY <1>1, <1>2, <1>3, <1>4

\* The process that is being loaded gets its parts in turn.
LEMMA NewSizes ==
  ASSUME LInv, LInv', Sizes, Next, pc' \in {"stack", "task", "map"}
  PROVE  SizesOf(new.address, new.file)'
<1>0. /\ Types /\ HeapOK(heap) /\ Struct \in Nat \ {0} /\ StackSize \in Nat \ {0}
      /\ process \in [Address -> ProcessType] /\ elf_memory \in [Address -> Pointer]
      /\ NULL \notin Address
  BY Addresses DEF LInv, Types, TypeOK
<1>1. ElfValid \/ BinaryRead \/ Stack \/ Task
  BY DEF Next, Start, ElfOpen, ElfMissing, ElfUnreadable, ElfRead, OutOfMemoryInElf, ElfValid,
      ElfInvalid, BinaryOpen, BinaryFails, BinaryRead, Stack, NoStack, Task, TaskOfBinary, NoTask,
      Map, MapFails, CopyString, CopyBack, Fail, GoWild, Return, Exit, Malloc, FreeMemory
<1>2. Loading /\ new.address \in Address /\ new.address \in Known /\ new' = new
      /\ new.file.size \in Nat \ {0}
  <2>1. pc \notin {"idle", "copying"} /\ new' = new
    BY <1>1 DEF ElfValid, BinaryRead, Stack, Task
  <2> QED  BY <1>0, <2>1, KnownAddresses, Addresses DEF LInv, Types, Loading
<1>3. PICK a, f : a = new.address /\ f = new.file
  OBVIOUS
<1>4. /\ Parts(a)'[3] = IF process'[a].data = NULL THEN NULL ELSE elf_memory'[process'[a].data]
      /\ Parts(a)'[4] = process'[a].stack
      /\ Parts(a)[3] = IF process[a].data = NULL THEN NULL ELSE elf_memory[process[a].data]
      /\ Parts(a)[4] = process[a].stack
  BY PartsAre, PartsNext
<1>5. SizesOf(a, f)'
  <2>1. CASE ElfValid
    <3>1. /\ process'[a].data = elf_file /\ process'[a].stack = process[a].stack
          /\ elf_memory' = elf_memory /\ heap' = heap /\ pc = "validate"
      BY <1>0, <1>2, <1>3, <2>1 DEF ElfValid
    <3>2. process[a].stack = NULL /\ elf_file # NULL
      BY <1>2, <1>3, <3>1 DEF LInv, Progress, ElfLocals, Loading
    <3>3. heap'[elf_memory'[elf_file]] = NeededBlocks(f.size)
      BY <1>3, <3>1 DEF Sizes
    <3>4. Parts(a)'[3] = elf_memory'[elf_file] /\ Parts(a)'[4] = NULL
      BY <1>4, <3>1, <3>2
    <3> QED  BY <3>3, <3>4 DEF SizesOf
  <2>2. CASE BinaryRead
    <3>0. Obtained(f.size) /\ NoElfFile(f.size) /\ f.size \in Nat \ {0} /\ pc = "binary_read"
      BY <1>2, <1>3, <2>2 DEF BinaryRead
    <3>1. PICK g \in Address : g = Given(f.size) /\ elf_memory' = [elf_memory EXCEPT ![g] = NULL]
      BY <3>0, Gets
    <3>4. process' = [process EXCEPT ![a].data = g]
      BY <1>3, <2>2, <3>1 DEF BinaryRead
    <3>5. process'[a].data = g /\ process'[a].stack = process[a].stack
      BY <1>0, <1>2, <1>3, <3>4
    <3>6. elf_memory'[g] = NULL
      BY <1>0, <3>1
    <3>2. process[a].stack = NULL
      BY <1>2, <1>3, <3>0 DEF LInv, Progress, Loading
    <3>3. Parts(a)'[3] = NULL /\ Parts(a)'[4] = NULL
      BY <1>4, <3>2, <3>5, <3>6
    <3> QED  BY <3>3 DEF SizesOf
  <2>3. CASE Stack \/ Task
    <3>1. PICK size \in Nat \ {0} :
            /\ Obtained(size) /\ NoElfFile(size) /\ pc \in {"stack", "task"}
            /\ \/ size = StackSize /\ process' = [process EXCEPT ![a].stack = Given(size)]
               \/ process' = [process EXCEPT ![a].task = Given(size)]
      BY <1>0, <1>3, <2>3 DEF Stack, Task
    <3>2. PICK g \in Address \ DOMAIN heap :
            /\ g = Given(size) /\ heap'[g] = NeededBlocks(size)
            /\ \A x \in DOMAIN heap : heap'[x] = heap[x]
            /\ elf_memory' = [elf_memory EXCEPT ![g] = NULL]
      BY <3>1, Gets
    <3>10. process[a].data # NULL
      BY <1>2, <1>3, <3>1 DEF LInv, Progress, Loading
    <3>11. /\ process'[a].data = process[a].data
           /\ \/ size = StackSize /\ process'[a].stack = g
              \/ process'[a].stack = process[a].stack
      <4>1. CASE size = StackSize /\ process' = [process EXCEPT ![a].stack = Given(size)]
        BY <1>0, <1>2, <1>3, <3>2, <4>1
      <4>2. CASE process' = [process EXCEPT ![a].task = Given(size)]
        BY <1>0, <1>2, <1>3, <4>2
      <4> QED  BY <3>1, <4>1, <4>2
    <3>3. process[a].data \in DOMAIN heap /\ process[a].data \in Address
      BY <1>0, <1>2, <1>3, <3>10, PartsAllocated DEF LInv, TypeOK, Types
    <3>4. Parts(a)'[3] = Parts(a)[3]
      BY <1>0, <1>4, <3>2, <3>3, <3>11
    <3>5. \A i \in 1 .. 5 : Parts(a)[i] # NULL => Parts(a)[i] \in DOMAIN heap
      BY <1>0, <1>2, <1>3, PartsAllocated DEF LInv
    <3>6. SizesOf(a, f)
      BY <1>3, <3>1 DEF Sizes
    <3>7. 3 \in 1 .. 5 /\ 4 \in 1 .. 5
      OBVIOUS
    <3>8. Parts(a)'[3] # NULL => heap'[Parts(a)'[3]] = NeededBlocks(f.size)
      BY <3>2, <3>4, <3>5, <3>6, <3>7 DEF SizesOf
    <3>9. Parts(a)'[4] # NULL => heap'[Parts(a)'[4]] = NeededBlocks(StackSize)
      <4>1. CASE size = StackSize /\ process'[a].stack = g
        BY <1>4, <3>2, <4>1
      <4>2. CASE process'[a].stack = process[a].stack
        BY <1>4, <3>2, <3>5, <3>6, <3>7, <4>2 DEF SizesOf
      <4> QED  BY <3>11, <4>1, <4>2
    <3> QED  BY <3>8, <3>9 DEF SizesOf
  <2> QED  BY <1>1, <2>1, <2>2, <2>3
<1>6. new'.address = a /\ new'.file = f
  BY <1>2, <1>3
<1> QED  BY <1>5, <1>6 DEF SizesOf

LEMMA SizesNext == LInv /\ LInv' /\ Sizes /\ Next => Sizes'
<1> SUFFICES ASSUME LInv, LInv', Sizes, Next PROVE Sizes'
  OBVIOUS
<1>1. ASSUME NEW s \in Slots, processes'[s] # NULL
      PROVE  SizesOf(processes[s], file[s])'
  <2>1. CASE Map /\ s = new.slot
    <3>1. PICK a, f : a = new.address /\ f = new.file /\ a \in Known
      BY <2>1, KnownAddresses DEF LInv, Map, Loading, Known
    <3>2. /\ processes'[s] = a /\ file'[s] = f /\ UNCHANGED <<heap, process, elf_memory>>
      BY <1>1, <2>1, <3>1 DEF Map, memory, LInv, Types, TypeOK
    <3>3. SizesOf(a, f)
      BY <2>1, <3>1 DEF Map, Sizes
    <3>4. SizesOf(a, f)'
      BY <3>2, <3>3 DEF SizesOf, Parts
    <3> QED  BY <3>2, <3>4 DEF SizesOf
  <2>2. CASE processes'[s] = processes[s] /\ file'[s] = file[s]
             /\ processes[s] \in Loaded /\ processes[s] \in Loaded'
    <3>1. PICK a, f : a \in Loaded /\ a = processes[s] /\ f = file[s] /\ a \in Loaded'
      BY <2>2
    <3>2. SizesOf(a, f)
      BY <1>1, <2>2, <3>1 DEF Sizes
    <3>3. SizesOf(a, f)'
      BY <3>1, <3>2, SizesStay
    <3>4. processes'[s] = a /\ file'[s] = f
      BY <2>2, <3>1
    <3> QED  BY <3>3, <3>4 DEF SizesOf
  <2> QED  BY <1>1, <2>1, <2>2, SlotsStay
<1>2. pc' \in {"stack", "task", "map"} => SizesOf(new.address, new.file)'
  BY NewSizes
<1>3. ASSUME pc' = "validate" PROVE heap'[elf_memory'[elf_file']] = NeededBlocks(new'.file.size)
  <2>1. ElfRead
    BY <1>3 DEF Next, Start, ElfOpen, ElfMissing, ElfUnreadable, ElfRead, OutOfMemoryInElf, ElfValid,
      ElfInvalid, BinaryOpen, BinaryFails, BinaryRead, Stack, NoStack, Task, TaskOfBinary, NoTask,
      Map, MapFails, CopyString, CopyBack, Fail, GoWild, Return, Exit, Malloc, FreeMemory
  <2>2. PICK size, g : size \in Nat \ {0} /\ size = new.file.size /\ g = Given(size)
    BY <2>1, Addresses DEF LInv, Types, Loading, ElfRead
  <2>3. g # NULL /\ heap' = With(size) /\ new' = new /\ elf_file' = elf_file
    BY <2>1, <2>2 DEF ElfRead, Obtained
  <2>4. heap'[g] = NeededBlocks(size)
    BY <2>2, <2>3, WithAgrees DEF LInv
  <2>5. elf_memory'[elf_file] = g
    <3>1. elf_file \in Address
      BY <2>1, Addresses DEF LInv, Types, ElfLocals, ElfRead
    <3> QED  BY <2>1, <2>2, <3>1 DEF ElfRead, LInv, Types, TypeOK
  <2> QED  BY <2>2, <2>3, <2>4, <2>5
<1> QED  BY <1>1, <1>2, <1>3 DEF Sizes

\* The entries of a directory, as long as a step leaves it and copy alone.
LEMMA MappingStays ==
  ASSUME LInv, Next, NEW a \in Loaded, NEW f
  PROVE  MapMemory(process[a], f)' = MapMemory(process[a], f)
<1>1. process'[a] = process[a] /\ elf_memory'[process[a].data] = elf_memory[process[a].data]
  BY PartsStay
<1> QED  BY <1>1 DEF MapMemory

\* What the invariant says of a process in the table is enough for MapMemoryIs.
LEMMA MappedMemory ==
  ASSUME LInv, NEW a \in Known, NEW f \in File, SizesOf(a, f),
         \A i \in {3, 4} : Parts(a)[i] # NULL
  PROVE  /\ elf_memory[process[a].data] \in DOMAIN heap /\ process[a].stack \in DOMAIN heap
         /\ elf_memory[process[a].data] \in Address /\ process[a].stack \in Address
         /\ heap[elf_memory[process[a].data]] = NeededBlocks(f.size)
         /\ heap[process[a].stack] = NeededBlocks(StackSize)
         /\ process[a].stack + StackSize <= (Blocks + 1) * PageSize
<1>0. Types /\ HeapOK(heap) /\ Sound(Held, heap) /\ f.size \in Nat \ {0} /\ StackSize \in Nat \ {0}
  BY Addresses DEF LInv, Types
<1>1. /\ Parts(a)[3] = elf_memory[process[a].data] /\ Parts(a)[4] = process[a].stack
      /\ 3 \in 1 .. 5 /\ 4 \in 1 .. 5
  BY PartsAre
<1>2. /\ elf_memory[process[a].data] \in DOMAIN heap /\ process[a].stack \in DOMAIN heap
  BY <1>0, <1>1, PartsAllocated
<1>3. heap[elf_memory[process[a].data]] = NeededBlocks(f.size) /\ heap[process[a].stack] = NeededBlocks(StackSize)
  BY <1>1 DEF SizesOf
<1> QED  BY <1>0, <1>2, <1>3, BlocksHold

\* What Map stores.
LEMMA MapStores ==
  ASSUME LInv, Sizes, Map
  PROVE  LET m == MapMemory(process[new.address], new.file)
         IN  m.ok /\ IsChunk(m.chunk) /\ new.file \in File
<1>1. pc = "map" /\ Loading /\ MapMemory(process[new.address], new.file).ok
  BY DEF Map, Loading
<1>2. PICK a \in Known, f \in File : a = new.address /\ f = new.file
  BY <1>1, KnownAddresses DEF LInv, Types
<1>3. SizesOf(a, f)
  BY <1>1, <1>2 DEF Sizes
<1>4. \A i \in {3, 4} : Parts(a)[i] # NULL
  BY <1>1, <1>2, PartsAre DEF LInv, Progress
<1>5. elf_memory[process[a].data] \in Address /\ process[a].stack \in Address
      /\ process[a].stack + StackSize <= (Blocks + 1) * PageSize
  BY <1>2, <1>3, <1>4, MappedMemory
<1> QED  BY <1>1, <1>2, <1>5, MapMemoryIs

LEMMA CopyingNext == LInv /\ Copying /\ Next => Copying'
<1> SUFFICES ASSUME LInv, Next, pc' = "copying" PROVE copy'.slot \in Slots /\ copy'.tmp \in Address
  BY DEF Copying
<1>1. PICK s \in Slots : CopyString(s)
  BY DEF Next, Start, ElfOpen, ElfMissing, ElfUnreadable, ElfRead, OutOfMemoryInElf, ElfValid,
      ElfInvalid, BinaryOpen, BinaryFails, BinaryRead, Stack, NoStack, Task, TaskOfBinary, NoTask,
      Map, MapFails, CopyBack, Fail, GoWild, Return, Exit, Malloc, FreeMemory
<1> QED  BY <1>1, Addresses, Obtains DEF CopyString

\* Which steps change a directory.
LEMMA DirectorySteps ==
  ASSUME LInv, Next, ~ Map, ~ CopyBack, ~ \E s \in Slots : Exit(s) \/ Malloc(s) \/ CopyString(s)
  PROVE  /\ directory' = directory /\ granted' = granted /\ copy' = copy
         /\ pc # "copying" /\ pc' # "copying"
BY DEF Next, Start, ElfOpen, ElfMissing, ElfUnreadable, ElfRead, OutOfMemoryInElf, ElfValid,
       ElfInvalid, BinaryOpen, BinaryFails, BinaryRead, Stack, NoStack, Task, TaskOfBinary, NoTask,
       MapFails, FreeMemory, Fail, GoWild, Return, loaded, malloced

LEMMA DomainNext == LInv /\ DOMAIN directory = Slots /\ Next => DOMAIN directory' = Slots
BY DirectorySteps DEF Map, Exit, Malloc, CopyString, CopyBack

\* What process_malloc does to a directory.
LEMMA MallocMaps ==
  ASSUME LInv, NEW s \in Slots, s \in DOMAIN directory, IsChunk(directory[s]), Malloc(s)
  PROVE  \E set \in SUBSET Block :
           /\ granted' = [granted EXCEPT ![s] = @ \cup set]
           /\ IsChunk(directory'[s])
           /\ \A b \in Nat : b % PageSize = 0 =>
                PagingGet(directory'[s], b) = Over(directory[s], set, b)
<1>0. PICK size \in Nat \ {0} :
        LET ptr == Given(size)
            up == AlignToUpperPage(ptr + size)
            to == MapTo(directory[s], ptr, ptr, up, UserFlags \cup {"write"})
        IN  /\ Obtained(size) /\ NoElfFile(size) /\ to.ok
            /\ directory' = [directory EXCEPT ![s] = to.chunk]
            /\ granted' = [granted EXCEPT ![s] = @ \cup Pages(ptr, up)]
  BY MallocGives
<1>1. PICK g, end, mapped, flags, c :
        /\ g = Given(size) /\ end = AlignToUpperPage(g + size)
        /\ flags = UserFlags \cup {"write"} /\ c = directory[s] /\ IsChunk(c)
        /\ mapped = MapTo(c, g, g, end, flags)
        /\ Obtained(size) /\ NoElfFile(size) /\ mapped.ok
        /\ directory' = [directory EXCEPT ![s] = mapped.chunk]
        /\ granted' = [granted EXCEPT ![s] = @ \cup Pages(g, end)]
  BY <1>0
<1>2. /\ g \in Address /\ g \in BlockAddress /\ g \in Nat /\ g % PageSize = 0
      /\ HeapOK(heap') /\ g \in DOMAIN heap' /\ heap'[g] = NeededBlocks(size)
  <2>1. g \in Address /\ heap'[g] = NeededBlocks(size)
    BY <1>1, Gets
  <2>2. HeapOK(heap') /\ g \in DOMAIN heap'
    BY <1>1, Obtains
  <2> QED  BY <2>1, <2>2, HeapEnds, Addresses
<1>3. PICK top \in Nat : top = (Blocks + 1) * PageSize /\ top % PageSize = 0 /\ top < AddressSpace
  BY HeapAssumption, MultipleIs, HeapBelow
<1>4. PICK e \in Nat : /\ e = AlignAddress(g + size) /\ e % PageSize = 0 /\ g <= e /\ e <= top
  <2>1. g + size \in Nat /\ g + size <= top
    BY <1>2, <1>3, BlocksHold
  <2> QED  BY <1>2, <1>3, <2>1, UpperPage, LeastUpper
<1>5. end = e /\ e < AddressSpace
  BY <1>1, <1>3, <1>4, WordIs, SpaceIs DEF AlignToUpperPage
<1>6. Pages(g, end) = BlocksAt(heap', g) /\ BlocksAt(heap', g) \subseteq Block
  BY <1>1, <1>2, <1>4, <1>5, AllocationPages DEF BlocksAt, HeapOK
<1>7. PICK after : after = mapped.chunk /\ directory'[s] = after
  BY <1>1
<1>8. IsChunk(after)
  BY <1>1, <1>2, <1>5, <1>7, MapToIs DEF Mapped
<1>9. ASSUME NEW b \in Nat, b % PageSize = 0
      PROVE  PagingGet(after, b) = Over(directory[s], Pages(g, end), b)
  <2>1. PagingGet(after, b) = IF g <= b /\ b < g + (e - g)
                              THEN [frame |-> g + (b - g), flags |-> flags]
                              ELSE PagingGet(c, b)
    <3>1. g + (e - g) <= AddressSpace
      BY <1>2, <1>4, <1>5, SpaceIs
    <3>2. MapTo(c, g, g, e, flags).ok /\ after = MapTo(c, g, g, e, flags).chunk /\ IsChunk(c)
      BY <1>1, <1>5, <1>7
    <3> QED  BY <1>2, <1>5, <1>9, <3>1, <3>2, MapToPages
  <2>2. g + (b - g) = b /\ g + (e - g) = e
    BY <1>2
  <2>3. (g <= b /\ b < e) <=> b \div PageSize \in Pages(g, end)
    BY <1>2, <1>4, <1>5, <1>9, PageBetween
  <2> QED  BY <1>1, <2>1, <2>2, <2>3 DEF Over, GrantedEntry
<1> QED  BY <1>1, <1>6, <1>7, <1>8, <1>9

\* What a slot was given changes when its program calls malloc or exits.
LEMMA GrantedNext == LInv /\ DOMAIN directory = Slots /\ Granted /\ Directories /\ Next => Granted'
<1> SUFFICES ASSUME LInv, DOMAIN directory = Slots, Granted, Directories, Next PROVE Granted'
  OBVIOUS
<1>0. /\ processes \in [Slots -> Pointer] /\ granted \in [Slots -> SUBSET Block]
      /\ \A s \in Slots : processes[s] = NULL => granted[s] = {}
  BY DEF LInv, Types, TypeOK, Granted
<1>1. ASSUME NEW s \in Slots, Malloc(s) PROVE Granted'
  <2>1. processes' = processes /\ processes[s] # NULL
    BY <1>1 DEF Malloc
  <2>2. PICK set \in SUBSET Block : granted' = [granted EXCEPT ![s] = @ \cup set]
    BY <1>1, <2>1, MallocMaps DEF Directories, DirectoryIs
  <2> QED  BY <1>0, <2>1, <2>2 DEF Granted
<1>2. ASSUME NEW s \in Slots, Exit(s) PROVE Granted'
  <2>1. /\ processes' = [processes EXCEPT ![s] = NULL] /\ granted' = [granted EXCEPT ![s] = {}]
    BY <1>2 DEF Exit
  <2> QED  BY <1>0, <2>1 DEF Granted
<1>3. CASE Map
  <2>1. processes' = [processes EXCEPT ![new.slot] = new.address] /\ granted' = granted
        /\ pc = "map"
    BY <1>3 DEF Map, malloced
  <2>2. processes[new.slot] = NULL
    BY <2>1 DEF LInv, Once, Loading
  <2> QED  BY <1>0, <2>1, <2>2 DEF Granted
<1>4. CASE CopyBack \/ \E s \in Slots : CopyString(s)
  <2>1. processes' = processes /\ granted' = granted
    BY <1>4 DEF CopyBack, CopyString, malloced
  <2> QED  BY <1>0, <2>1 DEF Granted
<1>5. CASE ~ Map /\ ~ CopyBack /\ ~ \E s \in Slots : Exit(s) \/ Malloc(s) \/ CopyString(s)
  <2>1. granted' = granted
    BY <1>5, DirectorySteps
  <2>3. processes' = processes
    BY <1>5, TableStays
  <2> QED  BY <1>0, <2>1, <2>3 DEF Granted
<1> QED  BY <1>1, <1>2, <1>3, <1>4, <1>5

\* The entries of a program that stays.
LEMMA EntriesStay ==
  ASSUME MInv, Next, NEW s \in Slots, processes[s] # NULL, processes'[s] = processes[s],
         ~ (Map /\ s = new.slot), ~ Malloc(s)
  PROVE  /\ IsChunk(directory'[s]) /\ granted'[s] = granted[s]
         /\ \A b \in Nat : b % PageSize = 0 => Entry(s, b)' = Entry(s, b)
<1>0. /\ LInv /\ DOMAIN directory = Slots /\ DOMAIN granted = Slots
      /\ Copying /\ IsChunk(directory[s])
      /\ \A x \in Address : x \in Nat /\ x % PageSize = 0
  BY HeapEnds DEF MInv, Directories, DirectoryIs, Granted
<1>1. CASE ~ Map /\ ~ CopyBack /\ ~ \E t \in Slots : Exit(t) \/ Malloc(t) \/ CopyString(t)
  BY <1>0, <1>1, DirectorySteps DEF Entry
<1>2. CASE Map
  <2>1. directory'[s] = directory[s] /\ granted' = granted /\ pc # "copying" /\ pc' # "copying"
    BY <1>0, <1>2 DEF Map, Return, malloced
  <2> QED  BY <1>0, <2>1 DEF Entry
<1>3. ASSUME NEW t \in Slots, Exit(t) \/ Malloc(t)
      PROVE  /\ IsChunk(directory'[s]) /\ granted'[s] = granted[s]
             /\ \A b \in Nat : b % PageSize = 0 => Entry(s, b)' = Entry(s, b)
  <2>1. s # t
    BY <1>0, <1>3 DEF Exit, LInv, Types, TypeOK
  <2>2. directory'[s] = directory[s] /\ granted'[s] = granted[s] /\ pc # "copying" /\ pc' # "copying"
    BY <1>0, <1>3, <2>1 DEF Exit, Malloc
  <2> QED  BY <1>0, <2>2 DEF Entry
<1>4. ASSUME NEW t \in Slots, CopyString(t)
      PROVE  /\ IsChunk(directory'[s]) /\ granted'[s] = granted[s]
             /\ \A b \in Nat : b % PageSize = 0 => Entry(s, b)' = Entry(s, b)
  <2>1. PICK tmp, entry :
          /\ tmp \in Address
          /\ directory' = [directory EXCEPT ![t] = PagingSet(directory[t], tmp, entry)]
          /\ copy' = [slot |-> t, tmp |-> tmp, old |-> PagingGet(directory[t], tmp)]
          /\ pc # "copying" /\ pc' = "copying" /\ granted' = granted
    <3>1. Given(Struct) \in Address
      BY <1>0, <1>4, Addresses, Obtains DEF CopyString
    <3> QED  BY <1>4, <3>1 DEF CopyString, malloced
  <2>2. CASE s # t
    <3>1. directory'[s] = directory[s] /\ copy'.slot # s
      BY <1>0, <2>1, <2>2
    <3> QED  BY <1>0, <2>1, <3>1 DEF Entry
  <2>3. CASE s = t
    <3>1. PICK c, after : c = directory[s] /\ after = PagingSet(c, tmp, entry)
      OBVIOUS
    <3>2. directory'[s] = after /\ copy'.slot = s /\ copy'.tmp = tmp /\ copy'.old = PagingGet(c, tmp)
      BY <1>0, <2>1, <2>3, <3>1
    <3>3. /\ IsChunk(after)
          /\ \A b \in Nat : b % PageSize = 0 /\ b # tmp => PagingGet(after, b) = PagingGet(c, b)
      BY <1>0, <2>1, <3>1, GetAfterSet
    <3> QED  BY <2>1, <3>1, <3>2, <3>3 DEF Entry
  <2> QED  BY <2>2, <2>3
<1>5. CASE CopyBack
  <2>1. PICK t, tmp, old :
          /\ t \in Slots /\ tmp \in Address
          /\ t = copy.slot /\ tmp = copy.tmp /\ old = copy.old
          /\ directory' = [directory EXCEPT ![t] = PagingSet(directory[t], tmp, old)]
          /\ pc = "copying" /\ pc' # "copying" /\ granted' = granted
    BY <1>0, <1>5 DEF CopyBack, Copying, malloced
  <2>2. CASE s # t
    <3>1. directory'[s] = directory[s] /\ copy.slot # s
      BY <1>0, <2>1, <2>2
    <3> QED  BY <1>0, <2>1, <3>1 DEF Entry
  <2>3. CASE s = t
    <3>1. PICK c, after : c = directory[s] /\ after = PagingSet(c, tmp, old)
      OBVIOUS
    <3>2. directory'[s] = after
      BY <1>0, <2>1, <2>3, <3>1
    <3>3. /\ IsChunk(after) /\ PagingGet(after, tmp) = old
          /\ \A b \in Nat : b % PageSize = 0 /\ b # tmp => PagingGet(after, b) = PagingGet(c, b)
      BY <1>0, <2>1, <3>1, GetAfterSet
    <3> QED  BY <2>1, <2>3, <3>1, <3>2, <3>3 DEF Entry
  <2> QED  BY <2>2, <2>3
<1> QED  BY <1>1, <1>2, <1>3, <1>4, <1>5

LEMMA DirectoriesNext == MInv /\ Next => Directories'
<1> SUFFICES ASSUME MInv, Next, NEW s \in Slots, processes'[s] # NULL
             PROVE  file'[s] \in File /\ DirectoryIs(s)'
  BY DEF Directories
<1>0. /\ LInv /\ DOMAIN directory = Slots /\ Sizes /\ granted \in [Slots -> SUBSET Block]
      /\ processes \in [Slots -> Pointer] /\ DOMAIN file = Slots
  BY DEF MInv, LInv, Types, TypeOK, Granted
<1>1. CASE Map /\ s = new.slot
  <2>1. PICK a, f, m : a = new.address /\ f = new.file /\ m = MapMemory(process[a], f)
    OBVIOUS
  <2>2. /\ processes'[s] = a /\ file'[s] = f /\ directory'[s] = m.chunk /\ pc' # "copying"
        /\ granted' = granted /\ UNCHANGED <<process, elf_memory>>
    BY <1>0, <1>1, <2>1 DEF Map, Return, memory, malloced
  <2>3. m.ok /\ IsChunk(m.chunk) /\ f \in File
    BY <1>0, <1>1, <2>1, MapStores
  <2>4. MapMemory(process[processes[s]], file[s])' = m
    BY <2>1, <2>2 DEF MapMemory
  <2>5. granted[s] = {}
    <3>1. processes[s] = NULL
      BY <1>0, <1>1 DEF Map, LInv, Once, Loading
    <3> QED  BY <3>1 DEF MInv, Granted
  <2> QED  BY <2>2, <2>3, <2>4, <2>5 DEF DirectoryIs, Entry, Over
<1>2. CASE ~ (Map /\ s = new.slot)
  <2>1. PICK a, f : a \in Loaded /\ a = processes[s] /\ a = processes'[s] /\ f = file[s] /\ f = file'[s]
    BY <1>0, <1>2, SlotsStay
  <2>2. processes[s] # NULL /\ processes'[s] = processes[s]
    BY <2>1 DEF Loaded
  <2>3. PICK m : m = MapMemory(process[a], f) /\ MapMemory(process[a], f)' = m
    BY <1>0, <2>1, MappingStays
  <2>4. /\ f \in File /\ m.ok
        /\ \A b \in Nat : b % PageSize = 0 => Entry(s, b) = Over(m.chunk, granted[s], b)
    BY <2>1, <2>2, <2>3 DEF MInv, Directories, DirectoryIs
  <2>5. /\ IsChunk(directory'[s])
        /\ \A b \in Nat : b % PageSize = 0 => Entry(s, b)' = Over(m.chunk, granted'[s], b)
    <3>1. CASE ~ Malloc(s)
      BY <1>2, <2>2, <2>4, <3>1, EntriesStay
    <3>2. CASE Malloc(s)
      <4>1. IsChunk(directory[s])
        BY <2>2 DEF MInv, Directories, DirectoryIs
      <4>2. PICK set \in SUBSET Block :
              /\ granted' = [granted EXCEPT ![s] = @ \cup set] /\ IsChunk(directory'[s])
              /\ \A b \in Nat : b % PageSize = 0 =>
                   PagingGet(directory'[s], b) = Over(directory[s], set, b)
        BY <1>0, <3>2, <4>1, MallocMaps
      <4>3. granted'[s] = granted[s] \cup set
        BY <1>0, <4>2
      <4>4. \A b : Entry(s, b)' = PagingGet(directory'[s], b) /\ Entry(s, b) = PagingGet(directory[s], b)
        BY <3>2 DEF Malloc, Entry
      <4> QED  BY <2>4, <4>2, <4>3, <4>4 DEF Over
    <3> QED  BY <3>1, <3>2
  <2>6. MapMemory(process[processes[s]], file[s])' = m
    BY <2>1, <2>3 DEF MapMemory
  <2>7. DirectoryIs(s)'
    BY <2>4, <2>5, <2>6 DEF DirectoryIs
  <2> QED  BY <2>1, <2>4, <2>7
<1> QED  BY <1>1, <1>2

\* No program is loaded in the beginning.
LEMMA MInvStart == Init => MInv
<1> SUFFICES ASSUME Init PROVE MInv
  OBVIOUS
<1>1. LInv /\ Kept
  BY InitHolds, KeptFirst
<1>2. \A s \in Slots : processes[s] = NULL
  BY DEF Init
<1>3. pc = "idle" /\ DOMAIN directory = Slots /\ Granted
  BY DEF Init, Granted
<1> QED  BY <1>1, <1>2, <1>3 DEF MInv, Sizes, Copying, Directories

\* Every step keeps the invariant.
LEMMA MInvNext == MInv /\ [Next]_vars => MInv'
<1>1. ASSUME MInv, Next PROVE MInv'
  <2>1. LInv /\ LInv' /\ Kept'
    BY <1>1, NextHolds, KeptNext DEF MInv
  <2> QED
    BY <1>1, <2>1, SizesNext, CopyingNext, DomainNext, GrantedNext, DirectoriesNext DEF MInv
<1>2. ASSUME MInv, UNCHANGED vars PROVE MInv'
  <2>1. LInv' /\ Kept'
    BY <1>2, NextHolds, KeptHolds DEF MInv
  <2>2. /\ UNCHANGED <<heap, process, elf_memory, processes, file, directory, pc, new, elf_file, copy>>
        /\ granted' = granted
    BY <1>2 DEF vars, memory, loaded, malloced
  <2>3. Sizes'
    BY <1>2, <2>2 DEF MInv, Sizes, SizesOf, Parts
  <2>4. Copying' /\ DOMAIN directory' = Slots /\ Granted'
    BY <1>2, <2>2 DEF MInv, Copying, Granted
  <2>5. Directories'
    <3>1. \A s : DirectoryIs(s)' = DirectoryIs(s)
      BY <2>2 DEF DirectoryIs, Entry, Over, MapMemory
    <3> QED  BY <1>2, <2>2, <3>1 DEF MInv, Directories
  <2> QED  BY <2>1, <2>3, <2>4, <2>5 DEF MInv
<1> QED  BY <1>1, <1>2

LEMMA MInvariant == Spec => []MInv
BY MInvStart, MInvNext, PTL DEF Spec

\* The pages of the stack, and what they lead to.
StackPage(b) == StackEnd <= b /\ b < StackEnd + StackSize

StackEntry(stack, b) == [frame |-> stack + (b - StackEnd), flags |-> UserFlags \cup {"write"}]

\* What the invariant says of a loaded program.
LEMMA ProgramFacts ==
  ASSUME MInv, NEW s \in Slots, processes[s] # NULL
  PROVE  LET a == processes[s]
             m == MapElf(NewDirectory, Memory(s), file[s])
         IN  /\ file[s] \in File /\ HeapOK(heap)
             /\ Memory(s) \in DOMAIN heap /\ Memory(s) \in Address
             /\ process[a].stack \in DOMAIN heap /\ process[a].stack \in Address
             /\ heap[Memory(s)] = NeededBlocks(file[s].size)
             /\ heap[process[a].stack] = NeededBlocks(StackSize)
             /\ LeadsInto(Memory(s), file[s], Len(file[s].phdrs), m.chunk)
             /\ AllInPlace(file[s]) =>
                  LastDecides(Memory(s), file[s], Len(file[s].phdrs), m.chunk)
             /\ granted[s] \subseteq Block
             /\ \A b \in Nat : b % PageSize = 0 =>
                  Entry(s, b) = IF b \div PageSize \in granted[s] THEN GrantedEntry(b)
                                ELSE IF StackPage(b) THEN StackEntry(process[a].stack, b)
                                ELSE PagingGet(m.chunk, b)
<1>1. PICK a, f, base, m, all :
        /\ a \in Loaded /\ f \in File
        /\ a = processes[s] /\ f = file[s] /\ base = Memory(s)
        /\ m = MapElf(NewDirectory, base, f) /\ all = MapMemory(process[a], f)
  BY DEF MInv, Directories, Loaded
<1>2. /\ LInv /\ HeapOK(heap) /\ a \in Known /\ SizesOf(a, f)
      /\ all.ok /\ granted[s] \subseteq Block
      /\ \A b \in Nat : b % PageSize = 0 => Entry(s, b) = Over(all.chunk, granted[s], b)
  BY <1>1 DEF MInv, LInv, Types, Known, Sizes, Granted, Directories, DirectoryIs
<1>3. \A i \in {3, 4} : Parts(a)[i] # NULL
  BY <1>1, <1>2 DEF LInv, Complete
<1>4. base = elf_memory[process[a].data]
  BY <1>1 DEF Memory
<1>5. /\ base \in DOMAIN heap /\ process[a].stack \in DOMAIN heap
      /\ base \in Address /\ process[a].stack \in Address
      /\ heap[base] = NeededBlocks(f.size)
      /\ heap[process[a].stack] = NeededBlocks(StackSize)
      /\ process[a].stack + StackSize <= (Blocks + 1) * PageSize
  BY <1>1, <1>2, <1>3, <1>4, MappedMemory
<1>6. /\ m.ok
      /\ \A b \in Nat : b % PageSize = 0 =>
           PagingGet(all.chunk, b) =
             IF StackEnd <= b /\ b < AlignAddress(StackEnd + StackSize)
             THEN StackEntry(process[a].stack, b) ELSE PagingGet(m.chunk, b)
  BY <1>1, <1>2, <1>4, <1>5, MapMemoryIs DEF StackEntry
<1>7. MappedSoFar(base, f, Len(f.phdrs), m)
  BY <1>1, <1>5, MapElfIs
<1>8. StackEnd + StackSize \in Nat
  BY LoadAssumption
<1>9. ASSUME NEW b \in Nat, b % PageSize = 0
      PROVE  (StackEnd <= b /\ b < AlignAddress(StackEnd + StackSize)) <=> StackPage(b)
  <2>1. PICK x \in Nat, y \in Nat : x = StackEnd + StackSize /\ y = AlignAddress(x)
    BY <1>8, UpperPage
  <2>2. x <= b <=> y <= b
    BY <1>9, <2>1, LeastUpper
  <2> QED  BY <2>1, <2>2 DEF StackPage
<1>10. \A b \in Nat : b % PageSize = 0 =>
         Entry(s, b) = IF b \div PageSize \in granted[s] THEN GrantedEntry(b)
                       ELSE IF StackPage(b) THEN StackEntry(process[a].stack, b)
                       ELSE PagingGet(m.chunk, b)
  BY <1>2, <1>6, <1>9 DEF Over
<1>11. /\ LeadsInto(base, f, Len(f.phdrs), m.chunk)
       /\ AllInPlace(f) => LastDecides(base, f, Len(f.phdrs), m.chunk)
  BY <1>6, <1>7 DEF MappedSoFar
<1> QED  BY <1>1, <1>2, <1>5, <1>10, <1>11

\* What a linked file's headers are like.
LEMMA WhenLinked ==
  ASSUME NEW f \in File, IsLinked(f), NEW i \in 1 .. Len(f.phdrs)
  PROVE  LET h == f.phdrs[i]
         IN  /\ h \in ProgramHeader /\ InPlace(h)
             /\ Apart(h, StackEnd, StackEnd + StackSize)
             /\ Apart(h, PageSize, (Blocks + 1) * PageSize)
             /\ h.type = PT_LOAD => h.vaddr > 0 /\ h.memsz > 0 /\ h.filesz <= h.memsz
             /\ \A j \in 1 .. Len(f.phdrs) :
                  LET g == f.phdrs[j]
                  IN  \/ g.vaddr - g.offset = h.vaddr - h.offset
                      \/ Apart(h, FirstPage(g), EndPage(g))
<1>1. PICK h \in ProgramHeader : h = f.phdrs[i] /\ h \in Range(f.phdrs)
  BY HeadersAre
<1>2. \A j \in 1 .. Len(f.phdrs) : f.phdrs[j] \in Range(f.phdrs)
  BY HeadersAre
<1>3. InPlace(h)
  BY <1>1 DEF IsLinked, InPlace
<1> QED  BY <1>1, <1>2, <1>3 DEF IsLinked

\* The last header that covers a page decides what it leads to.
LEMMA LinkedEntry ==
  ASSUME MInv, NEW s \in Slots, processes[s] # NULL, IsLinked(file[s]),
         NEW i \in 1 .. Len(file[s].phdrs), NEW b \in Nat, b % PageSize = 0,
         Covers(file[s].phdrs[i], b),
         \A j \in i + 1 .. Len(file[s].phdrs) : ~ Covers(file[s].phdrs[j], b)
  PROVE  Entry(s, b) = HeaderEntry(Memory(s), file[s].phdrs[i], b)
<1>1. PICK f \in File, h \in ProgramHeader : f = file[s] /\ h = f.phdrs[i]
  BY ProgramFacts, HeadersAre
<1>2. /\ InPlace(h) /\ Apart(h, StackEnd, StackEnd + StackSize) /\ Covers(h, b)
      /\ AllInPlace(f)
  BY <1>1, WhenLinked DEF AllInPlace
<1>3. b \in FirstPage(h) .. EndPage(h) - 1
  BY <1>2, PageCovers
<1>4. FirstPage(h) \in Nat /\ EndPage(h) \in Nat
  <2>1. PICK v \in Nat, z \in Nat : v = h.vaddr /\ z = h.memsz
    BY HeaderIs
  <2>2. v + z \in Nat
    OBVIOUS
  <2> QED  BY <2>1, <2>2, LowerPage, UpperPage DEF FirstPage, EndPage
<1>5. ~ StackPage(b)
  BY <1>2, <1>3, <1>4, LoadAssumption DEF Apart, StackPage
<1>8. b \div PageSize \notin granted[s]
  <2> SUFFICES ASSUME b \div PageSize \in Block PROVE FALSE
    BY ProgramFacts
  <2>1. PICK top \in Nat : top = (Blocks + 1) * PageSize
    BY HeapAssumption, SpaceIs
  <2>2. PageSize <= b /\ b < top
    BY <2>1, HeapPage
  <2>3. Apart(h, PageSize, top)
    BY <1>1, <2>1, WhenLinked
  <2> QED  BY <1>3, <1>4, <2>2, <2>3, SpaceIs DEF Apart
<1>6. PICK m : /\ LastDecides(Memory(s), f, Len(f.phdrs), m.chunk)
               /\ Entry(s, b) = PagingGet(m.chunk, b)
  BY <1>1, <1>2, <1>5, <1>8, ProgramFacts
<1>7. PagingGet(m.chunk, b) = HeaderEntry(Memory(s), f.phdrs[i], b)
  BY <1>1, <1>6 DEF LastDecides
<1> QED  BY <1>1, <1>6, <1>7

\* The page of an address.
LEMMA OfAddress ==
  ASSUME NEW a \in Nat
  PROVE  LET b == AlignToLowerPage(a)
         IN  /\ b \in Nat /\ b % PageSize = 0 /\ b <= a
             /\ AlignToLowerPage(b) = b
             /\ \A h : Covers(h, a) <=> Covers(h, b)
<1>1. PICK b \in Nat : b = AlignToLowerPage(a) /\ b % PageSize = 0 /\ b <= a
  BY LowerPage
<1>2. AlignToLowerPage(b) = b
  BY <1>1, SpaceIs DEF AlignToLowerPage
<1> QED  BY <1>1, <1>2 DEF Covers

\* A segment's addresses are in pages that its header covers.
LEMMA SegmentCovers ==
  ASSUME NEW h \in ProgramHeader, NEW a \in h.vaddr .. h.vaddr + h.memsz - 1
  PROVE  a \in Nat /\ Covers(h, AlignToLowerPage(a))
<1>1. PICK v \in Nat, z \in Nat : v = h.vaddr /\ z = h.memsz
  BY HeaderIs
<1>2. a \in Nat /\ v <= a /\ a < v + z
  BY <1>1
<1>3. PICK b \in Nat : b = AlignToLowerPage(a) /\ b % PageSize = 0 /\ b <= a
  BY <1>2, LowerPage
<1>4. FirstPage(h) <= b /\ FirstPage(h) \in Nat
  BY <1>1, <1>2, <1>3, PageOrder, LowerPage DEF FirstPage
<1>5. v + z <= EndPage(h) /\ EndPage(h) \in Nat
  <2>1. v + z \in Nat /\ EndPage(h) = AlignAddress(v + z)
    BY <1>1 DEF EndPage
  <2> QED  BY <2>1, UpperPage
<1>6. b \in FirstPage(h) .. EndPage(h) - 1
  BY <1>2, <1>3, <1>4, <1>5
<1> QED  BY <1>2, <1>3, <1>6, PageCovers

\* Where a program has its stack, the kernel has no heap.
LEMMA NotTheHeap ==
  ASSUME NEW b \in Nat, b % PageSize = 0, StackPage(b)
  PROVE  b \div PageSize \notin Block
<1> SUFFICES ASSUME b \div PageSize \in Block PROVE FALSE
  OBVIOUS
<1>1. PICK top \in Nat : top = (Blocks + 1) * PageSize
  BY HeapAssumption, SpaceIs
<1>2. PageSize <= b /\ b < top
  BY <1>1, HeapPage
<1>3. PICK x \in Nat, e \in Nat : x = StackEnd + StackSize /\ e = AlignAddress(x) /\ x <= e
  <2>1. StackEnd + StackSize \in Nat
    BY LoadAssumption
  <2> QED  BY <2>1, UpperPage
<1>4. StackEnd <= b /\ b < x /\ StackEnd \in Nat /\ (e <= PageSize \/ top <= StackEnd)
  BY <1>1, <1>3, LoadAssumption DEF StackPage
<1> QED  BY <1>2, <1>3, <1>4, SpaceIs

\* The invariant says what a program finds at its addresses.
LEMMA ProgramMapped == MInv => ProgramIsMapped
<1> SUFFICES ASSUME MInv, pc # "copying", NEW s \in Slots, processes[s] # NULL
             PROVE  /\ IsLinked(file[s]) =>
                         \A i \in DOMAIN file[s].phdrs : \A a \in SegmentAddresses(file[s], i) :
                           LET h == file[s].phdrs[i]
                           IN /\ PhysicalAddress(directory[s], a) = Memory(s) + h.offset + (a - h.vaddr)
                              /\ LET flags == PagingGet(directory[s], AlignToLowerPage(a)).flags
                                 IN "user" \in flags /\ ("write" \in flags <=> PF_W \in h.flags)
                    /\ \A k \in 0 .. StackSize - 1 :
                         /\ PhysicalAddress(directory[s], StackEnd + k) = process[processes[s]].stack + k
                         /\ "write" \in PagingGet(directory[s], AlignToLowerPage(StackEnd + k)).flags
  BY DEF ProgramIsMapped
<1>1. \A b : Entry(s, b) = PagingGet(directory[s], b)
  BY DEF Entry
<1>2. PICK f \in File, base \in Address, stack \in Address :
        f = file[s] /\ base = Memory(s) /\ stack = process[processes[s]].stack
  BY ProgramFacts
<1>21. base \in Nat /\ stack \in Nat
  BY HeapEnds
<1>3. ASSUME IsLinked(f), NEW i \in 1 .. Len(f.phdrs), NEW a \in SegmentAddresses(f, i)
      PROVE  LET h == f.phdrs[i]
             IN /\ PhysicalAddress(directory[s], a) = base + h.offset + (a - h.vaddr)
                /\ LET flags == PagingGet(directory[s], AlignToLowerPage(a)).flags
                   IN "user" \in flags /\ ("write" \in flags <=> PF_W \in h.flags)
  <2>1. PICK h \in ProgramHeader : h = f.phdrs[i]
    BY HeadersAre
  <2>2. a \in h.vaddr .. h.vaddr + h.memsz - 1 /\ ~ \E j \in i + 1 .. Len(f.phdrs) : Covers(f.phdrs[j], a)
    BY <1>3, <2>1 DEF SegmentAddresses
  <2>3. a \in Nat /\ Covers(h, AlignToLowerPage(a))
    BY <2>2, SegmentCovers
  <2>4. PICK b \in Nat : /\ b = AlignToLowerPage(a) /\ b % PageSize = 0 /\ b <= a
                         /\ \A g : Covers(g, a) <=> Covers(g, b)
    BY <2>3, OfAddress
  <2>5. Entry(s, b) = HeaderEntry(base, h, b)
    BY <1>2, <1>3, <2>1, <2>2, <2>3, <2>4, LinkedEntry
  <2>6. PICK v \in Nat, o \in Nat : v = h.vaddr /\ o = h.offset
    BY HeaderIs
  <2>7. PagingGet(directory[s], b) = [frame |-> base + o + (b - v), flags |-> HeaderFlags(h)]
    BY <1>1, <2>5, <2>6 DEF HeaderEntry
  <2>8. PhysicalAddress(directory[s], a) = base + o + (a - v)
    <3>1. PhysicalAddress(directory[s], a) = (base + o + (b - v)) + (a - b)
      BY <2>4, <2>7 DEF PhysicalAddress
    <3>2. (base + o + (b - v)) + (a - b) = base + o + (a - v)
      BY <1>21, <2>3, <2>4, <2>6
    <3> QED  BY <3>1, <3>2
  <2>9. "user" \in HeaderFlags(h) /\ ("write" \in HeaderFlags(h) <=> PF_W \in h.flags)
    BY DEF HeaderFlags, UserFlags
  <2>10. PagingGet(directory[s], AlignToLowerPage(a)).flags = HeaderFlags(h)
    BY <2>4, <2>7
  <2> QED  BY <2>1, <2>6, <2>8, <2>9, <2>10
<1>4. ASSUME NEW k \in 0 .. StackSize - 1
      PROVE  /\ PhysicalAddress(directory[s], StackEnd + k) = stack + k
             /\ "write" \in PagingGet(directory[s], AlignToLowerPage(StackEnd + k)).flags
  <2>1. PICK a \in Nat : a = StackEnd + k /\ StackEnd <= a /\ a < StackEnd + StackSize
    BY LoadAssumption
  <2>2. PICK b \in Nat : b = AlignToLowerPage(a) /\ b % PageSize = 0 /\ b <= a
    BY LowerPage
  <2>3. StackEnd <= b
    BY <2>1, <2>2, PageOrder, LoadAssumption DEF Aligned
  <2>4. StackPage(b)
    BY <2>1, <2>2, <2>3, LoadAssumption DEF StackPage
  <2>9. b \div PageSize \notin granted[s]
    BY <2>2, <2>4, NotTheHeap, ProgramFacts
  <2>5. PagingGet(directory[s], b) = StackEntry(stack, b)
    BY <1>1, <1>2, <2>2, <2>4, <2>9, ProgramFacts
  <2>6. PhysicalAddress(directory[s], a) = (stack + (b - StackEnd)) + (a - b)
    BY <2>2, <2>5 DEF PhysicalAddress, StackEntry
  <2>7. PhysicalAddress(directory[s], a) = stack + k
    BY <1>21, <2>1, <2>2, <2>6, LoadAssumption
  <2>8. "write" \in PagingGet(directory[s], b).flags
    BY <2>5 DEF StackEntry
  <2> QED  BY <2>1, <2>2, <2>7, <2>8
<1>5. DOMAIN f.phdrs = 1 .. Len(f.phdrs)
  BY HeadersAre
<1> QED  BY <1>2, <1>3, <1>4, <1>5

\* The invariant says where the writable pages lead.
LEMMA WritesHome == MInv => WritesStayHome
<1> SUFFICES ASSUME MInv, pc # "copying", NEW s \in Slots, processes[s] # NULL,
                    IsContained(file[s]), NEW d \in 0 .. Entries - 1, NEW t \in 0 .. Entries - 1,
                    "write" \in PagingGet(directory[s], (d * Entries + t) * PageSize).flags
             PROVE  PagingGet(directory[s], (d * Entries + t) * PageSize).frame \div PageSize \in
                      BlocksAt(heap, Memory(s)) \cup BlocksAt(heap, process[processes[s]].stack)
                      \cup granted[s] \cup Behind(s)
  BY DEF WritesStayHome
<1>1. PICK b \in Nat : b = (d * Entries + t) * PageSize /\ b % PageSize = 0
  <2>1. d * Entries + t \in Nat
    BY PagingAssumption
  <2> QED  BY <2>1, MultipleIs
<1>2. PICK entry : entry = PagingGet(directory[s], b) /\ entry = Entry(s, b) /\ "write" \in entry.flags
  BY <1>1 DEF Entry
<1>3. PICK f, base, stack, chunk :
        /\ f \in File /\ base \in Address /\ stack \in Address
        /\ f = file[s] /\ base = Memory(s) /\ stack = process[processes[s]].stack
        /\ base \in DOMAIN heap /\ stack \in DOMAIN heap /\ HeapOK(heap)
        /\ heap[base] = NeededBlocks(f.size) /\ heap[stack] = NeededBlocks(StackSize)
        /\ LeadsInto(base, f, Len(f.phdrs), chunk)
        /\ entry = IF b \div PageSize \in granted[s] THEN GrantedEntry(b)
                   ELSE IF StackPage(b) THEN StackEntry(stack, b) ELSE PagingGet(chunk, b)
  BY <1>1, <1>2, ProgramFacts
<1>6. CASE b \div PageSize \in granted[s]
  <2>1. entry.frame = b
    BY <1>3, <1>6 DEF GrantedEntry
  <2> QED  BY <1>1, <1>2, <1>6, <2>1
<1>4. CASE b \div PageSize \notin granted[s] /\ StackPage(b)
  <2>0. stack \in Nat
    BY <1>3, HeapEnds
  <2>1. PICK fr \in Nat : fr = stack + (b - StackEnd) /\ stack <= fr /\ fr < stack + StackSize
    BY <1>4, <2>0, LoadAssumption DEF StackPage
  <2>2. entry.frame = fr
    BY <1>3, <1>4, <2>1 DEF StackEntry
  <2>3. fr \div PageSize \in BlocksAt(heap, stack)
    BY <1>3, <2>1, BlocksHold, LoadAssumption
  <2> QED  BY <1>1, <1>2, <1>3, <2>2, <2>3
<1>5. CASE b \div PageSize \notin granted[s] /\ ~ StackPage(b)
  <2>1. entry # [frame |-> b, flags |-> UserFlags]
    BY <1>2 DEF UserFlags
  <2>2. PICK i \in 1 .. Len(f.phdrs) : Leads(base, f.phdrs[i], entry)
    BY <1>1, <1>3, <1>5, <2>1 DEF LeadsInto
  <2>3. PICK g \in ProgramHeader : g = f.phdrs[i] /\ g \in Range(f.phdrs)
    BY <1>3, HeadersAre
  <2>4. g.offset + g.filesz <= f.size
    BY <1>3, <2>3 DEF IsContained
  <2>5. \/ entry.frame \div PageSize \in BlocksAt(heap, base)
        \/ /\ g.memsz > 0
           /\ entry.frame \div PageSize \in
                (base + g.offset) \div PageSize .. (base + g.offset + g.memsz - 1) \div PageSize
    BY <1>3, <2>2, <2>3, <2>4, LeadsHome
  <2>6. CASE /\ g.memsz > 0
             /\ entry.frame \div PageSize \in
                  (base + g.offset) \div PageSize .. (base + g.offset + g.memsz - 1) \div PageSize
    BY <1>1, <1>2, <1>3, <2>3, <2>6 DEF Behind
  <2> QED  BY <1>1, <1>2, <1>3, <2>5, <2>6
<1> QED  BY <1>4, <1>5, <1>6

LEMMA SameDistance ==
  ASSUME NEW p \in Nat, NEW q \in Nat, NEW b \in Nat, NEW w \in Nat, NEW v \in Nat, NEW o \in Nat,
         w - q = v - o
  PROVE  (p + q + (b - w)) + (v - b) = p + o
OBVIOUS

\* The first address of a segment.
LEMMA SegmentBegins ==
  ASSUME MInv, NEW s \in Slots, processes[s] # NULL, IsLinked(file[s]),
         NEW i \in 1 .. Len(file[s].phdrs), IsSegment(file[s], i)
  PROVE  PhysicalAddress(directory[s], file[s].phdrs[i].vaddr) = Memory(s) + file[s].phdrs[i].offset
<1>1. PICK f \in File, base \in Address : f = file[s] /\ base = Memory(s)
  BY ProgramFacts
<1>2. PICK h \in ProgramHeader, total \in Nat : h = f.phdrs[i] /\ total = Len(f.phdrs)
  BY <1>1, HeadersAre
<1>3. PICK v \in Nat, o \in Nat, z \in Nat : v = h.vaddr /\ o = h.offset /\ z = h.memsz
  BY HeaderIs
<1>4. z > 0 /\ Apart(h, PageSize, (Blocks + 1) * PageSize)
  BY <1>1, <1>2, <1>3, WhenLinked DEF IsSegment
<1>5. Covers(h, AlignToLowerPage(v))
  BY <1>3, <1>4, SegmentCovers
<1>6. PICK b \in Nat : b = AlignToLowerPage(v) /\ b % PageSize = 0 /\ b <= v
  BY LowerPage
<1>7. FirstPage(h) = b /\ b < EndPage(h) /\ EndPage(h) \in Nat
  <2>1. b \in FirstPage(h) .. EndPage(h) - 1
    BY <1>5, <1>6, PageCovers
  <2>2. v + z \in Nat
    BY <1>3
  <2> QED  BY <1>3, <1>6, <2>1, <2>2, UpperPage DEF FirstPage, EndPage
<1>8. Entry(s, b) = PagingGet(directory[s], b)
  <2> SUFFICES ASSUME pc = "copying", b = copy.tmp PROVE FALSE
    BY DEF Entry
  <2>1. PageSize <= b /\ b <= Blocks * PageSize /\ Blocks * PageSize \in Nat
    BY HeapEnds DEF MInv, Copying
  <2>2. (Blocks + 1) * PageSize = Blocks * PageSize + PageSize
    BY HeapAssumption, SpaceIs
  <2> QED  BY <1>4, <1>7, <2>1, <2>2, SpaceIs DEF Apart
<1>9. PICK j \in 1 .. total : Covers(f.phdrs[j], b) /\ \A k \in j + 1 .. total : ~ Covers(f.phdrs[k], b)
  <2> DEFINE later == {total - k : k \in {l \in 1 .. total : Covers(f.phdrs[l], b)}}
  <2>1. later \in SUBSET Nat /\ later # {}
    <3>1. i \in {l \in 1 .. total : Covers(f.phdrs[l], b)}
      BY <1>1, <1>2, <1>5, <1>6
    <3>2. \A k \in 1 .. total : total - k \in Nat
      OBVIOUS
    <3> QED  BY <3>1, <3>2
  <2>2. PICK x \in later : \A y \in later : x <= y
    BY <2>1, LeastElement
  <2>3. PICK j \in 1 .. total : x = total - j /\ Covers(f.phdrs[j], b)
    BY <2>2
  <2>4. ASSUME NEW k \in j + 1 .. total, Covers(f.phdrs[k], b) PROVE FALSE
    <3>1. k \in 1 .. total
      OBVIOUS
    <3>2. total - k \in later
      BY <2>4, <3>1
    <3>3. total - j <= total - k
      BY <2>2, <2>3, <3>2
    <3> QED  BY <2>4, <3>1, <3>3
  <2> QED  BY <2>3, <2>4
<1>10. PICK g \in ProgramHeader : g = f.phdrs[j]
  BY <1>2, HeadersAre
<1>11. PICK w \in Nat, q \in Nat : w = g.vaddr /\ q = g.offset
  BY HeaderIs
<1>12. Entry(s, b) = HeaderEntry(base, g, b)
  BY <1>1, <1>2, <1>6, <1>9, <1>10, LinkedEntry
<1>13. w - q = v - o
  <2>1. g.vaddr - g.offset = h.vaddr - h.offset \/ Apart(h, FirstPage(g), EndPage(g))
    BY <1>1, <1>2, <1>10, WhenLinked
  <2>2. b \in FirstPage(g) .. EndPage(g) - 1
    BY <1>6, <1>9, <1>10, PageCovers
  <2>3. FirstPage(g) \in Nat /\ EndPage(g) \in Nat
    <3>1. g.vaddr + g.memsz \in Nat
      BY HeaderIs
    <3> QED  BY <1>11, <3>1, LowerPage, UpperPage DEF FirstPage, EndPage
  <2>4. ~ Apart(h, FirstPage(g), EndPage(g))
    BY <1>7, <2>2, <2>3 DEF Apart
  <2> QED  BY <1>3, <1>11, <2>1, <2>4
<1>14. PagingGet(directory[s], b).frame = base + q + (b - w)
  BY <1>8, <1>11, <1>12 DEF HeaderEntry
<1>15. PhysicalAddress(directory[s], v) = (base + q + (b - w)) + (v - b)
  BY <1>6, <1>14 DEF PhysicalAddress
<1>16. PhysicalAddress(directory[s], v) = base + o
  <2>1. base \in Nat
    BY HeapEnds
  <2>2. (base + q + (b - w)) + (v - b) = base + o
    BY <1>13, <2>1, SameDistance
  <2> QED  BY <1>15, <2>2
<1> QED  BY <1>1, <1>2, <1>3, <1>16

\* The invariant says what the range in struct elf_file is.
LEMMA RangeCovers == MInv => RangeCoversSegments
<1> SUFFICES ASSUME MInv, NEW s \in Slots, processes[s] # NULL, IsLinked(file[s]),
                    {h \in Range(file[s].phdrs) : h.type = PT_LOAD} # {}
             PROVE  LET segments == {h \in Range(file[s].phdrs) : h.type = PT_LOAD}
                        range == ProcessPheaders(Memory(s), file[s])
                    IN  /\ \A h \in segments : range.vbase <= h.vaddr /\ h.vaddr + h.filesz <= range.vend
                        /\ \E h \in segments : /\ range.vbase = h.vaddr
                                             /\ range.pbase = PhysicalAddress(directory[s], h.vaddr)
                        /\ \E h \in segments : /\ range.vend = h.vaddr + h.filesz
                                             /\ range.pend = Memory(s) + h.offset + h.filesz
  BY DEF RangeCoversSegments
<1>1. PICK f, base, r :
        f \in File /\ base \in Address /\
        f = file[s] /\ base = Memory(s) /\ r = ProcessPheaders(base, f)
  BY ProgramFacts
<1>2. RangeSoFar(base, f, Len(f.phdrs), r)
  <2>1. \A i \in 1 .. Len(f.phdrs) : IsSegment(f, i) => SegmentOK(f.phdrs[i])
    BY <1>1, WhenLinked DEF IsSegment, SegmentOK
  <2> QED  BY <1>1, <2>1, ProcessPheadersIs
<1> DEFINE segments == {h \in Range(f.phdrs) : h.type = PT_LOAD}
<1>3. \A h : h \in segments <=> \E i \in 1 .. Len(f.phdrs) : h = f.phdrs[i] /\ IsSegment(f, i)
  <2>1. \A h : h \in Range(f.phdrs) <=> \E i \in 1 .. Len(f.phdrs) : h = f.phdrs[i]
    BY <1>1, HeadersAre
  <2>2. \A h : h \in segments <=> h \in Range(f.phdrs) /\ h.type = PT_LOAD
    OBVIOUS
  <2> HIDE DEF segments
  <2>3. \A i : IsSegment(f, i) <=> f.phdrs[i].type = PT_LOAD
    BY DEF IsSegment
  <2> QED  BY <2>1, <2>2, <2>3
<1>4. \E i \in 1 .. Len(f.phdrs) : IsSegment(f, i)
  BY <1>1, <1>3
<1> HIDE DEF segments
<1>5. \A h \in segments : r.vbase <= h.vaddr /\ h.vaddr + h.filesz <= r.vend
  BY <1>2, <1>3 DEF RangeSoFar
<1>6. \E h \in segments : r.vbase = h.vaddr /\ r.pbase = PhysicalAddress(directory[s], h.vaddr)
  <2>1. PICK i \in 1 .. Len(f.phdrs) : /\ IsSegment(f, i) /\ r.vbase = f.phdrs[i].vaddr
                                       /\ r.pbase = base + f.phdrs[i].offset
    BY <1>2, <1>4 DEF RangeSoFar
  <2>2. PhysicalAddress(directory[s], f.phdrs[i].vaddr) = base + f.phdrs[i].offset
    BY <1>1, <2>1, SegmentBegins
  <2> QED  BY <1>3, <2>1, <2>2
<1>7. \E h \in segments : r.vend = h.vaddr + h.filesz /\ r.pend = base + h.offset + h.filesz
  <2>1. PICK i \in 1 .. Len(f.phdrs) :
          /\ IsSegment(f, i) /\ r.vend = f.phdrs[i].vaddr + f.phdrs[i].filesz
          /\ r.pend = base + f.phdrs[i].offset + f.phdrs[i].filesz
    BY <1>2, <1>4 DEF RangeSoFar
  <2> QED  BY <1>3, <2>1
<1> QED  BY <1>1, <1>5, <1>6, <1>7 DEF segments

-----------------------------------------------------------------------------
(* What a program finds in its memory. *)

\* Whatever was loaded, copied or terminated before, a linked program finds each
\* of its segments' addresses at the place in its own copy of the file that the
\* header names, writable exactly if the header says so, and its stack where esp
\* points.
THEOREM PagesCorrect == Spec => []ProgramIsMapped
BY ProgramMapped, MInvariant, PTL

\* A page that a program may write leads into its own memory, its own stack or a
\* block that malloc has once given to this program, or right behind the memory
\* if a header asks for more than the file has: never to a block that only
\* others were given.
THEOREM WritesCorrect == Spec => []WritesStayHome
BY WritesHome, MInvariant, PTL

\* The range that elf_load computes from the headers spans all the segments, and
\* both of its ends are addresses of segments and of the places they lead to.
THEOREM RangeCorrect == Spec => []RangeCoversSegments
BY RangeCovers, MInvariant, PTL
=============================================================================
