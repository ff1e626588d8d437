---------------------------- MODULE ContextProofs ----------------------------
(***************************************************************************)
(* Proofs about Context, for every set of tasks, of interrupts and of      *)
(* commands: a program that gets the CPU again finds its registers, and a  *)
(* call of the library arrives where it should.                            *)
(***************************************************************************)
EXTENDS Context, TLAPS

(* The two layouts. *)

\* Each register has one place in struct registers.
LEMMA RegistersPlaces ==
  /\ DOMAIN RegistersLayout = 1 .. 12
  /\ \A i \in 1 .. 12 : RegistersLayout[i] \in Register
  /\ \A r \in Register : \E i \in 1 .. 12 : RegistersLayout[i] = r
  /\ \A i, j \in 1 .. 12 : RegistersLayout[i] = RegistersLayout[j] => i = j
<1>1. DOMAIN RegistersLayout = 1 .. 12
  BY DEF RegistersLayout
<1>2. /\ RegistersLayout[1] = "edi" /\ RegistersLayout[2] = "esi" /\ RegistersLayout[3] = "ebp"
      /\ RegistersLayout[4] = "ebx" /\ RegistersLayout[5] = "edx" /\ RegistersLayout[6] = "ecx"
      /\ RegistersLayout[7] = "eax" /\ RegistersLayout[8] = "ip" /\ RegistersLayout[9] = "cs"
      /\ RegistersLayout[10] = "flags" /\ RegistersLayout[11] = "esp" /\ RegistersLayout[12] = "ss"
  BY DEF RegistersLayout
<1>3. \A i \in 1 .. 12 : i \in {1, 2, 3, 4, 5, 6, 7, 8, 9, 10, 11, 12}
  OBVIOUS
<1> QED  BY <1>1, <1>2, <1>3 DEF Register, General

\* struct interrupt_frame has the same registers, and a word that is reserved.
LEMMA FramePlaces ==
  /\ DOMAIN FrameLayout = 1 .. 13
  /\ \A i \in 1 .. 13 : i # 4 <=> FrameLayout[i] \in Register
  /\ \A r \in Register : \E i \in 1 .. 13 : FrameLayout[i] = r
<1>1. DOMAIN FrameLayout = 1 .. 13
  BY DEF FrameLayout
<1>2. /\ FrameLayout[1] = "edi" /\ FrameLayout[2] = "esi" /\ FrameLayout[3] = "ebp"
      /\ FrameLayout[4] = "reserved" /\ FrameLayout[5] = "ebx" /\ FrameLayout[6] = "edx"
      /\ FrameLayout[7] = "ecx" /\ FrameLayout[8] = "eax" /\ FrameLayout[9] = "ip"
      /\ FrameLayout[10] = "cs" /\ FrameLayout[11] = "flags" /\ FrameLayout[12] = "esp"
      /\ FrameLayout[13] = "ss"
  BY DEF FrameLayout
<1>3. \A i \in 1 .. 13 : i \in {1, 2, 3, 4, 5, 6, 7, 8, 9, 10, 11, 12, 13}
  OBVIOUS
<1> QED  BY <1>1, <1>2, <1>3 DEF Register, General

\* What C finds in task->registers under the name of a register.
LEMMA RegistersField ==
  ASSUME NEW words, NEW i \in 1 .. 12
  PROVE  Field(words, RegistersLayout, RegistersLayout[i]) = words[i]
<1> DEFINE layout == RegistersLayout
           j == CHOOSE k \in DOMAIN layout : layout[k] = layout[i]
<1>1. i \in DOMAIN layout
  BY RegistersPlaces
<1>2. j \in DOMAIN layout /\ layout[j] = layout[i]
  BY <1>1
<1>3. j = i
  BY <1>2, RegistersPlaces
<1> QED  BY <1>3 DEF Field

LEMMA FieldPlaced ==
  ASSUME NEW words, NEW r \in Register
  PROVE  \E i \in 1 .. 13 : FrameLayout[i] = r /\ Field(words, FrameLayout, r) = words[i]
<1> DEFINE layout == FrameLayout
           j == CHOOSE k \in DOMAIN layout : layout[k] = r
<1>1. j \in DOMAIN layout /\ layout[j] = r
  BY FramePlaces
<1>2. j \in 1 .. 13
  BY <1>1, FramePlaces
<1> HIDE DEF j
<1>3. Field(words, FrameLayout, r) = words[j]
  BY DEF Field, j
<1> QED  BY <1>1, <1>2, <1>3

-----------------------------------------------------------------------------
(* C and assembly agree. *)

\* The frame has, under the name of each register, that register of the CPU.
LEMMA FrameIsCpu ==
  \A r \in Register : Field(Pushed, FrameLayout, r) = cpu[r]
<1> DEFINE S == <<cpu["ss"], cpu["esp"], cpu["flags"], cpu["cs"], cpu["ip"],
                  cpu["eax"], cpu["ecx"], cpu["edx"], cpu["ebx"], Kernel,
                  cpu["ebp"], cpu["esi"], cpu["edi"]>>
<1>1. Len(S) = 13
  OBVIOUS
<1>2. /\ S[1] = cpu["ss"] /\ S[2] = cpu["esp"] /\ S[3] = cpu["flags"] /\ S[4] = cpu["cs"]
      /\ S[5] = cpu["ip"] /\ S[6] = cpu["eax"] /\ S[7] = cpu["ecx"] /\ S[8] = cpu["edx"]
      /\ S[9] = cpu["ebx"] /\ S[11] = cpu["ebp"] /\ S[12] = cpu["esi"] /\ S[13] = cpu["edi"]
  OBVIOUS
<1>3. Pushed = Reverse(S)
  BY DEF Pushed
<1> HIDE DEF S
<1>4. \A i \in 1 .. 13 : Pushed[i] = S[14 - i]
  BY <1>1, <1>3 DEF Reverse
<1>5. \A i \in 1 .. 13 : i # 4 => Pushed[i] = cpu[FrameLayout[i]]
  <2>1. /\ Pushed[1] = S[13] /\ Pushed[2] = S[12] /\ Pushed[3] = S[11] /\ Pushed[5] = S[9]
        /\ Pushed[6] = S[8] /\ Pushed[7] = S[7] /\ Pushed[8] = S[6] /\ Pushed[9] = S[5]
        /\ Pushed[10] = S[4] /\ Pushed[11] = S[3] /\ Pushed[12] = S[2] /\ Pushed[13] = S[1]
    BY <1>4
  <2>2. \A i \in 1 .. 13 : i \in {1, 2, 3, 4, 5, 6, 7, 8, 9, 10, 11, 12, 13}
    OBVIOUS
  <2> QED  BY <1>2, <2>1, <2>2 DEF FrameLayout
<1> QED  BY <1>5, FieldPlaced, FramePlaces

\* task_save_state stores each register where it is looked for later.
LEMMA SavedIsCpu ==
  ASSUME NEW words, NEW r \in Register
  PROVE  Field(SaveState(words, Pushed), RegistersLayout, r) = cpu[r]
<1>1. PICK i \in 1 .. 12 : RegistersLayout[i] = r
  BY RegistersPlaces
<1>2. SaveState(words, Pushed)[i] = Field(Pushed, FrameLayout, r)
  BY <1>1 DEF SaveState
<1> QED  BY <1>1, <1>2, RegistersField, FrameIsCpu

LEMMA NewIsFresh ==
  ASSUME NEW t, NEW r \in Register
  PROVE  Field(NewRegisters(t), RegistersLayout, r) = Fresh(t)[r]
<1>1. PICK i \in 1 .. 12 : RegistersLayout[i] = r
  BY RegistersPlaces
<1>2. NewRegisters(t)[i] = Fresh(t)[r]
  BY <1>1 DEF NewRegisters
<1> QED  BY <1>1, <1>2, RegistersField

\* What task_return makes of the words, but for the two registers it loses, is
\* what C has stored under the names of the registers.
LEMMA ReturnedIsSaved ==
  ASSUME NEW words, NEW r \in Register
  PROVE  TaskReturn(words)[r] =
           IF r \in {"ebp", "flags"} THEN Kernel ELSE Field(words, RegistersLayout, r)
<1> DEFINE F(s) == Field(words, RegistersLayout, s)
<1>1. /\ F("edi") = words[1] /\ F("esi") = words[2] /\ F("ebx") = words[4]
      /\ F("edx") = words[5] /\ F("ecx") = words[6] /\ F("eax") = words[7]
      /\ F("ip") = words[8] /\ F("cs") = words[9] /\ F("esp") = words[11]
      /\ F("ss") = words[12]
  <2>1. /\ RegistersLayout[1] = "edi" /\ RegistersLayout[2] = "esi"
        /\ RegistersLayout[4] = "ebx" /\ RegistersLayout[5] = "edx"
        /\ RegistersLayout[6] = "ecx" /\ RegistersLayout[7] = "eax"
        /\ RegistersLayout[8] = "ip" /\ RegistersLayout[9] = "cs"
        /\ RegistersLayout[11] = "esp" /\ RegistersLayout[12] = "ss"
    BY DEF RegistersLayout
  <2>2. \A i \in 1 .. 12 : F(RegistersLayout[i]) = words[i]
    BY RegistersField
  <2> HIDE DEF F
  <2> QED  BY <2>1, <2>2
<1>2. /\ At(words, 0) = words[1] /\ At(words, 4) = words[2] /\ At(words, 12) = words[4]
      /\ At(words, 16) = words[5] /\ At(words, 20) = words[6] /\ At(words, 24) = words[7]
      /\ At(words, 28) = words[8] /\ At(words, 32) = words[9] /\ At(words, 40) = words[11]
      /\ At(words, 44) = words[12]
  BY DEF At
<1> HIDE DEF F
<1>3. CASE r \in General
  BY <1>1, <1>2, <1>3 DEF TaskReturn, RestoreGeneral, General, Register, F
<1>4. CASE r \in {"ip", "cs", "flags", "esp", "ss"}
  BY <1>1, <1>2, <1>4 DEF TaskReturn, General, Register, F
<1> QED  BY <1>3, <1>4 DEF Register, F

\* popad and iret restore what was pushed.
LEMMA PoppedIsCpu ==
  ASSUME cpu \in [Register -> Words]
  PROVE  Popped(Pushed) = cpu
BY FrameIsCpu DEF Popped

-----------------------------------------------------------------------------
(* The inductive invariant.  ResumesAsItWas and SavedAsItWas say nothing of  *)
(* the two registers that a program may lose while it runs; what it finds in *)
(* them is saved when it loses the CPU, so the invariant says what they are. *)

\* What a register that should be v may be.
MayBe(r, v) == {v} \cup (IF r \in {"ebp", "flags"} THEN {Kernel} ELSE {})

HoldsCpu(regs, e) == \A r \in Register : regs[r] \in MayBe(r, e[r])
HoldsSaved(words, e) ==
  \A r \in Register : Field(words, RegistersLayout, r) \in MayBe(r, e[r])

CInv ==
  /\ TypeOK
  /\ expected \in [Task -> [Register -> Words]]
  /\ HoldsCpu(cpu, expected[current])
  /\ \A t \in started \ {current} : HoldsSaved(registers[t], expected[t])

\* The types of what CPU and structures get.
LEMMA WordTypes ==
  /\ Kernel \in Words
  /\ \A t \in Task, v \in 0 .. MaxVersion : Value(t, v) \in [Register -> Words]
  /\ \A f : Result(f) \in Words
<1>1. 0 \in 0 .. MaxVersion
  BY ContextAssumption
<1> QED  BY <1>1 DEF Kernel, Words, Value, Result

LEMMA NewTypes ==
  ASSUME NEW t \in Task
  PROVE  /\ NewRegisters(t) \in [1 .. 12 -> Words]
         /\ Fresh(t) \in [Register -> Words]
         /\ HoldsSaved(NewRegisters(t), Fresh(t))
<1>1. 0 \in 0 .. MaxVersion
  BY ContextAssumption
<1>2. Fresh(t) \in [Register -> Words]
  BY <1>1, WordTypes DEF Fresh
<1>3. NewRegisters(t) \in [1 .. 12 -> Words]
  BY <1>2, RegistersPlaces DEF NewRegisters
<1>4. HoldsSaved(NewRegisters(t), Fresh(t))
  BY NewIsFresh DEF HoldsSaved, MayBe
<1> QED  BY <1>2, <1>3, <1>4

LEMMA ReturnTypes ==
  ASSUME NEW words \in [1 .. 12 -> Words]
  PROVE  TaskReturn(words) \in [Register -> Words]
<1>1. \A r \in Register : TaskReturn(words)[r] \in Words
  <2> TAKE r \in Register
  <2>1. PICK i \in 1 .. 12 : RegistersLayout[i] = r
    BY RegistersPlaces
  <2>2. Field(words, RegistersLayout, r) \in Words
    BY <2>1, RegistersField
  <2> QED  BY <2>2, ReturnedIsSaved, WordTypes
<1>2. TaskReturn(words) = [r \in Register |-> TaskReturn(words)[r]]
  BY DEF TaskReturn
<1> QED  BY <1>1, <1>2

\* A program that gets the CPU from its structure has what was saved there.
LEMMA ReturnHolds ==
  ASSUME NEW words, NEW e, HoldsSaved(words, e)
  PROVE  HoldsCpu(TaskReturn(words), e)
<1> SUFFICES ASSUME NEW r \in Register PROVE TaskReturn(words)[r] \in MayBe(r, e[r])
  BY DEF HoldsCpu
<1>1. CASE r \in {"ebp", "flags"}
  BY <1>1, ReturnedIsSaved DEF MayBe
<1>2. CASE r \notin {"ebp", "flags"}
  BY <1>2, ReturnedIsSaved DEF HoldsSaved
<1> QED  BY <1>1, <1>2

\* When its state has been saved, the running program has in its structure what
\* it should have, as those that wait do.
LEMMA SavedHolds ==
  ASSUME CInv
  PROVE  /\ Saved \in [Task -> [1 .. 12 -> Words]]
         /\ \A t \in started : HoldsSaved(Saved[t], expected[t])
         /\ \A t \in Task \ {current} : Saved[t] = registers[t]
         /\ ArgumentStack = cpu["esp"]
<1>1. current \in Task /\ registers \in [Task -> [1 .. 12 -> Words]] /\ cpu \in [Register -> Words]
  BY DEF CInv, TypeOK
<1> DEFINE w == SaveState(registers[current], Pushed)
<1>2. Saved = [registers EXCEPT ![current] = w]
  BY DEF Saved
<1>3. w \in [1 .. 12 -> Words]
  <2>1. w = [i \in 1 .. 12 |-> Field(Pushed, FrameLayout, RegistersLayout[i])]
    BY DEF SaveState
  <2>2. \A i \in 1 .. 12 : Field(Pushed, FrameLayout, RegistersLayout[i]) \in Words
    BY <1>1, FrameIsCpu, RegistersPlaces
  <2> QED  BY <2>1, <2>2
<1>4. \A r \in Register : Field(w, RegistersLayout, r) = cpu[r]
  BY SavedIsCpu
<1> HIDE DEF w
<1>5. HoldsSaved(w, expected[current])
  BY <1>4 DEF HoldsSaved, HoldsCpu, CInv
<1>6. Saved[current] = w /\ \A t \in Task \ {current} : Saved[t] = registers[t]
  BY <1>1, <1>2
<1>7. \A t \in started : HoldsSaved(Saved[t], expected[t])
  BY <1>5, <1>6 DEF CInv, TypeOK
<1>8. ArgumentStack = cpu["esp"]
  BY <1>4, <1>6 DEF ArgumentStack, Register
<1> QED  BY <1>1, <1>2, <1>3, <1>6, <1>7, <1>8

\* The commands of the library and their functions.
LEMMA LibraryMeans ==
  \A f \in DOMAIN Library : CommandFunction(Library[f]) = Meaning[f]
<1>1. DOMAIN Library =
        {"print", "multitaskos_getkey", "multitaskos_putchar", "multitaskos_malloc",
         "multitaskos_free", "multitaskos_process_load_start", "multitaskos_system",
         "multitaskos_process_get_arguments", "multitaskos_exit"}
  BY DEF Library
<1>2. /\ DOMAIN Isr80hCommands = 1 .. 10
      /\ \A c \in 1 .. 9 : CommandFunction(c) = Isr80hCommands[c + 1]
  <2>1. DOMAIN Isr80hCommands = 1 .. 10
    BY DEF Isr80hCommands
  <2> QED  BY <2>1 DEF CommandFunction, MAX_ISR80H_COMMANDS
<1>3. /\ CommandFunction(1) = "print" /\ CommandFunction(2) = "getkey"
      /\ CommandFunction(3) = "putchar" /\ CommandFunction(4) = "malloc"
      /\ CommandFunction(5) = "free" /\ CommandFunction(6) = "process_load_start"
      /\ CommandFunction(7) = "invoke_system_command"
      /\ CommandFunction(8) = "get_program_arguments" /\ CommandFunction(9) = "exit"
  BY <1>2 DEF Isr80hCommands
<1> QED  BY <1>1, <1>3 DEF Library, Meaning

\* What a call of command arrives as.
LEMMA EnteredFacts ==
  ASSUME CInv, NEW functions, Entered(functions)
  PROVE  /\ served'.by \in DOMAIN Library \cup {"int 0x80"}
         /\ served'.function \in functions
         /\ served'.function \in Range(Isr80hCommands) \cup {Null}
         /\ served'.stack = cpu["esp"]
         /\ served'.by \in DOMAIN Library => served'.function = Meaning[served'.by]
<1>1. \A c : CommandFunction(c) \in Range(Isr80hCommands) \cup {Null}
  BY DEF CommandFunction, Range
<1>2. "int 0x80" \notin DOMAIN Library
  BY DEF Library
<1>3. ASSUME NEW by, NEW c, Serve(by, c)
      PROVE  /\ served'.by = by /\ served'.function = CommandFunction(c)
             /\ served'.stack = cpu["esp"]
  BY <1>3, SavedHolds DEF Serve
<1>4. CASE \E f \in DOMAIN Library : /\ CommandFunction(Library[f]) \in functions
                                     /\ Serve(f, Library[f])
  BY <1>1, <1>3, <1>4, LibraryMeans
<1>5. CASE \E c \in Commands : CommandFunction(c) \in functions /\ Serve("int 0x80", c)
  BY <1>1, <1>2, <1>3, <1>5
<1> QED  BY <1>4, <1>5 DEF Entered

\* served after a step is typed, and a call of the library has arrived.
ServedWell ==
  /\ served'.by \in DOMAIN Library \cup {"nobody", "int 0x80"}
  /\ served'.function \in Range(Isr80hCommands) \cup {Null} /\ served'.stack \in Words
  /\ served'.by \in DOMAIN Library =>
       served'.function = Meaning[served'.by] /\ served'.stack = cpu["esp"]

LEMMA ServedByNobody == served' = NoCommand => ServedWell
<1>1. "nobody" \notin DOMAIN Library
  BY DEF Library
<1> QED  BY <1>1, WordTypes DEF ServedWell, NoCommand

LEMMA ServedEntered ==
  ASSUME CInv, NEW functions, Entered(functions)
  PROVE  ServedWell /\ served'.function \in functions
<1>1. cpu["esp"] \in Words
  BY DEF CInv, TypeOK, Register
<1> QED  BY <1>1, EnteredFacts DEF ServedWell

-----------------------------------------------------------------------------
(* The steps. *)

\* The program that runs goes on, with its state saved or not.
LEMMA GoesOn ==
  ASSUME CInv, ServedWell, UNCHANGED <<current, started, wild>>,
         registers' \in {registers, Saved},
         cpu' \in [Register -> Words],
         NEW e \in [Register -> Words], expected' = [expected EXCEPT ![current] = e],
         HoldsCpu(cpu', e)
  PROVE  CInv'
<1>1. /\ current \in Task /\ registers' \in [Task -> [1 .. 12 -> Words]]
      /\ \A t \in Task \ {current} : registers'[t] = registers[t]
  BY SavedHolds DEF CInv, TypeOK
<1>2. TypeOK'
  BY <1>1 DEF CInv, TypeOK, ServedWell
<1>3. expected' \in [Task -> [Register -> Words]] /\ expected'[current'] = e
  BY <1>1 DEF CInv
<1>4. \A t \in started' \ {current'} : HoldsSaved(registers'[t], expected'[t])
  BY <1>1 DEF CInv, TypeOK
<1> QED  BY <1>2, <1>3, <1>4 DEF CInv

\* Another program, or the same one, gets the CPU from its structure.
LEMMA Switches ==
  ASSUME CInv, ServedWell, UNCHANGED wild,
         NEW t \in started', current' = t, started' \in SUBSET Task,
         registers' \in [Task -> [1 .. 12 -> Words]],
         expected' \in [Task -> [Register -> Words]],
         \A u \in started' : HoldsSaved(registers'[u], expected'[u]),
         cpu' = TaskReturn(registers'[t])
  PROVE  CInv'
<1>1. cpu' \in [Register -> Words] /\ HoldsCpu(cpu', expected'[t])
  BY ReturnTypes, ReturnHolds
<1>2. TypeOK'
  BY <1>1 DEF CInv, TypeOK, ServedWell
<1> QED  BY <1>1, <1>2 DEF CInv

LEMMA Kept == CInv => expected = [expected EXCEPT ![current] = expected[current]]
BY DEF CInv, TypeOK

LEMMA ComputeStep ==
  ASSUME CInv, Compute, UNCHANGED wild
  PROVE  CInv' /\ ServedWell
<1>1. PICK v \in 1 .. MaxVersion :
        /\ cpu' = Value(current, v) /\ expected' = [expected EXCEPT ![current] = Value(current, v)]
        /\ served' = NoCommand /\ UNCHANGED <<registers, current, started>>
  BY DEF Compute
<1>2. Value(current, v) \in [Register -> Words]
  <2>1. v \in 0 .. MaxVersion
    BY ContextAssumption
  <2>2. current \in Task
    BY DEF CInv, TypeOK
  <2> QED  BY <2>1, <2>2, WordTypes
<1>3. HoldsCpu(cpu', Value(current, v))
  BY <1>1 DEF HoldsCpu, MayBe
<1> QED  BY <1>1, <1>2, <1>3, ServedByNobody, GoesOn

LEMMA CommandStep ==
  ASSUME CInv, Command, UNCHANGED wild
  PROVE  CInv' /\ ServedWell
<1> DEFINE x == Result(served'.function)
           e == [expected[current] EXCEPT !["eax"] = x]
<1>1. /\ ServedWell /\ registers' = Saved /\ UNCHANGED <<current, started>>
      /\ cpu' = [cpu EXCEPT !["eax"] = x]
      /\ expected' = [expected EXCEPT ![current] = e]
  BY ServedEntered, PoppedIsCpu DEF Command, CInv, TypeOK
<1>2. x \in Words
  BY WordTypes
<1> HIDE DEF x
<1>3. /\ cpu \in [Register -> Words] /\ expected[current] \in [Register -> Words]
      /\ HoldsCpu(cpu, expected[current]) /\ "eax" \in Register
  BY DEF CInv, TypeOK, Register, General
<1>4. e \in [Register -> Words] /\ cpu' \in [Register -> Words]
  BY <1>1, <1>2, <1>3
<1>5. HoldsCpu(cpu', e)
  BY <1>1, <1>3 DEF HoldsCpu, MayBe
<1> QED  BY <1>1, <1>4, <1>5, GoesOn

LEMMA ClockStep ==
  ASSUME CInv, NEW v, Clock(v), UNCHANGED wild
  PROVE  CInv' /\ ServedWell
<1>1. PICK t \in started : current' = t /\ cpu' = TaskReturn(Saved[t])
  BY DEF Clock
<1>2. /\ registers' = Saved /\ served' = NoCommand /\ UNCHANGED <<started, expected>>
  BY DEF Clock
<1>3. ServedWell
  BY <1>2, ServedByNobody
<1> QED  BY <1>1, <1>2, <1>3, SavedHolds, Switches DEF CInv, TypeOK

LEMMA ReturningStep ==
  ASSUME CInv, NEW v, Keyboard(v) \/ Unhandled(v), UNCHANGED wild
  PROVE  CInv' /\ ServedWell
<1>1. /\ registers' \in {registers, Saved} /\ cpu' = cpu /\ served' = NoCommand
      /\ UNCHANGED <<current, started, expected>>
  BY PoppedIsCpu DEF Keyboard, Unhandled, CInv, TypeOK
<1>2. ServedWell
  BY <1>1, ServedByNobody
<1>3. /\ cpu \in [Register -> Words] /\ expected[current] \in [Register -> Words]
      /\ HoldsCpu(cpu, expected[current])
  BY DEF CInv, TypeOK
<1> QED  BY <1>1, <1>2, <1>3, Kept, GoesOn

LEMMA StartStep ==
  ASSUME CInv, NEW t \in Task, Start(t), UNCHANGED wild
  PROVE  CInv' /\ ServedWell
<1>1. /\ t \notin started /\ registers' = [Saved EXCEPT ![t] = NewRegisters(t)]
      /\ started' = started \cup {t} /\ current' = t
      /\ cpu' = TaskReturn(NewRegisters(t))
      /\ expected' = [expected EXCEPT ![t] = cpu']
  BY DEF Start
<1>2. ServedWell
  BY ServedEntered DEF Start
<1>3. /\ NewRegisters(t) \in [1 .. 12 -> Words] /\ cpu' \in [Register -> Words]
  BY <1>1, NewTypes, ReturnTypes
<1>4. HoldsCpu(cpu', cpu')
  BY DEF HoldsCpu, MayBe
<1>5. \A u \in started : HoldsSaved(Saved[u], expected[u])
  BY SavedHolds
<1>6. \A u \in started' \ {t} : registers'[u] = Saved[u] /\ expected'[u] = expected[u]
  BY <1>1, SavedHolds DEF CInv, TypeOK
<1>7. /\ registers' \in [Task -> [1 .. 12 -> Words]]
      /\ expected' \in [Task -> [Register -> Words]] /\ expected'[t] = cpu'
  BY <1>1, <1>3, SavedHolds DEF CInv
<1>8. TypeOK'
  BY <1>1, <1>2, <1>3, <1>7 DEF CInv, TypeOK, ServedWell
<1> QED  BY <1>1, <1>2, <1>4, <1>5, <1>6, <1>7, <1>8 DEF CInv

LEMMA GoneStep ==
  ASSUME CInv, ServedWell, Gone, UNCHANGED wild
  PROVE  CInv'
<1>1. PICK t \in started \ {current} : current' = t /\ cpu' = TaskReturn(registers[t])
  BY DEF Gone
<1>2. started' = started \ {current} /\ UNCHANGED <<registers, expected>>
  BY DEF Gone
<1>3. t \in started' /\ \A u \in started' : HoldsSaved(registers'[u], expected'[u])
  BY <1>2 DEF CInv
<1> QED  BY <1>1, <1>2, <1>3, Switches DEF CInv, TypeOK

LEMMA ContextStep ==
  ASSUME CInv, Next
  PROVE  CInv' /\ ServedWell
<1>1. CASE Compute /\ UNCHANGED wild
  BY <1>1, ComputeStep
<1>2. CASE Command /\ UNCHANGED wild
  BY <1>2, CommandStep
<1>3. CASE Exit /\ UNCHANGED wild
  BY <1>3, ServedEntered, GoneStep DEF Exit
<1>4. ASSUME NEW v \in Vectors, Interrupt(v), UNCHANGED wild
      PROVE  CInv' /\ ServedWell
  <2>1. CASE Clock(v)
    BY <1>4, <2>1, ClockStep
  <2>2. CASE Keyboard(v) \/ Unhandled(v)
    BY <1>4, <2>2, ReturningStep
  <2>3. CASE Exception(v)
    BY <1>4, <2>3, ServedByNobody, GoneStep DEF Exception
  <2> QED  BY <1>4, <2>1, <2>2, <2>3 DEF Interrupt
<1>5. ASSUME NEW t \in Task, Start(t), UNCHANGED wild
      PROVE  CInv' /\ ServedWell
  BY <1>5, StartStep
<1>6. ASSUME NEW v \in Vectors, DivideByZero(v)
      PROVE  CInv' /\ ServedWell
  <2>1. /\ wild' = TRUE /\ served' = NoCommand
        /\ UNCHANGED <<cpu, registers, current, started, expected>>
    BY <1>6 DEF DivideByZero
  <2>2. ServedWell
    BY <2>1, ServedByNobody
  <2> QED  BY <2>1, <2>2 DEF CInv, TypeOK, ServedWell
<1> QED  BY <1>1, <1>2, <1>3, <1>4, <1>5, <1>6 DEF Next

LEMMA ContextInit == Init => CInv
<1> SUFFICES ASSUME Init PROVE CInv
  OBVIOUS
<1>1. PICK t \in Task :
        /\ current = t /\ started = {t} /\ cpu = TaskReturn(NewRegisters(t))
        /\ expected = [u \in Task |-> IF u = t THEN cpu ELSE Fresh(u)]
  BY DEF Init
<1>2. registers = [u \in Task |-> NewRegisters(u)] /\ served = NoCommand /\ wild = FALSE
  BY DEF Init
<1>3. cpu \in [Register -> Words] /\ registers \in [Task -> [1 .. 12 -> Words]]
  BY <1>1, <1>2, NewTypes, ReturnTypes
<1>4. HoldsCpu(cpu, expected[current])
  BY <1>1 DEF HoldsCpu, MayBe
<1>5. expected \in [Task -> [Register -> Words]]
  BY <1>1, <1>3, NewTypes
<1>6. TypeOK
  BY <1>1, <1>2, <1>3, WordTypes DEF TypeOK, NoCommand
<1> QED  BY <1>1, <1>4, <1>5, <1>6 DEF CInv

LEMMA ContextInvariant == Spec => []CInv
<1>1. CInv /\ [Next]_vars => CInv'
  <2> SUFFICES ASSUME CInv, [Next]_vars PROVE CInv'
    OBVIOUS
  <2>1. CASE Next
    BY <2>1, ContextStep
  <2>2. CASE UNCHANGED vars
    BY <2>2 DEF vars, CInv, TypeOK
  <2> QED  BY <2>1, <2>2
<1> QED  BY <1>1, ContextInit, PTL DEF Spec

\* The registers, saved or not, are words of programs or of the kernel, and a
\* task that was started runs (TypeOK).
THEOREM ContextTyping == Spec => []TypeOK
<1>1. CInv => TypeOK
  BY DEF CInv
<1> QED  BY ContextInvariant, <1>1, PTL

\* A program goes on with its own registers, all but ebp and the flags, however
\* many programs there are and whatever they have in their registers
\* (ResumesAsItWas).
THEOREM ResumeCorrect == Spec => []ResumesAsItWas
<1>1. CInv => ResumesAsItWas
  BY DEF CInv, ResumesAsItWas, HoldsCpu, MayBe
<1> QED  BY ContextInvariant, <1>1, PTL

\* A program that waits has its registers in task->registers (SavedAsItWas).
THEOREM SaveCorrect == Spec => []SavedAsItWas
<1>1. CInv => SavedAsItWas
  BY DEF CInv, SavedAsItWas, HoldsSaved, MayBe
<1> QED  BY ContextInvariant, <1>1, PTL

\* A function of the library gets the kernel function that it is for, with the
\* caller's own stack, whatever else uses the interrupts (CallsArrive).
THEOREM CallsCorrect == Spec => CallsArrive
<1> DEFINE A == served'.by \in DOMAIN Library =>
                  /\ served'.function = Meaning[served'.by]
                  /\ served'.stack = cpu["esp"]
<1>1. CInv /\ [Next]_vars => [A]_vars
  BY ContextStep DEF ServedWell
<1> HIDE DEF A
<1>2. Spec => [][A]_vars
  BY <1>1, ContextInvariant, PTL DEF Spec
<1> QED  BY <1>2 DEF CallsArrive, A
=============================================================================
