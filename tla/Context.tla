------------------------------ MODULE Context ------------------------------
(***************************************************************************)
(* The registers of the programs (src/idt/idt.asm, src/task/task.asm,      *)
(* task_save_state in src/task/task.c): where an interrupt or a command    *)
(* leads to, what it saves of the program that runs, and what a program    *)
(* finds when it gets the CPU again.  C structures and assembly must agree *)
(* on the layout of two records in memory, so these are sequences of       *)
(* 32-bit words here.                                                      *)
(*                                                                         *)
(* The value of a register is a record that says whose register it was and *)
(* when: programs are told apart, and so are their registers.              *)
(***************************************************************************)
EXTENDS Interrupts, SequencesExt, FiniteSets

CONSTANTS
  Task,          \* the tasks that may be started
  MaxVersion,    \* how often a program changes its registers, a bound of the model
  Vectors,       \* the interrupts that happen
  Commands       \* what programs without the library put in eax

ASSUME ContextAssumption ==
  MaxVersion \in Nat /\ Vectors \subseteq Vector /\ Commands \subseteq Int

VARIABLES
  cpu,         \* the registers of the CPU
  registers,   \* task->registers of every task, a sequence of words
  current,     \* current_task
  started,     \* the tasks that were started
  expected,    \* History: the registers of a task as its program knows them
  served,      \* History: the command of the last step
  wild         \* Has the CPU been led astray?

vars == <<cpu, registers, current, started, expected, served, wild>>

General == {"edi", "esi", "ebp", "ebx", "edx", "ecx", "eax"}
Register == General \cup {"ip", "cs", "flags", "esp", "ss"}

\* struct registers and struct interrupt_frame, word by word.
RegistersLayout ==
  <<"edi", "esi", "ebp", "ebx", "edx", "ecx", "eax", "ip", "cs", "flags", "esp", "ss">>
FrameLayout ==
  <<"edi", "esi", "ebp", "reserved", "ebx", "edx", "ecx", "eax",
    "ip", "cs", "flags", "esp", "ss">>

\* The word of a sequence that a C structure with this layout calls r.
Field(words, layout, r) == words[CHOOSE i \in DOMAIN layout : layout[i] = r]

Kernel == [who |-> "kernel", reg |-> "any", version |-> 0]
Value(t, v) == [r \in Register |-> [who |-> t, reg |-> r, version |-> v]]

\* What a register holds when a program is started: the kernel's choice.
Fresh(t) == Value(t, 0)

-----------------------------------------------------------------------------
\* task_init: ip, ss, cs and esp are set and the others are zero.
NewRegisters(t) == [i \in 1 .. 12 |-> Fresh(t)[RegistersLayout[i]]]

\* What lies on the kernel's stack at the entry of an interrupt: the CPU pushes
\* ss, esp, flags, cs and ip, then pushad stores the general registers.
Pushed ==
  Reverse(<<cpu["ss"], cpu["esp"], cpu["flags"], cpu["cs"], cpu["ip"],
            cpu["eax"], cpu["ecx"], cpu["edx"], cpu["ebx"], Kernel,
            cpu["ebp"], cpu["esi"], cpu["edi"]>>)

\* task_save_state.
SaveState(words, frame) ==
  [i \in 1 .. 12 |-> Field(frame, FrameLayout, RegistersLayout[i])]

\* The word at a byte offset of task->registers.
At(words, offset) == words[offset \div 4 + 1]

\* restore_general_purpose_registers: its last instruction restores the ebp of
\* its caller, so that the one of the task is lost.
\* Variant: ebx, which holds the address of the structure, is loaded first.
RestoreGeneral_EbxFirst(words) ==
  [r \in General |->
     CASE r = "edi" -> At(words, 0) [] r = "esi" -> At(words, 4)
       [] r = "ebp" -> Kernel       [] r = "edx" -> Kernel
       [] r = "ecx" -> Kernel       [] r = "eax" -> Kernel
       [] r = "ebx" -> At(words, 12)]

RestoreGeneral(words) ==
  [r \in General |->
     CASE r = "edi" -> At(words, 0)  [] r = "esi" -> At(words, 4)
       [] r = "ebp" -> Kernel        [] r = "edx" -> At(words, 16)
       [] r = "ecx" -> At(words, 20) [] r = "eax" -> At(words, 24)
       [] r = "ebx" -> At(words, 12)]

\* task_return: iretd takes ip, cs, flags, esp and ss from what was pushed; the
\* flags are the kernel's own, with interrupts enabled.
TaskReturn(words) ==
  [r \in Register |->
     CASE r = "ip" -> At(words, 28) [] r = "cs" -> At(words, 32)
       [] r = "flags" -> Kernel
       [] r = "esp" -> At(words, 40) [] r = "ss" -> At(words, 44)
       [] OTHER -> RestoreGeneral(words)[r]]

\* popad and iret at the end of an interrupt: the words as they were pushed.
Popped(words) ==
  [r \in Register |-> Field(words, FrameLayout, r)]

Saved == [registers EXCEPT ![current] = SaveState(@, Pushed)]

-----------------------------------------------------------------------------
\* No command, and a command number that a function of the library, or a program
\* itself, put in eax: the function that the kernel runs and the stack that
\* task_get_stack_item reads its arguments from.
NoCommand == [by |-> "nobody", function |-> Null, stack |-> Kernel]

\* Variant: the state is saved when the command is done.
ArgumentStack_Late == Field(registers[current], RegistersLayout, "esp")

ArgumentStack == Field(Saved[current], RegistersLayout, "esp")

Serve(by, command) ==
  served' = [by |-> by, function |-> CommandFunction(command), stack |-> ArgumentStack]

Entered(functions) ==
  \/ \E f \in DOMAIN Library : /\ CommandFunction(Library[f]) \in functions
                               /\ Serve(f, Library[f])
  \/ \E c \in Commands : CommandFunction(c) \in functions /\ Serve("int 0x80", c)

\* task_run_first_ever_task.
Init ==
  /\ registers = [t \in Task |-> NewRegisters(t)]
  /\ \E t \in Task : /\ current = t /\ started = {t}
                     /\ cpu = TaskReturn(NewRegisters(t))
                     /\ expected = [u \in Task |-> IF u = t THEN cpu ELSE Fresh(u)]
  /\ served = NoCommand /\ wild = FALSE

\* The program that runs computes: all its registers change.
Compute ==
  \E v \in 1 .. MaxVersion :
    /\ cpu' = Value(current, v)
    /\ expected' = [expected EXCEPT ![current] = cpu']
    /\ served' = NoCommand
    /\ UNCHANGED <<registers, current, started>>

\* The timer: interrupt_handler saves the state, idt_clock goes to another task.
Clock(v) ==
  /\ LeadsTo(v, "idt_clock")
  /\ \E t \in started : current' = t /\ cpu' = TaskReturn(Saved[t])
  /\ registers' = Saved
  /\ served' = NoCommand
  /\ UNCHANGED <<started, expected>>

\* The keyboard, after which the same program goes on.
Keyboard(v) ==
  /\ LeadsTo(v, "classic_keyboard_handle_interrupt")
  /\ registers' = Saved
  /\ cpu' = Popped(Pushed)
  /\ served' = NoCommand
  /\ UNCHANGED <<current, started, expected>>

\* An interrupt that nobody has registered for: nothing is saved.
Unhandled(v) ==
  /\ LeadsTo(v, Null)
  /\ cpu' = Popped(Pushed)
  /\ served' = NoCommand
  /\ UNCHANGED <<registers, current, started, expected>>

\* idt_zero returns with ret, which takes eip from the stack and leaves the CPU
\* in the kernel with the rest of the frame.
DivideByZero(v) ==
  /\ IdtDescriptors[v] = "idt_zero"
  /\ wild' = TRUE
  /\ served' = NoCommand
  /\ UNCHANGED <<cpu, registers, current, started, expected>>

\* A command that returns to its caller: eax holds its result, which is 0 for
\* a command that does not exist.
Result(function) ==
  [who |-> "kernel", reg |-> IF function = Null THEN "zero" ELSE "result", version |-> 0]

Command ==
  /\ Entered({Null} \cup (Range(Isr80hCommands) \ {"exit"}))
  /\ registers' = Saved
  /\ cpu' = [Popped(Pushed) EXCEPT !["eax"] = Result(served'.function)]
  /\ expected' = [expected EXCEPT ![current] = [@ EXCEPT !["eax"] = Result(served'.function)]]
  /\ UNCHANGED <<current, started>>

\* Commands 6 and 7: the state of the caller is saved, the new program runs.
\* Variant: the state is not saved.
Start_NotSaved(t) ==
  /\ t \notin started
  /\ Entered({"process_load_start", "invoke_system_command"})
  /\ registers' = [registers EXCEPT ![t] = NewRegisters(t)]
  /\ started' = started \cup {t}
  /\ current' = t
  /\ cpu' = TaskReturn(NewRegisters(t))
  /\ expected' = [expected EXCEPT ![t] = cpu']

Start(t) ==
  /\ t \notin started
  /\ Entered({"process_load_start", "invoke_system_command"})
  /\ registers' = [Saved EXCEPT ![t] = NewRegisters(t)]
  /\ started' = started \cup {t}
  /\ current' = t
  /\ cpu' = TaskReturn(NewRegisters(t))
  /\ expected' = [expected EXCEPT ![t] = cpu']

\* The task that runs is gone and another one runs.
\* Variant: back to the program that exited.
Gone_Returns ==
  /\ Cardinality(started) > 1
  /\ started' = started \ {current}
  /\ cpu' = TaskReturn(registers[current])
  /\ UNCHANGED <<registers, current, expected>>

Gone ==
  \E t \in started \ {current} :
    /\ started' = started \ {current}
    /\ current' = t
    /\ cpu' = TaskReturn(registers[t])
    /\ UNCHANGED <<registers, expected>>

\* Command 9, and idt_handle_exception.
Exit == Entered({"exit"}) /\ Gone
Exception(v) == LeadsTo(v, "idt_handle_exception") /\ served' = NoCommand /\ Gone

Interrupt(v) == Clock(v) \/ Keyboard(v) \/ Unhandled(v) \/ Exception(v)

Next ==
  /\ ~wild
  /\ \/ /\ \/ Compute \/ Command \/ Exit
           \/ \E v \in Vectors : Interrupt(v)
           \/ \E t \in Task : Start(t)
        /\ UNCHANGED wild
     \/ \E v \in Vectors : DivideByZero(v)

Spec == Init /\ [][Next]_vars

-----------------------------------------------------------------------------
Words == [who : Task \cup {"kernel"}, reg : Register \cup {"any", "result", "zero"},
          version : 0 .. MaxVersion]

TypeOK ==
  /\ cpu \in [Register -> Words]
  /\ registers \in [Task -> [1 .. 12 -> Words]]
  /\ started \subseteq Task /\ current \in started
  /\ served.by \in DOMAIN Library \cup {"nobody", "int 0x80"}
  /\ served.function \in Range(Isr80hCommands) \cup {Null} /\ served.stack \in Words
  /\ wild \in BOOLEAN

\* A program that was interrupted at any instruction, and for as long as other
\* programs ran and were started, goes on with its own registers: all that the
\* layouts of two C structures and three assembly routines carry through, which
\* is all but ebp and the flags (idt.asm:49-102, task.asm:9-63, task.c:118-132).
ResumesAsItWas ==
  \A r \in Register \ {"ebp", "flags"} : cpu[r] = expected[current][r]

\* A program that waits has in task->registers what it had when it lost the
\* CPU, all twelve: task_save_state itself forgets nothing.
SavedAsItWas ==
  \A t \in started \ {current} : \A r \in Register :
    Field(registers[t], RegistersLayout, r) \in
      {expected[t][r]} \cup (IF r \in {"ebp", "flags"} THEN {Kernel} ELSE {})

\* A function of the library gets what it is for: its number leads to the kernel
\* function of that meaning, which reads its arguments from the stack as the
\* caller has it at the call, whatever was saved of the caller before
\* (mutitaskos.asm, isr80h.h:4-16, isr80h.c:8-21, idt.c:137-166, task.c:245-260).
CallsArrive ==
  [][ served'.by \in DOMAIN Library =>
        /\ served'.function = Meaning[served'.by]
        /\ served'.stack = cpu["esp"] ]_vars
=============================================================================
