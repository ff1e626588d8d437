------------------------------ MODULE Kernel ------------------------------
(***************************************************************************)
(* The process table (src/task/process.c) on top of the scheduler: which   *)
(* slot a program is loaded into, which process has the keyboard, and what *)
(* becomes of both when a program exits.                                   *)
(*                                                                         *)
(* A process has exactly one task for as long as it is loaded, so a slot   *)
(* of processes[] holds the address of that task, and task->process is     *)
(* represented by the slot that process->id names.                         *)
(***************************************************************************)
EXTENDS Scheduler

CONSTANT None       \* no slot: the null pointer in current_process

Slots == 0 .. MaxProcesses - 1

ASSUME NoneIsNoSlot == None \notin Slots

VARIABLES
  processes,        \* processes[]: a task address, or NULL for a free slot
  current_process,  \* the process that keyboard_push delivers to
  process           \* task->process, for every address a task can have

table == <<processes, current_process, process>>
kernelVars == <<vars, table>>

KernelInit ==
  /\ Init
  /\ processes = [s \in Slots |-> NULL]
  /\ current_process = None
  /\ process = [t \in Task |-> None]

Free(p) == {s \in Slots : p[s] = NULL}
Used(p) == Slots \ Free(p)

-----------------------------------------------------------------------------
\* process_get_free_slot, and the stores of process_load_for_slot that succeed.
\* Variant: the slots are not looked at.
FreeSlot_First == 0

FreeSlot == Min(Free(processes))

Enter(t) ==
  /\ Free(processes) # {}
  /\ processes' = [processes EXCEPT ![FreeSlot] = t]
  /\ process' = [process EXCEPT ![t] = FreeSlot]

\* process_switch to the process just loaded (process_load_switch).
SwitchToLoaded == current_process' = FreeSlot

\* process_switch_to_any chooses from what process_unlink has left.
SwitchToAny(p) == IF Used(p) = {} THEN current_process ELSE Min(Used(p))

\* process_unlink for slot s: the process leaves the table, and if it had the
\* keyboard some other process gets it.
\* Variant: the keyboard stays with the process that left.
Unlink_KeepsFocus(s) ==
  /\ processes' = [processes EXCEPT ![s] = NULL]
  /\ UNCHANGED <<current_process, process>>

\* Variant: the keyboard moves whichever process leaves.
Unlink_MovesFocus(s) ==
  LET rest == [processes EXCEPT ![s] = NULL]
  IN  /\ processes' = rest
      /\ current_process' = SwitchToAny(rest)
      /\ UNCHANGED process

Unlink(s) ==
  LET rest == [processes EXCEPT ![s] = NULL]
  IN  /\ processes' = rest
      /\ current_process' =
           IF current_process = s THEN SwitchToAny(rest) ELSE current_process
      /\ UNCHANGED process

\* panic("No processes to switch too").
\* Variant: the search starts behind the first slot.
NothingLeft_SkipsFirst(s) ==
  current_process = s /\ Used(processes) \subseteq {0, s}

NothingLeft(s) == current_process = s /\ Used(processes) \subseteq {s}

-----------------------------------------------------------------------------
\* kernel_main: all but the last program are loaded with process_load.
LoadAtBoot(t) ==
  /\ phase = "boot" /\ Cardinality(live) < BootTasks
  /\ Spawn(t) /\ Enter(t)
  /\ IF Cardinality(live) + 1 = BootTasks
       THEN SwitchToLoaded ELSE UNCHANGED current_process

BootFails == BootFail /\ UNCHANGED table

Run == (RunFirst \/ Tick) /\ UNCHANGED table

\* Commands 6 and 7.
StartCommand(t) ==
  /\ phase = "user"
  /\ Exec(t) /\ Enter(t) /\ SwitchToLoaded

\* Command 7 when process_inject_arguments fails: the error goes back to the
\* caller, while the program stays loaded and keeps the keyboard.
StartWithoutArguments(t) ==
  /\ phase = "user"
  /\ Spawn(t) /\ Enter(t) /\ SwitchToLoaded

\* The error path of process_load_for_slot after task_new.
StartUnmapped(t) ==
  /\ phase = "user" /\ Free(processes) # {}
  /\ FailToMap(t)
  /\ UNCHANGED table

\* Command 9 and idt_handle_exception: process_terminate, then task_next.
ExitCommand ==
  /\ phase = "user"
  /\ LET s == process[list.current]
     IN  Terminate(list.current, NothingLeft(s)) /\ Unlink(s)

KernelNext ==
  \/ BootFails \/ Run \/ ExitCommand
  \/ \E t \in Task :
       \/ LoadAtBoot(t) \/ StartCommand(t)
       \/ StartWithoutArguments(t) \/ StartUnmapped(t)

KernelSpec == KernelInit /\ [][KernelNext]_kernelVars

-----------------------------------------------------------------------------
\* The process table, the back pointers of the tasks and the allocated tasks
\* tell the same story: every loaded program has exactly one slot, and no slot
\* outlives its task (process_load_for_slot and process_unlink, process.c).
TableIsLive ==
  /\ processes \in [Slots -> Pointer]
  /\ process \in [Task -> Slots \cup {None}]
  /\ current_process \in Slots \cup {None}
  /\ {processes[s] : s \in Used(processes)} = live
  /\ \A t \in live : process[t] \in Slots /\ processes[process[t]] = t

\* While programs run, keys always have a loaded process to go to, whichever
\* of the programs exits and wherever the CPU goes next (process_unlink and
\* process_switch_to_any, process.c:172-197).
FocusIsLoaded == phase = "user" => current_process \in Used(processes)

\* A program takes the keyboard only by being started or because the process
\* that had it has exited: no exit of another process and no tick moves it.
FocusMovesForAReason ==
  [][ current_process' # current_process =>
        \/ \E t \in live' \ live : process'[t] = current_process'
        \/ processes'[current_process] = NULL ]_kernelVars

\* With the table deciding when to panic and where a program fits, every step
\* is a step of the scheduler, which panics at an exit exactly when the
\* program was the last one and starts programs only below MaxProcesses.  So
\* task_next is never reached with an empty list.
SchedulerSpec == Spec
=============================================================================
