---------------------------- MODULE Scheduler ----------------------------
(***************************************************************************)
(* Which task has the CPU (src/task/task.c, src/idt/idt.c,                 *)
(* src/isr80h/process.c, and the end of kernel_main).                      *)
(*                                                                         *)
(* Every interrupt gate is built with type 0xEE, an interrupt gate, and    *)
(* task_return sets IF for user mode, so a handler of the kernel is never  *)
(* interrupted and is one step here.  Which step comes next is up to the   *)
(* running program and to the timer.                                       *)
(*                                                                         *)
(* kzalloc is used by its contract: it returns memory that is not in use,  *)
(* possibly an address that was in use before.                             *)
(***************************************************************************)
EXTENDS TaskList, RunQueue, FiniteSets

CONSTANTS
  MaxProcesses,   \* MULTITASK_OS_KERNELSHELL_MAX_PROCESSES
  BootTasks       \* the programs kernel_main loads before the first one runs

ASSUME BoundsAssumption == MaxProcesses \in Nat /\ BootTasks \in Nat \ {0}

VARIABLES
  list,      \* task_head, task_tail, current_task and the links of the tasks
  live,      \* the addresses that hold an allocated struct task
  phase,     \* "boot": kernel_main; "user": a program runs; "panic": panic()
             \* loops for ever; "undefined": the CPU runs what is no task
  (* History, never read by the actions: what the pointers ought to mean. *)
  queue,     \* the live tasks in the order of their creation
  orphans,   \* the live tasks whose predecessor in queue has been freed
  sound      \* no task has been freed while it was an orphan

machine == <<list, live, phase>>
history == <<queue, orphans, sound>>
vars == <<list, live, phase, queue, orphans, sound>>

Init ==
  /\ list = EmptyList /\ live = {} /\ phase = "boot"
  /\ queue = <<>> /\ orphans = {} /\ sound = TRUE

-----------------------------------------------------------------------------
\* task_return to the current task of list l: a program runs, unless that
\* address holds no task.
Resumed(l, tasks) == IF l.current \in tasks THEN "user" ELSE "undefined"

\* The allocation and the history of task_new.
Allocate(t) ==
  /\ t \notin live
  /\ live' = live \cup {t}
  /\ queue' = Append(queue, t)
  /\ UNCHANGED <<orphans, sound>>

\* Back to the caller through task_page, which switches to current_task: the
\* interrupted program goes on only if that is still its task.  At boot there
\* is no program to go back to.
Returned(l) ==
  IF phase = "boot" \/ l.current = list.current THEN phase ELSE "undefined"

\* A task is loaded and the task that had the CPU goes on: process_load at
\* boot, and command 7 when it cannot pass the arguments on.
Spawn(t) ==
  /\ Allocate(t)
  /\ list' = TaskNew(list, t)
  /\ phase' = Returned(list')

\* A task is loaded and started at once: commands 6 and 7.
Exec(t) ==
  /\ Allocate(t)
  /\ list' = TaskSwitch(TaskNew(list, t), t)
  /\ phase' = phase

\* The task is made, then process_map_memory fails: process_load_for_slot
\* frees it again and the caller gets an error.
FailToMap(t) ==
  /\ t \notin live
  /\ list' = TaskListRemove(TaskNew(list, t), t)
  /\ phase' = Returned(list')
  /\ UNCHANGED <<live, history>>

\* What task_free leaves allocated.
\* Variant: it frees the task that current_task has moved on to.
Kept_WrongTask(t) == live \ {TaskListRemove(list, t).current}

Kept(t) == live \ {t}

\* process_terminate of the running program: task_free, then either the
\* panic of process_switch_to_any (halts) or task_next.
Terminate(t, halts) ==
  LET freed == TaskListRemove(list, t)
      after == IF halts \/ freed.current = NULL THEN freed ELSE TaskNext(freed)
  IN  /\ live' = Kept(t)
      /\ list' = after
      /\ phase' = IF halts THEN "panic" ELSE Resumed(after, live')
      /\ queue' = Without(queue, t)
      /\ orphans' = (orphans \cup Behind(queue, t)) \ {t}
      /\ sound' = (sound /\ t \notin orphans)

-----------------------------------------------------------------------------
\* kernel_main loads its programs, and panics if one cannot be loaded.
BootLoad(t) ==
  /\ phase = "boot" /\ Cardinality(live) < BootTasks
  /\ Spawn(t)

BootFail ==
  /\ phase = "boot" /\ Cardinality(live) < BootTasks
  /\ phase' = "panic"
  /\ UNCHANGED <<list, live, history>>

\* task_run_first_ever_task.
RunFirst ==
  /\ phase = "boot" /\ Cardinality(live) = BootTasks
  /\ list' = TaskSwitch(list, list.head)
  /\ phase' = Resumed(list', live)
  /\ UNCHANGED <<live, history>>

\* idt_clock.
Tick ==
  /\ phase = "user"
  /\ list' = TaskNext(list)
  /\ phase' = Resumed(list', live)
  /\ UNCHANGED <<live, history>>

HasSlot == Cardinality(live) < MaxProcesses

StartProgram(t) == phase = "user" /\ HasSlot /\ Exec(t)

StartFails(t) == phase = "user" /\ HasSlot /\ (Spawn(t) \/ FailToMap(t))

\* Command 9, and any exception the program raises.
Exit ==
  /\ phase = "user"
  /\ Terminate(list.current, live = {list.current})

Next ==
  \/ BootFail \/ RunFirst \/ Tick \/ Exit
  \/ \E t \in Task : BootLoad(t) \/ StartProgram(t) \/ StartFails(t)

Spec == Init /\ [][Next]_vars

\* The PIT interrupts for ever, and interrupts are enabled in user mode.
FairSpec == Spec /\ WF_vars(Tick)

-----------------------------------------------------------------------------
(* What the pointers of a list l mean: they represent the queue q, except   *)
(* that nothing is known of the prev pointers of the tasks in o.            *)

EndsMatch(l, q) ==
  IF q = <<>>
    THEN l.head = NULL /\ l.tail = NULL
    ELSE l.head = q[1] /\ l.tail = q[Len(q)]

NextMatches(l, q) ==
  \A i \in DOMAIN q : l.next[q[i]] = IF i = Len(q) THEN NULL ELSE q[i + 1]

PrevMatches(l, q, o) ==
  \A i \in DOMAIN q :
    q[i] \notin o => l.prev[q[i]] = IF i = 1 THEN NULL ELSE q[i - 1]

Represents(l, q, o) == EndsMatch(l, q) /\ NextMatches(l, q) /\ PrevMatches(l, q, o)

\* No task is queued twice.
Distinct(q) == \A i, j \in DOMAIN q : q[i] = q[j] => i = j

\* The pointers have their types, and the queue of the history is exactly the
\* allocated tasks, each once (task_new and task_free account for every task).
TypeOK ==
  /\ list \in TaskLists
  /\ live \in SUBSET Task
  /\ phase \in {"boot", "user", "panic", "undefined"}
  /\ queue \in Seq(Task) /\ ToSet(queue) = live /\ Distinct(queue)
  /\ orphans \in SUBSET live
  /\ sound \in BOOLEAN

\* However programs are loaded, run and exit: as long as no task has been
\* freed after its predecessor was (task_list_remove, task.c:76-97), the
\* doubly linked list is the queue of the live tasks in the order of loading,
\* and the prev pointers of all tasks that are no orphans are right.
ListIsQueue == sound => Represents(list, queue, orphans)

\* Under the same condition the CPU is never given to something that is not
\* an allocated task, by no sequence of ticks, loads, failed loads and exits
\* (task_next after idt_clock, command 9 or an exception; task.c:65-115).
RunsATask ==
  /\ sound => phase # "undefined"
  /\ phase = "user" => list.current \in live

\* Even in a list that is no longer sound, task_new does not write through a
\* null task_tail (task.c:51-53): only an empty list has none.
TailIfHead == phase = "user" => (list.tail = NULL => list.head = NULL)

\* The scheduler implements the round robin of RoundRobin.tla.
Mode ==
  IF ~sound THEN "lost"
  ELSE CASE phase = "boot" -> "boot" [] phase = "user" -> "run"
         [] phase = "panic" -> "halted" [] OTHER -> "lost"

Running == IF Mode = "run" THEN list.current ELSE NULL

RR == INSTANCE RoundRobin WITH Nobody <- NULL, running <- Running, mode <- Mode

\* Every step of the pointer code is a step of the abstract round robin, or
\* changes nothing that it can see.
RoundRobinSpec == RR!Spec

\* Every task that stays loaded gets the CPU again and again, once programs
\* have stopped to be loaded and to exit (while they do, an exit skips a task:
\* see RoundRobin.tla) and if the list was not corrupted before.
Settled == sound /\ phase = "user"

NoStarvation ==
  <>[][live' = live]_vars =>
    \A t \in Task :
      <>[](Settled /\ t \in live) => []<>(list.current = t)

\* "grab the next task, and execute it in linked list" (idt.c:74), which does
\* not hold once the list is not sound: that what is
\* executed is always a task of the list.
ExecutesATask == phase # "undefined"
=============================================================================
