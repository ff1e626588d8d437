---------------------------- MODULE RoundRobin ----------------------------
(***************************************************************************)
(* What the task scheduler promises ("Round-robin task scheduler (100 Hz   *)
(* PIT)" in the repository's README), without pointers: the loaded tasks   *)
(* form a queue in the order of their loading, and the CPU goes round it.  *)
(*                                                                         *)
(* Two things are weaker than the word round-robin, because the code is:   *)
(*  - an exit gives the CPU to the second task after the one that left,    *)
(*    since task_list_remove has already moved current_task to the first;  *)
(*  - task_list_remove does not repair the prev pointer of the task behind *)
(*    the one it removes.  Such a task is "orphaned", and once an orphaned *)
(*    task leaves nothing is promised any more (Lost).                     *)
(***************************************************************************)
EXTENDS RunQueue

CONSTANTS Task, Nobody

VARIABLES
  queue,      \* the loaded tasks, in the order of their loading
  running,    \* the task that has the CPU, or Nobody
  orphans,    \* the tasks that stood behind a task that has left
  mode        \* "boot", "run", "halted" or "lost"

vars == <<queue, running, orphans, mode>>

Init ==
  /\ queue = <<>> /\ running = Nobody /\ orphans = {}
  /\ mode = "boot"

\* A task is loaded behind all others and does not get the CPU.
Load(t) ==
  /\ mode \in {"boot", "run"}
  /\ t \notin ToSet(queue)
  /\ queue' = Append(queue, t)
  /\ UNCHANGED <<running, orphans, mode>>

Start ==
  /\ mode = "boot" /\ queue # <<>>
  /\ running' = queue[1] /\ mode' = "run"
  /\ UNCHANGED <<queue, orphans>>

\* A clock tick: the CPU goes to the next task of the round.
Slice ==
  /\ mode = "run"
  /\ running' = TurnAfter(queue, running)
  /\ UNCHANGED <<queue, orphans, mode>>

\* A loaded task starts at once (commands 6 and 7).
LoadAndRun(t) ==
  /\ mode = "run" /\ t \notin ToSet(queue)
  /\ queue' = Append(queue, t) /\ running' = t
  /\ UNCHANGED <<orphans, mode>>

Leave ==
  /\ mode = "run"
  /\ queue' = Without(queue, running)
  /\ orphans' = (orphans \cup Behind(queue, running)) \ {running}
  /\ \/ /\ running \notin orphans
        /\ Len(queue) > 1
        /\ running' = TurnAfter(queue', TurnAfter(queue, running))
        /\ mode' = mode
     \/ /\ running \notin orphans
        /\ Len(queue) = 1
        /\ running' = Nobody /\ mode' = "halted"
     \/ /\ running \in orphans
        /\ running' = Nobody /\ mode' = "lost"

Halt ==
  /\ mode = "boot"
  /\ running' = Nobody /\ mode' = "halted"
  /\ UNCHANGED <<queue, orphans>>

Lost ==
  /\ mode = "lost" /\ mode' = "lost"
  /\ running' = Nobody

Next ==
  \/ Start \/ Slice \/ Leave \/ Halt \/ Lost
  \/ \E t \in Task : Load(t) \/ LoadAndRun(t)

Spec == Init /\ [][Next]_vars
=============================================================================
