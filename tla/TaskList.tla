---------------------------- MODULE TaskList ----------------------------
(***************************************************************************)
(* The kernel's list of tasks (src/task/task.c): the pointers task_head,   *)
(* task_tail and current_task, and the next and prev pointers stored in    *)
(* the task structures themselves.  The state of the list is one record,   *)
(* so that each C function is an operator from records to records.         *)
(*                                                                         *)
(* "next" and "prev" are defined on every address a task can have, also    *)
(* on those that are not allocated: freeing a task does not erase its      *)
(* memory, and the code may still reach it through a stale pointer.        *)
(***************************************************************************)
CONSTANTS
  Task,     \* the heap addresses a struct task can have
  NULL      \* the null pointer

ASSUME NullIsNoTask == NULL \notin Task

Pointer == Task \cup {NULL}

\* task_head, task_tail, current_task and the links, as C types them.
TaskLists ==
  [ head : Pointer, tail : Pointer, current : Pointer,
    next : [Task -> Pointer], prev : [Task -> Pointer] ]

\* The globals before the first task_new: three null pointers.
EmptyList ==
  [ head |-> NULL, tail |-> NULL, current |-> NULL,
    next |-> [t \in Task |-> NULL], prev |-> [t \in Task |-> NULL] ]

-----------------------------------------------------------------------------
(* A definition marked "Variant" is the definition below it with a plausible *)
(* mistake in it.  Nothing uses it: it is kept to show that some property    *)
(* notices the mistake (PROJECT.json says which).                            *)

\* task_new and task_init once kzalloc has returned t: the structure is
\* cleared, then linked behind the tail.
Cleared(l, t) == [l EXCEPT !.next[t] = NULL, !.prev[t] = NULL]

\* Variant: the line task->prev = task_tail is missing.
TaskNew_NoPrev(l, t) ==
  LET z == Cleared(l, t)
  IN  IF z.head = NULL
        THEN [z EXCEPT !.head = t, !.tail = t, !.current = t]
        ELSE [z EXCEPT !.next[z.tail] = t, !.tail = t]

TaskNew(l, t) ==
  LET z == Cleared(l, t)
  IN  IF z.head = NULL
        THEN [z EXCEPT !.head = t, !.tail = t, !.current = t]
        ELSE [z EXCEPT !.next[z.tail] = t, !.prev[t] = z.tail, !.tail = t]

\* Variant: the end of the list does not lead back to its head.
TaskGetNext_NoWrap(l) ==
  IF l.next[l.current] = NULL THEN l.current ELSE l.next[l.current]

\* task_get_next: the next pointer of the current task, or the head.
TaskGetNext(l) ==
  IF l.next[l.current] = NULL THEN l.head ELSE l.next[l.current]

\* The four steps of task_list_remove, each a step of the C function.
Unlinked(l, t) ==
  IF l.prev[t] = NULL THEN l ELSE [l EXCEPT !.next[l.prev[t]] = l.next[t]]

\* Variant: task_head is not moved.
HeadFixed_Kept(l, t) == l

HeadFixed(l, t) ==
  IF t = l.head THEN [l EXCEPT !.head = l.next[t]] ELSE l

\* Variant: the new tail is looked for behind the removed task.
TailFixed_Next(l, t) ==
  IF t = l.tail THEN [l EXCEPT !.tail = l.next[t]] ELSE l

TailFixed(l, t) ==
  IF t = l.tail THEN [l EXCEPT !.tail = l.prev[t]] ELSE l

\* Variant: current_task is left at the removed task.
CurrentFixed_Kept(l, t) == l

CurrentFixed(l, t) ==
  IF t = l.current THEN [l EXCEPT !.current = TaskGetNext(l)] ELSE l

TaskListRemove(l, t) ==
  CurrentFixed(TailFixed(HeadFixed(Unlinked(l, t), t), t), t)

\* task_switch: the task that the CPU runs from now on.
TaskSwitch(l, t) == [l EXCEPT !.current = t]

\* task_next is declared in task.h and called by idt_clock, by command 9 and
\* by the exception handler, but its body is not in the repository.  External:
\* it switches to task_get_next() and never returns to its caller.
TaskNext(l) == TaskSwitch(l, TaskGetNext(l))
=============================================================================
