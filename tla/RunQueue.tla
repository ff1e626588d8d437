---------------------------- MODULE RunQueue ----------------------------
(***************************************************************************)
(* Queues of tasks as sequences: the vocabulary in which the abstract      *)
(* scheduler RoundRobin is written, and in which the history kept beside   *)
(* the pointers of task.c says what the pointers should mean.              *)
(***************************************************************************)
EXTENDS Integers, SequencesExt

Position(q, t) == CHOOSE i \in DOMAIN q : q[i] = t

\* The task whose turn comes after t's: the next one, or the first.
TurnAfter(q, t) ==
  LET i == Position(q, t)
  IN  IF i = Len(q) THEN q[1] ELSE q[i + 1]

Without(q, t) == RemoveAt(q, Position(q, t))

\* The task that stands directly behind t, as a set: empty for the last one.
Behind(q, t) ==
  {q[j] : j \in {i \in DOMAIN q : i # 1 /\ q[i - 1] = t}}
=============================================================================
