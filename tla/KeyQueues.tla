---------------------------- MODULE KeyQueues ----------------------------
(***************************************************************************)
(* What the keyboard promises to programs: what is typed goes to the       *)
(* process that has the focus, and each process reads its own keys, all of *)
(* them and in the order they were typed.  Focus and CPU may move at any   *)
(* time.  A process that leaves Capacity keys unread and gets one more is  *)
(* "overrun": nothing is promised to it any more.                          *)
(***************************************************************************)
EXTENDS Integers, Sequences

CONSTANTS Process, Char, Capacity, None

VARIABLES
  keys,      \* for each process, its unread keys; none once it is overrun
  overrun,   \* the processes that were overrun
  answer,    \* what the last getkey returned, 0 for no key
  focus,     \* the process that gets the keys, or None
  running    \* the process that has the CPU, or None

actors == <<focus, running>>
vars == <<keys, overrun, answer, actors>>

Init ==
  /\ keys = [p \in Process |-> <<>>] /\ overrun = {} /\ answer = 0
  /\ focus = None /\ running = None

Type(p, c) ==
  /\ p \notin overrun
  /\ \/ /\ Len(keys[p]) < Capacity
        /\ keys' = [keys EXCEPT ![p] = Append(@, c)]
        /\ UNCHANGED overrun
     \/ /\ Len(keys[p]) = Capacity
        /\ keys' = [keys EXCEPT ![p] = <<>>]
        /\ overrun' = overrun \cup {p}
  /\ UNCHANGED <<answer, actors>>

Read(p) ==
  /\ \/ /\ p \notin overrun /\ keys[p] # <<>>
        /\ answer' = Head(keys[p])
        /\ keys' = [keys EXCEPT ![p] = Tail(@)]
     \/ /\ p \notin overrun /\ keys[p] = <<>>
        /\ answer' = 0
        /\ UNCHANGED keys
     \/ /\ p \in overrun
        /\ answer' \in Char \cup {0}
        /\ UNCHANGED keys
  /\ UNCHANGED <<overrun, actors>>

Move ==
  /\ focus' \in Process \cup {None} /\ running' \in Process \cup {None}
  /\ UNCHANGED answer

\* A new program: it starts without keys, whatever its slot held before.
Begin(p) ==
  /\ keys' = [keys EXCEPT ![p] = <<>>]
  /\ overrun' = overrun \ {p}

Next ==
  \/ focus # None /\ \E c \in Char : Type(focus, c)
  \/ running # None /\ Read(running)
  \/ Move /\ (UNCHANGED <<keys, overrun>> \/ \E p \in Process : Begin(p))

Spec == Init /\ [][Next]_vars
=============================================================================
