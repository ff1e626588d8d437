----------------------------- MODULE Keyboard -----------------------------
(***************************************************************************)
(* The keyboard (src/keyboard/keyboard.c, src/keyboard/classic.c) together *)
(* with the kernel whose focus it follows.  A key goes to the process that *)
(* has the focus; command 2 reads for the process that runs.  The two are  *)
(* different processes as soon as the timer ticks.                         *)
(*                                                                         *)
(* A slot of the process table stands for the process in it, so the buffer *)
(* of a slot is cleared when a program is loaded into it.  keyboard_push   *)
(* is reached only from the interrupt, hence only while a program runs.    *)
(***************************************************************************)
EXTENDS Kernel, KeyboardRing

CONSTANTS
  ScanSet,       \* keyboard_scan_set_one, a function from codes to characters
  CapsLock,      \* CLASSIC_KEYBOARD_CAPSLOCK
  BeyondTable    \* the bytes that may stand in memory behind the table

ScanSize == Cardinality(DOMAIN ScanSet)

ASSUME ScanAssumption ==
  ScanSize \in Nat /\ DOMAIN ScanSet = 0 .. ScanSize - 1 /\ CapsLock \in Nat

VARIABLES
  keyboard,   \* process->keyboard, by the slot of the process
  capslock,   \* classic_keyboard.capslock_state = KEYBOARD_CAPS_LOCK_ON
  answer,     \* what the last command 2 returned
  overrun     \* History: slots that got a key while BufferSize were unread

keys == <<keyboard, capslock, answer, overrun>>
keyboardVars == <<kernelVars, keys>>

KeyboardInit ==
  /\ KernelInit
  /\ keyboard = [s \in Slots |-> EmptyRing]
  /\ capslock = FALSE          \* classic_keyboard_init
  /\ answer = 0 /\ overrun = {}

-----------------------------------------------------------------------------
\* With caps lock off, upper case letters of the table become lower case.
Cased(c, caps) == IF ~caps /\ c \in 65 .. 90 THEN c + 32 ELSE c

\* classic_keyboard_scancode_to_char.  The code that is equal to the size of
\* the table passes the check and reads the byte behind the table.
Characters(code, caps) ==
  IF code > ScanSize THEN {0}
  ELSE IF code = ScanSize THEN {Cased(c, caps) : c \in BeyondTable}
  ELSE {Cased(ScanSet[code], caps)}

\* keyboard_push.
Deliver(c) ==
  IF c = 0 \/ current_process = None
    THEN UNCHANGED <<keyboard, overrun>>
    ELSE LET r == keyboard[current_process]
         IN  /\ keyboard' = [keyboard EXCEPT ![current_process] = Push(r, c)]
             /\ overrun' = IF Unread(r) = BufferSize
                             THEN overrun \cup {current_process} ELSE overrun

\* clasic_keyboard_handle_interrupt for a key that is pressed; one that is
\* released has no effect.
KeyPress(code) ==
  /\ phase = "user"
  /\ capslock' = (capslock # (code = CapsLock))
  /\ \E c \in Characters(code, capslock') : Deliver(c)
  /\ UNCHANGED <<kernelVars, answer>>

\* Command 2: keyboard_pop for the running program.
\* Variant: the key is taken from the process that has the focus.
Getkey_FromFocus ==
  /\ phase = "user"
  /\ answer' = Popped(keyboard[current_process])
  /\ keyboard' = [keyboard EXCEPT ![current_process] = Pop(@)]
  /\ UNCHANGED <<kernelVars, capslock, overrun>>

Getkey ==
  /\ phase = "user"
  /\ LET s == process[list.current]
     IN  /\ answer' = Popped(keyboard[s])
         /\ keyboard' = [keyboard EXCEPT ![s] = Pop(@)]
  /\ UNCHANGED <<kernelVars, capslock, overrun>>

\* process_init of the program that is being loaded.
ClearedBuffer ==
  /\ keyboard' = [keyboard EXCEPT ![FreeSlot] = EmptyRing]
  /\ overrun' = overrun \ {FreeSlot}
  /\ UNCHANGED <<capslock, answer>>

KeyboardNext ==
  \/ Getkey
  \/ \E code \in 0 .. ScanSize + 1 : KeyPress(code)
  \/ (BootFails \/ Run \/ ExitCommand) /\ UNCHANGED keys
  \/ \E t \in Task :
       \/ (LoadAtBoot(t) \/ StartCommand(t) \/ StartWithoutArguments(t))
            /\ ClearedBuffer
       \/ StartUnmapped(t) /\ UNCHANGED keys

KeyboardSpec == KeyboardInit /\ [][KeyboardNext]_keyboardVars

-----------------------------------------------------------------------------
\* Until it is overrun, the ring of every loaded process holds exactly its
\* unread keys, from head to tail, and zero in all other cells: a key is never
\* dropped, doubled or left behind, wherever the counters stand
\* (keyboard_push and keyboard_pop, keyboard.c:64-99).
RingIsQueue ==
  \A s \in Used(processes) \ overrun :
    LET r == keyboard[s]
    IN  /\ Unread(r) \in 0 .. BufferSize
        /\ \A i \in Cells :
             r.buffer[(r.head + i) % BufferSize] = 0 <=> i >= Unread(r)

\* The running process reads its own keys in the order of typing, and the one
\* with the focus gets them, whatever runs, has the focus or is loaded in
\* between: the abstract queues are implemented (keyboard_push, keyboard_pop).
Typed == {Cased(c, caps) : c \in {ScanSet[i] : i \in DOMAIN ScanSet} \cup BeyondTable,
                           caps \in BOOLEAN} \ {0}

KQ == INSTANCE KeyQueues WITH
        Process <- Slots, Char <- Typed, Capacity <- BufferSize,
        focus <- current_process,
        running <- IF phase = "user" THEN process[list.current] ELSE None,
        keys <- [s \in Slots |-> IF s \in overrun THEN <<>> ELSE Contents(keyboard[s])]

KeyQueuesSpec == KQ!Spec
=============================================================================
