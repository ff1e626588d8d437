----------------------------- MODULE Interrupts -----------------------------
(***************************************************************************)
(* The tables that lead from an interrupt or a command to the function     *)
(* that handles it (src/idt/idt.c, src/idt/idt.asm,                        *)
(* src/isr80h/isr80h.c), as they are once the kernel has started, and the  *)
(* numbers that the library of the programs puts in eax                    *)
(* (programs/stdlib/mutitaskos.asm).                                       *)
(*                                                                         *)
(* idt_init gives lidt the size of a descriptor of the table (6 bytes) for *)
(* that of the table; the modules are about a kernel that gives it the     *)
(* size of the table.                                                      *)
(***************************************************************************)
EXTENDS Integers, Sequences

TOTAL_INTERRUPTS == 512
MAX_ISR80H_COMMANDS == 1024
Vector == 0 .. TOTAL_INTERRUPTS - 1

Null == "null"

\* idt_init: idt_descriptors[], by the entry point that a vector leads to. Every
\* wrapper of the macro "interrupt" calls interrupt_handler with its number.
IdtDescriptors ==
  [[v \in Vector |-> "interrupt_handler"] EXCEPT ![0] = "idt_zero", ![128] = "isr80h_wrapper"]

\* idt_register_interrupt_callback.
Registered(callbacks, interrupt, callback) ==
  IF interrupt \in Vector THEN [callbacks EXCEPT ![interrupt] = callback] ELSE callbacks

\* interrupt_callbacks[], after idt_init and classic_keyboard_init.
InterruptCallbacks ==
  LET exceptions == [v \in Vector |-> IF v < 32 THEN "idt_handle_exception" ELSE Null]
  IN  Registered(Registered(exceptions, 32, "idt_clock"), 33, "classic_keyboard_handle_interrupt")

\* Does a vector lead to a callback by way of interrupt_handler?
LeadsTo(v, callback) ==
  IdtDescriptors[v] = "interrupt_handler" /\ InterruptCallbacks[v] = callback

\* isr80h_register_commands: the commands from 0 on.
Isr80hCommands ==
  <<"sum", "print", "getkey", "putchar", "malloc", "free", "process_load_start",
    "invoke_system_command", "get_program_arguments", "exit">>

\* isr80h_handle_command: the function, or Null for a command that is out of
\* range or that nobody registered.
\* Variant: the commands are counted from 1.
CommandFunction_FromOne(command) ==
  IF command \in 0 .. MAX_ISR80H_COMMANDS - 1 /\ command \in DOMAIN Isr80hCommands
  THEN Isr80hCommands[command] ELSE Null

CommandFunction(command) ==
  IF command \in 0 .. MAX_ISR80H_COMMANDS - 1 /\ command + 1 \in DOMAIN Isr80hCommands
  THEN Isr80hCommands[command + 1] ELSE Null

\* The functions of the library that enter the kernel, and their numbers.
Library ==
  [print |-> 1, multitaskos_getkey |-> 2, multitaskos_putchar |-> 3, multitaskos_malloc |-> 4,
   multitaskos_free |-> 5, multitaskos_process_load_start |-> 6, multitaskos_system |-> 7,
   multitaskos_process_get_arguments |-> 8, multitaskos_exit |-> 9]

\* What each of them is for, by the comments on them and by their callers.
Meaning ==
  [print |-> "print", multitaskos_getkey |-> "getkey", multitaskos_putchar |-> "putchar",
   multitaskos_malloc |-> "malloc", multitaskos_free |-> "free",
   multitaskos_process_load_start |-> "process_load_start",
   multitaskos_system |-> "invoke_system_command",
   multitaskos_process_get_arguments |-> "get_program_arguments", multitaskos_exit |-> "exit"]
=============================================================================
