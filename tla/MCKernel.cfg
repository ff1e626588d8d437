\* Three slots and four addresses: the table fills up, slots and addresses
\* are reused, and the last program exits.
CONSTANTS
  Task = {a1, a2, a3, a4}
  NULL = NULL
  None = None
  MaxProcesses = 3
  BootTasks = 2
SPECIFICATION KernelSpec
SYMMETRY Addresses
INVARIANTS TableIsLive FocusIsLoaded
PROPERTIES SchedulerSpec FocusMovesForAReason
CHECK_DEADLOCK FALSE
