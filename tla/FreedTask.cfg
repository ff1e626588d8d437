\* The shortest program history after which the CPU runs a freed task.
CONSTANTS
  Task = {a1, a2, a3, a4}
  NULL = NULL
  MaxProcesses = 4
  BootTasks = 2
SPECIFICATION Spec
INVARIANT ExecutesATask
CHECK_DEADLOCK FALSE
