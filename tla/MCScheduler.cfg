\* All sequences of loads, failed loads, ticks and exits with up to four
\* addresses, so that an address is used again while others live.  A liveness
\* property is checked, so the addresses are not taken as symmetric.
CONSTANTS
  Task = {a1, a2, a3, a4}
  NULL = NULL
  MaxProcesses = 4
  BootTasks = 2
SPECIFICATION FairSpec
INVARIANTS TypeOK ListIsQueue RunsATask TailIfHead
PROPERTIES RoundRobinSpec NoStarvation
CHECK_DEADLOCK FALSE
