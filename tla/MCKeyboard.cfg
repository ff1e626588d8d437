\* Two programs, buffers of two characters, counters that wrap after four.
CONSTANTS
  Task = {a1, a2}
  NULL = NULL
  None = None
  MaxProcesses = 2
  BootTasks = 2
  BufferSize = 2
  IntRange = 4
  ScanSet <- SmallScanSet
  CapsLock = 2
  BeyondTable = {0, 65}
SPECIFICATION KeyboardSpec
SYMMETRY Addresses
CONSTRAINT OneOverrun
INVARIANT RingIsQueue
PROPERTY KeyQueuesSpec
CHECK_DEADLOCK FALSE
