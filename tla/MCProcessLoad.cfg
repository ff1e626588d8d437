\* Two slots, four kinds of files, and memory for two programs, what malloc gives them and what
\* failed loads leave behind.
CONSTANTS
  MaxProcesses = 2
  PageSize = 4
  Blocks = 13
  Entries = 6
  File <- Files
  StackSize = 4
  StackEnd = 88
  MaxAllocations = 1
  MallocSizes = {3}
SPECIFICATION Spec
INVARIANTS TypeOK PartsAreOwned FilesAreClosed
  ProgramIsMapped WritesStayHome RangeCoversSegments
CHECK_DEADLOCK FALSE
