\* Two processes, tables of two entries and a heap of four blocks, so that
\* either can be exhausted first, also in the middle of a list of arguments.
CONSTANTS
  Process = {p1, p2}
  MaxAllocations = 2
  Blocks = 4
  PageSize = 4
  Sizes = {4, 5}
  PointerSize = 3
  ArgumentSize = 1
  MaxArguments = 2
SPECIFICATION Spec
SYMMETRY Slots
INVARIANTS TypeOK TablesAreHeap OwnIsWritable
PROPERTY ArgumentsComplete
