\* One process and two blocks are enough.
CONSTANTS
  Process = {p1}
  MaxAllocations = 2
  Blocks = 2
  PageSize = 4
  Sizes = {4}
  PointerSize = 3
  ArgumentSize = 1
  MaxArguments = 1
SPECIFICATION Spec
INVARIANT WritableIsOwn
