\* A heap of four blocks; the first request fails.
CONSTANTS
  total = 4
  BlockSize = 4
  saddr = 16
  Requests = {1, 5}
SPECIFICATION Spec
INVARIANT NullMeansFull
CHECK_DEADLOCK FALSE
