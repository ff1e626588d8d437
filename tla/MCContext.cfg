\* Three programs, whose registers change; an exception that is handled
\* and one that is not, the timer, the keyboard, an interrupt for nobody; the
\* commands that the library has no function for.
CONSTANTS
  Task = {t1, t2, t3}
  MaxVersion = 1
  Vectors = {0, 14, 32, 33, 34}
  Commands <- OtherCommands
SPECIFICATION Spec
SYMMETRY Tasks
INVARIANTS TypeOK ResumesAsItWas SavedAsItWas
PROPERTY CallsArrive
CHECK_DEADLOCK FALSE
