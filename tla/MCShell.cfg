\* A screen of three columns, lines of four characters, arguments of two; the
\* keys fill a line with one taken back, or make two lines.
CONSTANTS
  VGA_WIDTH = 3
  VGA_HEIGHT = 4
  Letter = {"a", "b"}
  PromptText <- Prompts
  LineSize = 5
  ArgumentSize = 3
  MaxAllocations = 3
  MaxKeys = 5
  Printfs <- SmallPrintfs
SPECIFICATION Spec
CHECK_DEADLOCK FALSE
INVARIANTS TypeOK LineIsEdited ScreenShowsLine ArgumentsAreWords PrintfPrints
