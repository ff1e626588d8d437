\* One file of two clusters, read as a whole.
CONSTANTS
  SectorSize = 4
  ReservedSectors = 1
  FatCopies = 1
  SectorsPerFat = 3
  RootDirEntries = 4
  SectorsPerCluster = 2
  ItemSize = 2
  NameLength = 2
  MaxPath = 8
  MaxDescriptors = 3
  Opens <- SmallOpens
  Memory = {9}
  Lengths = {0, 4, 12}
  MaxPosition = 4
  Images <- SmallImages
SPECIFICATION Spec
INVARIANT ReadsTheFile
CHECK_DEADLOCK FALSE
