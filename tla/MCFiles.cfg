\* Sectors of four bytes, clusters of two sectors, and reads that end before,
\* at and behind the ends of both; three descriptors, of which two are usable;
\* memory that ends in the path, in the item, in its clone and nowhere.
CONSTANTS
  SectorSize = 4
  ReservedSectors = 1
  FatCopies = 1
  SectorsPerFat = 3
  RootDirEntries = 4
  SectorsPerCluster = 2
  ItemSize = 2
  NameLength = 2
  MaxPath = 8
  MaxDescriptors = 3
  Opens <- SmallOpens
  Memory = {4, 5, 9}
  Lengths = {0, 3, 8}
  MaxPosition = 3
  Images <- SmallImages
SPECIFICATION Spec
INVARIANTS TypeOK ReadsFirstCluster PathIsParsed OpenFilesAreWhole
PROPERTIES OpenGivesTheFile HandlesAreStable
CHECK_DEADLOCK FALSE
