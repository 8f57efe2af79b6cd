SPECIFICATION Spec
CONSTANTS
  InodesPerGroup = 4
  Groups = 3
  MaxTreeDepth = 3
  SectorsPerBlock = 2
  Names = {".", "..", "", "d", "e", "f", "g", "h", "o", "r", "s", "u", "w", "x", "z"}
  Dots = {".", "..", ""}
  InodeName <- MCInodeName
  Volumes <- MCVolumes
INVARIANTS
  NamedInodesAreListed
  ScannedNamesAreRemnants
  ContentFollowsExtents
PROPERTIES
  KeepsPromiseAndEnds
CHECK_DEADLOCK FALSE
