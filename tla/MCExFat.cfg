SPECIFICATION Spec
CONSTANTS
  Total = 4
  EndOfChain = 8
  Symbols = {"a", "b", "d", "e", "g", "l", "p", "q", "r", "s", "v", "x", "y", "z", "?"}
  Placeholder = "?"
  NameUnits = 2
  FirstDataSector = 3
  SectorsPerCluster = 2
  Volumes <- MCVolumes
INVARIANTS
  ContentFollowsFat
  OnlyDamageFails
  WholeRecordsAreTaken
  PathsFollowParents
PROPERTIES
  KeepsPromise
  InvestigationEnds
CHECK_DEADLOCK FALSE
