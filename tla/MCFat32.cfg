SPECIFICATION Spec
CONSTANTS
  Total = 4
  EndOfChain = 8
  Symbols = {"a", "b", "d", "e", "l", "p", "q", "r", "s", "v", "x", "z", "#", ".", "?", "erased"}
  Binary = {"#"}
  Dot = "."
  Erased = "erased"
  Placeholder = "?"
  FirstDataSector = 3
  SectorsPerCluster = 2
  Volumes <- MCVolumes
INVARIANTS
  ContentFollowsFat
  OnlyDamageFails
  
PROPERTIES
  KeepsPromise
  InvestigationEnds
CHECK_DEADLOCK FALSE
