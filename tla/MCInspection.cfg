SPECIFICATION Spec
CONSTANTS
  WordMax = 16383
  MinEntrySize = 48
  MaxEntrySize = 512
  MaxEntries = 3
  HalfMax = 255
  Fat32MinClusters = 4
  ImageFiles <- MCImageFiles
INVARIANTS
  ResultsBelongTogether
  EveryVolumeHasItsModel
  
  EngineFindsClusters
CHECK_DEADLOCK FALSE
