SPECIFICATION EngineSpec
CONSTANTS
  U64Max = 15
  ImageSize = 7
  PartitionOffset = 1
  BytesPerSector = 2
  Entries <- MCEntries
INVARIANTS
  ExactReconstruction
PROPERTIES
  KeepsPromise
CHECK_DEADLOCK FALSE
