SPECIFICATION Spec
CONSTANTS
  BaseNames = {"a", "b"}
  NoBase = "none"
  ObjectIds = {1, 2, 3}
  U64Max = 4095
  Inspections <- MCInspections
  Requests <- MCRequests
  EarlierFiles <- MCEarlierFiles
INVARIANT
  EveryDeletedAnswered
CHECK_DEADLOCK FALSE
