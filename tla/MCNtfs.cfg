SPECIFICATION Spec
CONSTANTS
  Base = 4
  WordBytes = 2
  RecordsPerCluster = 2
  RecordSize = 2
  SectorsPerCluster = 2
  Volumes <- MCVolumes
INVARIANTS
  NamesHaveTheirSlots
  
  
CHECK_DEADLOCK FALSE
