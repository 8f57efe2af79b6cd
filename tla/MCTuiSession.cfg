SPECIFICATION FairSpec
CONSTANTS
  A = A
  B = B
  U = U
  None = None
  Images = {A, B, U}
  Supported = {A, B}
  Candidates <- MCCandidates
  MaxResults = 2
  Panics = TRUE
INVARIANTS
  ModeHasItsState
  RecoveryBelongsToResult
  ViewShowsItsResult
PROPERTIES
  AcceptedIsAnswered
  LoopEnds
CHECK_DEADLOCK FALSE
