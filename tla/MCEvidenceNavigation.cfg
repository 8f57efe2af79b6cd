SPECIFICATION NavSpec
CONSTANTS
  Ids = {1, 2, 3, 4}
  Hierarchies <- MCHierarchies
INVARIANTS
  UniqueIdsNeedNoGuard
  TreeShowsGrounded
  ListingIsExact
  OfferedIsInTree
PROPERTIES
  TraversalEnds
CHECK_DEADLOCK FALSE
