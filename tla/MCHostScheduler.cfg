CONSTANTS
  w1 = w1
  w2 = w2
  w3 = w3
  na = na
  nb = nb
  Workers = {w1, w2, w3}
  Namespaces = {na, nb}
  MaxReads = 3
  Loads <- MCLoads
  MaxRequests = 4
  NoOne = NoOne
SPECIFICATION Spec
INVARIANTS
  PermitsExact
  SnapshotsHold
  AheadIsOwned
  SplitExcludesPending
PROPERTIES
  EveryRequestEnds
  WritersNotStarved
CHECK_DEADLOCK FALSE
