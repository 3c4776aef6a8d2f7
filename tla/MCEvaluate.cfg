SPECIFICATION JoinSpec
CONSTANTS
  Kinds = {"order", "item"}
  Keys = {"a", "b"}
  Props = {"up", "amt"}
  Numbers <- MCNumbers
  Predicates <- MCPredicates
  Rank <- MCRank
  Offered <- MCOffered
  Descriptors <- MCDescriptors
  Requests <- MCRequests
  NoDescriptor = NoDescriptor
  NoPred = NoPred
  Absent = Absent
  HalfRange = 4
  LeafBudget = 2
  MaxCached = 1
  MaxWrites = 4
  Asks <- MCAsks
  NoRestriction = NoRestriction
  Refused = Refused
  DeclaredTypes <- MCTypes
  Parsed <- MCParsed
  HideKindsBound = 1
  HideIdentitiesBound = 1
  RowFilterValuesBound = 1
  RowFilterKindsBound = 1
  RowFilterTermsBound = 1
INVARIANT MeasuresExact
INVARIANT AnswersExact
INVARIANT DeniedUnseen
CHECK_DEADLOCK FALSE
