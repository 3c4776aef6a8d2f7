SPECIFICATION TuningSpec
CONSTANTS
  Kinds = {"order", "item"}
  Keys = {"a", "b", "c"}
  Props = {"up", "amt"}
  Numbers <- MCNumbers
  Predicates <- MCPredicates
  Rank <- MCRank
  Offered <- MCOffered
  Descriptors <- MCDescriptors
  Requests <- MCRequests
  Seeds <- MCSeeds
  Budgets = {1}
  NoDescriptor = NoDescriptor
  NoPred = NoPred
  Absent = Absent
  HalfRange = 8
  LeafBudget = 1
  MaxCached = 1
  MaxWrites = 1
  MeasureBytes = 1
  MaxSamples = 2
  MaxRounds = 1
INVARIANT RoundKeepsBounds
INVARIANT TuningSettles
PROPERTY TuningKeepsAnswers
CHECK_DEADLOCK FALSE
