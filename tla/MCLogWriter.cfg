CONSTANTS
  MaxPages = 3
  MaxRecords = 3
  PerPage = 2
  Groups = {0, 1, 2}
  Faults = {}
  Torn = Torn
SPECIFICATION Spec
INVARIANTS
  AckedSurvive
  RecoveredIsTheLog
  AppliedIsDurable
PROPERTIES
  CommittedPagesFixed
  ImplementsDurableLog
