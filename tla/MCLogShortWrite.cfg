CONSTANTS
  MaxPages = 3
  MaxRecords = 3
  PerPage = 2
  Groups = {0, 1, 2}
  Faults = {"short_write"}
  Torn = Torn
SPECIFICATION Spec
INVARIANT AckedSurvive
