SPECIFICATION Spec
CONSTANTS
  p1 = p1
  p2 = p2
  Procs <- MCProcs
  NoFile = NoFile
  NoStamp = NoStamp
  MaxPages = 3
  MaxStamps = 2
  MaxRuns = 3
  Faults = {}
SYMMETRY Symmetry
INVARIANT PublishedIsPrefix
INVARIANT RestorePointsServe
CHECK_DEADLOCK FALSE
