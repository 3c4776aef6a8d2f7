CONSTANTS
  Ids = {i1, i2}
  MaxCommits = 3
  MaxDelta = 4
  MaxUnsynced = 3
  Share = 1
  NoFile = NoFile
  FileFaults = {}
SPECIFICATION FilesSpec
SYMMETRY Symmetry
INVARIANTS
  ReopenSucceeds
