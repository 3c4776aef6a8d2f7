SPECIFICATION Spec
CONSTANTS
  t1 = t1
  t2 = t2
  t3 = t3
  Tenants <- MCTenants
  StoreKey = StoreKey
  NoFile = NoFile
  PerPage = 2
  GroupSize = 2
  CatalogRoom = 2
  MaxRecords = 3
  MaxDeks = 4
  Faults = {}
INVARIANT SealedByTheCatalog
INVARIANT SnapshotsComplete
INVARIANT ServedIsTheLog
SYMMETRY Symmetry
CHECK_DEADLOCK FALSE
