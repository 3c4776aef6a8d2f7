SPECIFICATION Spec
CONSTANTS
  t1 = t1
  t2 = t2
  t3 = t3
  Tenants <- MCTenants
  StoreKey = StoreKey
  NoFile = NoFile
  PerPage = 2
  GroupSize = 2
  CatalogRoom = 2
  MaxRecords = 2
  MaxDeks = 4
  Faults = {"publish"}
INVARIANT SnapshotsComplete
SYMMETRY Symmetry
CHECK_DEADLOCK FALSE
