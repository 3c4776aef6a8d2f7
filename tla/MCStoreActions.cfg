CONSTANTS
  k1 = k1
  k2 = k2
  a = a
  b = b
  x = x
  y = y
  Keys = {k1, k2}
  Ids = {a, b}
  Bodies = {x, y}
  Offered <- SmallOffers
  Batches <- SmallBatches
  Feeds <- SmallFeeds
  Actions <- SmallActions
  ChangeSets <- SmallSets
  MaxLog = 4
  NoId = NoId
  NoGen = NoGen
  Marker = Marker
  Hide = Hide
  Put = Put
  Absent = Absent
SPECIFICATION Spec
INVARIANTS
  MapsAreTheLog
  OneEffectPerId
  GenerationNamesOneVersion
  SetsWhole
  AckedWritesCommitted
CHECK_DEADLOCK FALSE
