SPECIFICATION Spec
CONSTANTS
  Names <- MCNames
  Values <- MCValues
  Types <- MCTypes
  Fits <- MCFits
  Templates <- MCTemplates
  Sources <- MCSources
  Patches <- MCPatches
  Ids = {i1, i2}
  NoRow = NoRow
  NoId = NoId
  MaxLog = 5
INVARIANT NamedReadsStable
INVARIANT HistoryReplays
INVARIANT OverlayFollows
INVARIANT ReopenIsLive
CHECK_DEADLOCK FALSE
