SPECIFICATION MCSpec
CONSTANTS
  Keys = {1, 2, 3}
  Offered <- MCOffered
  Starts <- MCStarts
  Descriptors <- MCDescriptors
  Place <- MCPlace
  Requests <- MCRequests
  None = None
  NoRow = NoRow
  PageRoom = 1
  GroupSize = 1
  MaxWrites = 2
  Literals <- MCLiterals
  MinYear = 1900
  MaxYear = 2101
  MaxInt = 127
  MaxDigits = 3
  MaxRef = 2
  Places = 2
  NoPoint = NoPoint
  Zulu = Zulu
  Refused = Refused
INVARIANT LaterWriteFails
CHECK_DEADLOCK FALSE
