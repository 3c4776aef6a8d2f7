CONSTANTS
  p = p
  q = q
  s = s
  t = t
  k1 = k1
  k2 = k2
  Appliers = {p, q}
  Sources = {s, t}
  SourceOf <- OneEach
  Identities = {k1, k2}
  Changes <- TwoStreams
  Bound = 2
  MaxLog = 7
  Faults = {"cursor"}
  Other = Other
SPECIFICATION Spec
INVARIANT CursorCoversChanges
