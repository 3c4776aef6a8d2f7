CONSTANTS
  p = p
  q = q
  s = s
  t = t
  k1 = k1
  k2 = k2
  Appliers = {p, q}
  Sources = {s, t}
  SourceOf <- Shared
  Identities = {k1, k2}
  Changes <- TwoStreams
  Bound = 2
  MaxLog = 8
  Faults = {}
  Other = Other
SPECIFICATION Spec
INVARIANT FlushNeverSmaller
