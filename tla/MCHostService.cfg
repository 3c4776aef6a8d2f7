SPECIFICATION ServiceSpec
CONSTANTS
  w1 = w1
  w2 = w2
  c1 = c1
  c2 = c2
  c3 = c3
  Threads = {w1, w2}
  Clients = {c1, c2, c3}
  Launches <- MCLoads
  n1 = n1
  n2 = n2
  Named = {n1, n2}
  MaxNamespaces = 1
  Other = Other
  Backlog = 1
  Panics = 1
  Wakeup = Wakeup
  Nobody = Nobody
INVARIANT NothingHalfServed
PROPERTY NobodyWaits
CHECK_DEADLOCK FALSE
