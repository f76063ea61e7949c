SPECIFICATION FairSpec
CONSTANTS
  NULL = NULL
  l3 = l3
  l2 = l2
  l1 = l1
  c3 = c3
  c2 = c2
  c1 = c1
  p2 = p2
  p1 = p1
  t2 = t2
  t1 = t1
  Threads = {t1, t2}
  Points = {p1, p2}
  Conns = {c1, c2}
  OpeningLocks = {l1, l2}
  MaxConnections = 1
  ConnectTimeout = 1
  SslPoints = {p2}
  Garbage = {0, 3}
  ULong = 4
  MaxCalls = 1
PROPERTIES EveryCallReturns
CHECK_DEADLOCK FALSE
