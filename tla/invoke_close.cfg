SPECIFICATION FairSpec
CONSTANTS
  NULL = NULL
  l2 = l2
  l1 = l1
  c1 = c1
  q1 = q1
  Requests = {q1}
  Locates = {}
  Oneways = {}
  Timed = {q1}
  Conns = {c1}
  Locks = {l1, l2}
  MaxRecover = 2
  ManagerCloses = TRUE
  NetworkBreaks = TRUE
  Readdresses = TRUE
  ULong = 3
INVARIANTS TypeOK NoInternalError
PROPERTY EveryCallEnds
CHECK_DEADLOCK FALSE
