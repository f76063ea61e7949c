SPECIFICATION Spec
CONSTANTS
  NULL = NULL
  l3 = l3
  l2 = l2
  l1 = l1
  c2 = c2
  c1 = c1
  k1 = k1
  q1 = q1
  Requests = {q1}
  Locates = {k1}
  Oneways = {}
  Timed = {k1}
  Conns = {c1, c2}
  Locks = {l1, l2, l3}
  MaxRecover = 2
  ManagerCloses = FALSE
  NetworkBreaks = FALSE
  Readdresses = FALSE
  ULong = 64
INVARIANTS ReplyIsMine LockDiscipline AtMostOnce
SYMMETRY Symmetry
CHECK_DEADLOCK FALSE
