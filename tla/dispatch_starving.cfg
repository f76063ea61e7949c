CONSTANTS
  Requests = {r1, r2}
  Threads = {t1, t2, t3}
  NULL = NULL
  MinThreads = 1
  MaxThreads = 2
  MaxQueuedRequests = 0
  StarvingTime = 1
  StartMayFail = TRUE
  MinThreadsChoices = {}
  MaxThreadsChoices = {}
  Comparators = {"null", "temporal"}
  ULong = 4
SPECIFICATION Spec
SYMMETRY Symmetry
INVARIANT PoolInv
CHECK_DEADLOCK FALSE
