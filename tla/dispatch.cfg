CONSTANTS
  Requests = {r1, r2}
  Threads = {t1, t2}
  NULL = NULL
  MinThreads = 0
  MaxThreads = 1
  MaxQueuedRequests = 0
  StarvingTime = 0
  StartMayFail = FALSE
  MinThreadsChoices = {1}
  MaxThreadsChoices = {2}
  Comparators = {"null"}
  ULong = 8
SPECIFICATION FairSpec
INVARIANTS
  TypeOK
  OnePlace
  NoStranded
PROPERTIES
  InactiveIsFinal
  EveryRequestSettled
CHECK_DEADLOCK FALSE
