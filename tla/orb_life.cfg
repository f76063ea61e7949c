SPECIFICATION FairSpec
CONSTANTS
  NULL = NULL
  t1 = t1
  t2 = t2
  m1 = m1
  m2 = m2
  Threads = {t1, t2}
  Servants = {t1}
  Managers = {m1, m2}
  root = m1
  MaxTimeInShutdown = 1
  Spurious = TRUE
  MaxFailures = 1
INVARIANTS TypeOK NoUseAfterDelete ShutdownIsComplete NoDestroyedInstance RunWaits
PROPERTIES CallsReturn ImplementsPhases
CHECK_DEADLOCK FALSE
