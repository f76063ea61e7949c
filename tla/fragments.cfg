CONSTANTS
  Conns = {1, 2}
  Mode <- MCMode
  Messages <- MCOrdered
  NULL = NULL
  MaxUncompleted = 2
  MaxLives = 2
  IntMax = 4
  Destroys = TRUE
SPECIFICATION FairSpec
INVARIANTS
  TypeOK
  Whole
  NotLost
PROPERTY
  PutReturns
CHECK_DEADLOCK FALSE
