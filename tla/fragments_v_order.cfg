CONSTANTS
  Conns = {1, 2}
  Mode <- MCServers
  Messages <- MCContradictory
  NULL = NULL
  MaxUncompleted = 4
  MaxLives = 1
  IntMax = 4
  Destroys = FALSE
SPECIFICATION Spec
INVARIANT Whole
CHECK_DEADLOCK FALSE
