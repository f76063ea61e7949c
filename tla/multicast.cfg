SPECIFICATION FairSpec
CONSTANTS
  c1 = c1
  m1 = m1
  m2 = m2
  NULL = NULL
  Clients = {c1}
  Messages = {m1, m2}
  Sender <- MCSender
  MaxParts = 2
  Members = {1, 2}
  Generated = {1}
  MaxUncompleted = 2
  MaxDuplicates = 1
  MaxBreaks = 1
INVARIANTS TypeOK Whole NoExtraCopies
PROPERTY EveryMessageHeard
