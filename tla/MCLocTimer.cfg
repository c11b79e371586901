SPECIFICATION MCSpec
CONSTANTS
  NULL = NULL
  NoObject = NoObject
  Clients = {c1, w1}
  Wrappers = {w1}
  Deletable = {w1}
  Delegates = {d1, d2}
  Delays = {1, 2}
  MaxTime = 3
  Elements <- MCElements
  Rank <- MCRank
INVARIANTS NoDangling NoLostWakeup SharedLockCount
PROPERTIES TimersEnd ImplementsRankedSet TreeKept
CHECK_DEADLOCK FALSE
