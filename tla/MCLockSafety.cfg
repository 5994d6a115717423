SPECIFICATION Spec
CONSTANTS
  g = g
  a = a
  b = b
  c = c
  d = d
  e = e
  None = None
  Nodes <- MCNodes
  Gateway = g
  Observations <- Drifts
  Requests <- Chains
  Confirmations = 2
  Rates = {1, 2}
  MaxRate = 2
  ManualMoves = {b}
  Resting <- SomeRest
  ParentRestarts = TRUE
  MaxReboots = 1
  LockOutcomes = {TRUE, FALSE}
  WriteOutcomes = {TRUE, FALSE}
INVARIANTS TypeOK LockIsTree LockIsSaved
PROPERTIES OneMovePerPeriod MovesAreConfirmed MovesKeepTheTree
CHECK_DEADLOCK FALSE
