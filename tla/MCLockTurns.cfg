SPECIFICATION FairSpec
CONSTANTS
  g = g
  a = a
  b = b
  c = c
  d = d
  e = e
  None = None
  Nodes <- MCNodes
  Gateway = g
  Observations <- Roaming
  Requests <- Star
  Confirmations = 2
  Rates = {1}
  MaxRate = 1
  ManualMoves = {}
  Resting <- NoRest
  ParentRestarts = FALSE
  MaxReboots = 0
  LockOutcomes = {TRUE}
  WriteOutcomes = {TRUE}
PROPERTIES TurnsAreFair
CHECK_DEADLOCK FALSE
