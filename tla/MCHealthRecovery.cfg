SPECIFICATION Spec
CONSTANTS
  c1 = c1
  c2 = c2
  p1 = p1
  p2 = p2
  None = None
  Children <- OneChild
  Parents <- OneParent
  Authorities <- NoNodes
  Key <- Order
  Wanted <- AnyParent
  Topologies <- Roaming
  Manual <- OneParent
  Automation <- Automatic
  Ntp = TRUE
  Window = 2
  ManualWindow = 1
  MaxOutcomes = 2
  MaxReboots = 1
  LockOutcomes <- NoTimeouts
PROPERTIES
  RecoveryNeedsConsecutiveGenerations
  RecoveryStopsRestart
  RestartsAreEarned
  OneRestartPerWindow
