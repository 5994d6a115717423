SPECIFICATION FairSpec
CONSTANTS
  c1 = c1
  c2 = c2
  p1 = p1
  p2 = p2
  None = None
  Children <- OneChild
  Parents <- OneParent
  Authorities <- NoNodes
  Key <- Order
  Wanted <- AnyParent
  Topologies <- Roaming
  Manual <- NoNodes
  Automation <- AnyOutcome
  Ntp = FALSE
  Window = 2
  ManualWindow = 1
  MaxOutcomes = 2
  MaxReboots = 0
  LockOutcomes <- NoTimeouts
INVARIANTS
  TypeOK
PROPERTIES
  RequestResolves
