SPECIFICATION Spec
CONSTANTS
  c1 = c1
  c2 = c2
  p1 = p1
  p2 = p2
  None = None
  Children <- OneChild
  Parents <- OneParent
  Authorities <- NoNodes
  Key <- Order
  Wanted <- OwnParent
  Topologies <- Changing
  Manual <- NoNodes
  Automation <- Automatic
  Ntp = FALSE
  Window = 2
  ManualWindow = 1
  MaxOutcomes = 4
  MaxReboots = 0
  LockOutcomes <- NoTimeouts
PROPERTIES
  GatesHoldAtReboot
