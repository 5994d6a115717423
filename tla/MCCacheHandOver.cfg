SPECIFICATION Spec
CONSTANTS
  Psram = FALSE
  Requests <- OneRequest
  Reports <- AbsentOnly
  MaxCollections = 2
  TakeOutcomes <- NoTimeouts
INVARIANTS
  LastTopologyIsVisible
