SPECIFICATION FairSpec
CONSTANTS
  Psram = FALSE
  Requests <- AllRequests
  Reports <- SomeReports
  MaxCollections = 3
  TakeOutcomes <- MayTimeOut
INVARIANTS
  TypeOK
  ResponseIsOneGeneration
  RefreshAdvances
  RejectedOnFreshScans
  ClientSteeringIsKept
  LocksAreOrdered
  HandOverIsHidden
PROPERTIES
  RequestsAreAnswered
