SPECIFICATION Spec
CONSTANTS
  c1 = c1
  c2 = c2
  p1 = p1
  p2 = p2
  None = None
  Unverified = Unverified
  Children <- OneChild
  Parents <- TwoParents
  Targets <- OneParent
  Methods <- ExactOnly
  ModesAsked <- OffAndAuto
  VerifyTimeout = 1
  Dedup = 1
  MaxOperations = 2
  LockOutcomes <- NoTimeouts
INVARIANTS
  TypeOK
  PendingIsRunnable
  VerdictsOnDelivered
  VerifiedOnFreshEvidence
  SupersededOnlyByForceOff
PROPERTIES
  ImplementsChannel
