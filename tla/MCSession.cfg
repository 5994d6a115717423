SPECIFICATION FairSpec
CONSTANTS
  Jobs <- AllJobs
  Records <- SomeRecords
  MaxUnread = 2
INVARIANTS
  TypeOK
  AcknowledgedIsDelivered
PROPERTIES
  HopTestsArePaced
  EverySessionEnds
