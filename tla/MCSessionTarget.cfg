SPECIFICATION Spec
CONSTANTS
  Jobs <- Steering
  Records <- SomeRecords
  MaxUnread = 2
INVARIANT
  TargetIsOneRecord
