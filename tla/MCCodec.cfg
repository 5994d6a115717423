SPECIFICATION Spec
CONSTANTS
  Letters <- TwoLetters
  MaxLength = 11
  Slot <- FirstThree
  MinMatch = 4
  Nibble = 1
  Window = 5
  Slack = 2
  Limits <- ShortOrNot
  SendBuffer = 3
  Patience <- GoesOrStays
INVARIANTS
  TypeOK
  RoundTrip
  StreamIsResponse
  RingHoldsWindow
  CompressionFits
CHECK_DEADLOCK FALSE
