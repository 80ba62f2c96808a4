SPECIFICATION FairSpec
CONSTANTS
  Depth = 2
  MaxMsgs = 3
  Timeouts = {1, 3}
  MaxCalls = 3
  MaxWakes = 2
  Interrupted = TRUE
INVARIANTS
  TypeOK
  AtMostTwice
PROPERTIES
  HonestReturn
  CallReturns
  ImplementsBase
