SPECIFICATION FairSpec
CONSTANTS
  Depth = 2
  MaxMsgs = 3
  Second = 2
  Timeouts = {1, 3}
  MaxCalls = 3
  Faults = {"nothing", "error", "take", "untaken"}
  MaxFaults = 2
INVARIANTS
  TypeOK
PROPERTIES
  HonestTimeout
  CallReturns
  ImplementsBase
