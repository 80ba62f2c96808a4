SPECIFICATION FairSpec
CONSTANTS
  Depth = 2
  MaxMsgs = 4
  MaxCalls = 3
  PeerWaits = FALSE
  ReaderLocking = {TRUE, FALSE}
  DataInit = {0, 1}
INVARIANTS
  TypeOK
  NoSleepOnVisibleData
  NoCircularWait
  TakeNeverFails
  PacedWakeups
PROPERTIES
  PacedTimeouts
  CallReturns
  ImplementsBase
