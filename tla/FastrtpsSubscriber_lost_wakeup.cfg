SPECIFICATION Spec
CONSTANTS
  Depth = 1
  MaxMsgs = 3
  MaxCalls = 2
  PeerWaits = TRUE
  ReaderLocking = {TRUE}
  DataInit = {0}
INVARIANTS
  NoLostWakeup
