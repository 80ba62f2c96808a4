SPECIFICATION Spec
CONSTANTS
  Depth = 1
  MaxMsgs = 2
  MaxCalls = 2
  PeerWaits = FALSE
  ReaderLocking = {TRUE}
  DataInit = {0, 1}
INVARIANTS
  PredicateMeansData
