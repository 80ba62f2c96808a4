SPECIFICATION Spec
CONSTANTS
  Depth = 2
  MaxMsgs = 4
  Second = 2
  Timeouts = {2}
  MaxCalls = 4
  Faults = {}
  MaxFaults = 0
INVARIANTS
  WithinTimeout
