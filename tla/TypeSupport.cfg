SPECIFICATION Spec
CONSTANTS
  Word = 16
  MaxSizes = {0, 1, 3, 11, 12, 16, 17}
  MaxMsgs = 2
CHECK_DEADLOCK FALSE
INVARIANT
  RoundTrip
