SPECIFICATION Spec
CONSTANTS
  BinsNum = 3
  BinWidth = 2
  MaxTopn = 3
  Iterations = 3
  IntHalf = 4
  Latencies = {0, 1, 4, 7, 8, 17}
  MaxAdds = 5
INVARIANTS
  TypeOK
  TopN
  BinsExact
  TopJoinsSeries
  OnlyKnownUndefined
