\* One result is enough.
SPECIFICATION OptimizeSpec
CONSTANTS
  Temperatures = {1, 2, 3}
  Sentinel = 9
  NaN = NaN
  MaxResults = 1
INVARIANTS
  MinAverageSamplesComplete
