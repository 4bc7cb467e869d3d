\* A set that gives a value twice.
SPECIFICATION Spec
CONSTANTS
  FloatBits = 6
  MaxExponent = 10
  Bounds = {}
  Steps = {1, 2}
  SetValues = {10, 15}
  MaxRanges = 0
  MaxSets = 1
  MaxDimensions = 1
  MaxSetSize = 3
  IntBits = 6
INVARIANTS
  NoOverrun
