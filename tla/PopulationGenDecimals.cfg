\* Bounds that binary floating point does not hold; 9 bits round the tenths the
\* way the 53 bits of a double do (their binary expansion has period 4).
SPECIFICATION Spec
CONSTANTS
  FloatBits = 9
  MaxExponent = 10
  Bounds = {4, 14}
  Steps = {1}
  SetValues = {}
  MaxRanges = 1
  MaxSets = 0
  MaxDimensions = 1
  MaxSetSize = 0
  IntBits = 6
INVARIANTS
  NoOverrun
