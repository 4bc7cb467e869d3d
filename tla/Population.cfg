\* Up to three dimensions: ranges in order and reversed, whose bounds a float holds
\* exactly, sets with and without repeats, an int that some of the products
\* overflow; in ticks, one or two dimensions of one to three values and files of up
\* to two samples; shares of every population up to the largest exact float of 6 bits.
SPECIFICATION PopulationSpec
CONSTANTS
  FloatBits = 6
  MaxExponent = 12
  Bounds = {0, 25}
  Steps = {1, 2}
  SetValues = {10, 40}
  MaxRanges = 2
  MaxSets = 1
  MaxDimensions = 3
  MaxSetSize = 3
  IntBits = 5
  Unit = 2
  TickBounds = {0, 4}
  TickSteps = {1, 2, 3}
  TickSetValues = {0, 3, 4}
  MaxDomains = 2
  ParValues <- MCParValues
  Files <- MCFiles
  MaxNumber = 3
  MaxPar = 4
  MaxGarbage = 2
  MaxPopulation = 70
  MaxServants = 66
INVARIANTS
  EveryCombinationOnce
  VectorIsFilled
  SamplesDistinct
  NormalizedIsNearest
  ArrayHoldsSamples
  FileIsRead
  ShareIsExact
PROPERTIES
  GeneratorStops
  RandomPopReturns
