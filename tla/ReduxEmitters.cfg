\* A concentration file of one row, which may lie in an emitter.
SPECIFICATION ReduxSpec
CONSTANTS
  Concentrations = {0, 2, 3}
  Threshold = 2
  Least = 1
  Greatest = 9
  Buildings = {1}
  MaxRows = 1
INVARIANTS
  StatisticsOfFreeCells
