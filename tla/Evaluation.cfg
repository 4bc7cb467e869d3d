\* Optimization files of up to three lines, two samples, projects that lack a file,
\* their path or a building; every result sequence of up to three samples, ties, NaN
\* and missing fitness; every concentration file of up to two rows.
SPECIFICATION EvaluationSpec
CONSTANTS
  NameCount = 7
  ClassOf <- MCClassOf
  Lines <- MCLines
  MaxLines = 3
  Values = {1, 2}
  MaxSamples = 2
  Missing = {"info"}
  Projects <- MCProjects
  Temperatures = {1, 2, 3}
  Sentinel = 9
  NaN = NaN
  MaxResults = 3
  Concentrations = {0, 2, 3}
  Threshold = 2
  Least = 1
  Greatest = 9
  Buildings = {1, 2}
  MaxRows = 2
INVARIANTS
  SampleIsSimulated
  FilesAgree
  OrderedDependentsFollow
  MinTemperatureIsLeast
  MinAverageIsLeast
  AnnouncedAreMinimal
  StatisticsOutsideBuildings
PROPERTIES
  Termination
