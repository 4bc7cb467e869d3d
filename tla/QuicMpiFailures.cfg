\* Evaluations that fail or withhold their results; a master that waits for
\* withheld results waits for ever, so a deadlock is possible.
SPECIFICATION Spec
CONSTANTS
  TotalServants = 3
  MaxPopulation = 6
  JobNames = {"lsm", "gpu_plume"}
  EagerTags = {"EXIT"}
  LibraryLoads = {TRUE}
  SetupResults = {TRUE, FALSE}
  SampleResults = {"evaluated", "failed", "exit"}
  EvalResults = {TRUE, FALSE}
CHECK_DEADLOCK FALSE
INVARIANTS
  CountMatchesResults
  NoSampleLost
  NoSampleTwice
  CompleteAtReduction
  ResultsAreEvaluated
  HangsOnlyOnWithheld
  Conservation
