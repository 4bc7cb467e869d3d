\* Samples whose evaluation fails are sent as results all the same.
SPECIFICATION Spec
CONSTANTS
  TotalServants = 2
  MaxPopulation = 2
  JobNames = {"lsm"}
  EagerTags = {"EXIT"}
  LibraryLoads = {TRUE}
  SetupResults = {TRUE}
  SampleResults = {"evaluated", "failed"}
  EvalResults = {TRUE}
INVARIANTS
  ResultsCarryFitness
