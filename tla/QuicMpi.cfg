\* Every job name, sends that may block, sets-up that may fail.
SPECIFICATION FairSpec
CONSTANTS
  TotalServants = 3
  MaxPopulation = 6
  JobNames = {"no_optfile", "no_dimension", "", "lsm", "gpu_plume", "other"}
  EagerTags = {"EXIT"}
  LibraryLoads = {TRUE, FALSE}
  SetupResults = {TRUE, FALSE}
  SampleResults = {"evaluated", "exit"}
  EvalResults = {TRUE}
INVARIANTS
  TypeOK
  ProtocolOrder
  SubsetsFit
PROPERTIES
  Termination
  FarmSpec
