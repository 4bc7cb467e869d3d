\* Two dependencies whose alphabetical order is not the order of their use.
SPECIFICATION Spec
CONSTANTS
  NameCount = 3
  ClassOf <- StaleClassOf
  Lines <- StaleLines
  MaxLines = 3
  Values = {1, 2}
  MaxSamples = 2
  Missing = {}
  Projects <- StaleProjects
INVARIANTS
  DependentsFollowSample
