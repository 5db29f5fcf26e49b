SPECIFICATION Spec
CONSTANTS
  Items <- MCItems
  Keys = 2
  Lists <- MCLists
  Dicts <- MCDicts
  Atoms <- MCAtoms
  MaxWriters = 3
  Chains <- MCChains
  MaxRetries <- SomeRetries
  MaxMessages = 3
  Graphs <- MCGraphs
  START = "__start__"
  END = "__end__"
  LgStart = "lg start"
  LgEnd = "lg end"
INVARIANTS
  FoldsAreRight
  OrderIndependence
  RetriesAreFair
  SamePath
PROPERTY PostModelDecides
CHECK_DEADLOCK FALSE
