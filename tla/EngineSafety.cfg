SPECIFICATION Spec
CONSTANTS
  Node <- MCNode
  NFields <- MCNFields
  Gates <- MCGates
  Graphs <- MCGraphs
INVARIANTS
  TypeOK
  EveryCallAuthorised
  PublishedWasApproved
  BudgetKept
  PublishedIsObserved
PROPERTIES
  StopHonoured
