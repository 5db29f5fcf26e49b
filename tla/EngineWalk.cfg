SPECIFICATION Spec
CONSTANTS
  Node <- MCNode
  NFields <- MCNFields
  Gates <- MCGates
  Graphs <- MCCycles
PROPERTIES
  AuthorityIsSpentOnce
  Termination
  RefinesGraphWalk
