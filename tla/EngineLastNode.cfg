SPECIFICATION Spec
CONSTANTS
  Node <- MCNode
  NFields <- MCNFields
  Gates <- MCNoGate
  Graphs <- MCTightBudget
INVARIANTS
  LastNodeIsMostRecent
