SPECIFICATION Spec
CONSTANTS
  Node <- MCNode
  NFields <- MCNFields
  Gates <- MCGates
  Graphs <- MCWide
INVARIANTS
  NoOrphanBranch
  EndsTruthfully
PROPERTIES
  RegionCommits
