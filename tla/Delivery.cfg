SPECIFICATION DeliverySpec
CONSTANTS
  Node <- MCNode
  NFields <- MCNFields
  Gates <- MCDeliveryGates
  Graphs <- MCDeliveryGraphs
  Listeners = 3
  Checkpointer = 2
  Altered <- MCAltered
  Unreadable <- MCUnreadable
  MaxRestarts = 1
INVARIANTS
  CheckpointLag
  CheckpointComplete
  RowsAreOneHistory
PROPERTIES
  FailClosed
  DriverEnds
