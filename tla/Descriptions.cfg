SPECIFICATION Spec
CONSTANTS
  START = 8
  END = 9
  Nodes <- MCNodes
  Routes <- MCRoutes
  Reducers <- MCReducers
  Limit = 3
  MaxCalls = 5
  Authored <- MCAuthored
  Records <- MCRecords
  MaxEdits = 2
INVARIANTS
  DescriptionIsCanonical
  ReaderGetsOrigin
PROPERTY IdFollowsContent
CHECK_DEADLOCK FALSE
