SPECIFICATION ToolSpec
CONSTANTS
  N = 3
  Unbounded = Unbounded
  Bounds = {0, 1, 2, Unbounded}
  Tools = {1, 3}
  OutputKeys <- MCOutputKeys
  Scratchpads <- MCScratchpads
  PlainDeltas <- MCPlainDeltas
INVARIANTS
  BoundKept
  LeftBehind
  ChildEndsWithNode
  OutputsSurvive
PROPERTY TimeoutsRelease
CHECK_DEADLOCK FALSE
