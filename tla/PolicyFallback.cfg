SPECIFICATION Spec
CONSTANTS
  KindOf <- MCKindOf
  Healths = {"online", "offline"}
  ModelSets <- MCModelSets
  Hints = {"m"}
  NoHint = "none"
  MaxObservations = 3
  Models = {big, small}
  Stranger = "stranger"
  Task = "coding"
  Hint = "speed"
  Writers = {w1, w2}
  MaxTime = 3
  MaxRows = 4
  Limit = 2
SYMMETRY Symmetric
INVARIANT NeverIsNeverPlaced
CHECK_DEADLOCK FALSE
