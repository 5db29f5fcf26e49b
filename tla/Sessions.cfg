SPECIFICATION Spec
CONSTANTS
  Codes <- MCCodes
  Keys = {"a", "b"}
  Root = "outer"
  MaxRuns = 3
INVARIANT ReturnIsTruthful
PROPERTY AnsweredOnce
CHECK_DEADLOCK FALSE
