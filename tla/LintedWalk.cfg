SPECIFICATION LintedWalkSpec
CONSTANTS
  START = 8
  END = 9
  MaxSteps = 4
  Cases <- MCCases
INVARIANTS
  ExactWhenDone
  WarningsHold
  ValidatedNeverBreaks
PROPERTY WorklistEnds
CHECK_DEADLOCK FALSE
