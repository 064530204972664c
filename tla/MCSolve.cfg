SPECIFICATION Spec
CONSTANTS
  Problems <- MCSolved
  ConflictLimit = 2
  LearntLimit = 1
  Older <- MCOlder
  Cases <- MCCases
INVARIANTS SelectionRight SourcesAvoided
CHECK_DEADLOCK FALSE
