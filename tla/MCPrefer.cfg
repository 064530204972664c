SPECIFICATION Spec
CONSTANTS
  Problems <- DetourPosed
  ConflictLimit = 100
  LearntLimit = 1
  Older <- MCOlder
  Cases <- MCCases
INVARIANT BinaryPreferred
CHECK_DEADLOCK FALSE
