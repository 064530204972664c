SPECIFICATION FairSpec
CONSTANTS
  Problems <- MCProblems
  ConflictLimit = 2
  LearntLimit <- Early
INVARIANTS SolverTypeOK NoneForgotten ReasonsSupported LearntAsserts LearntImplied
PROPERTIES AnswersAsPromised SolverEnds
CHECK_DEADLOCK FALSE
