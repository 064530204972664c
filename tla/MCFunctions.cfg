SPECIFICATION MCSpec
CONSTANTS
  Size = 4
  Length = 5
  Digits <- MCDigits
  Letters <- MCLetters
  Compare <- MCCompare
  Entries = 8
  HashFunctions <- MCHashFunctions
  Databases <- MCDatabases
INVARIANTS EdgesRespected CyclesReported QueryMeaning StacksBounded VersionsOrdered LookupExact LinksResolve
CHECK_DEADLOCK FALSE
