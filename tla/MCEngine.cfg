SPECIFICATION FairEngineSpec
CONSTANTS
  Ids <- MCIds
  Versions <- MCVersions
  Variants <- MCVariants
  Components <- MCComponents
  DriverNames <- MCDrivers
  Webs <- MCEngineWebs
  Requestable <- MCEngineRequestable
  MaxRequests = 2
  MaxRuns = 2
  MaxFaults = 1
INVARIANTS EngineTypeOK SelectionConsistent DependenciesFirst
PROPERTIES SuccessServesRequests UnsatisfiableIsRight ImplementsCrawl RunEnds
CHECK_DEADLOCK FALSE
