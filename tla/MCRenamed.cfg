SPECIFICATION EngineSpec
CONSTANTS
  Ids <- RenamedIds
  Versions <- MCVersions
  Variants <- MCVariants
  Components <- MCComponents
  DriverNames <- MCDrivers
  Webs <- RenamedWebs
  Requestable <- PlainRequestable
  MaxRequests = 1
  MaxRuns = 1
  MaxFaults = 0
INVARIANT ComplementOrConflict
CHECK_DEADLOCK FALSE
