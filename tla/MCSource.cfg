SPECIFICATION EngineSpec
CONSTANTS
  Ids <- MCIds
  Versions <- MCVersions
  Variants <- MCVariants
  Components <- MCComponents
  DriverNames <- MCDrivers
  Webs <- CompleteWebs
  Requestable <- PlainRequestable
  MaxRequests = 1
  MaxRuns = 1
  MaxFaults = 0
INVARIANT SourceRequestsGetSource
CHECK_DEADLOCK FALSE
