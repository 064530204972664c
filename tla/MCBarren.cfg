SPECIFICATION EngineSpec
CONSTANTS
  Ids <- MCIds
  Versions <- MCVersions
  Variants <- MCVariants
  Components <- MCComponents
  DriverNames <- MCDrivers
  Webs <- BarrenWebs
  Requestable <- PlainRequestable
  MaxRequests = 1
  MaxRuns = 1
  MaxFaults = 0
INVARIANT MissingIsReported
CHECK_DEADLOCK FALSE
