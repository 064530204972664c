SPECIFICATION EngineSpec
CONSTANTS
  Ids <- MCIds
  Versions <- MCVersions
  Variants <- MCVariants
  Components <- MCComponents
  DriverNames <- MCDrivers
  Webs <- FilteredWebs
  Requestable <- FilteredRequestable
  MaxRequests = 1
  MaxRuns = 1
  MaxFaults = 0
PROPERTY NotSatisfiable
CHECK_DEADLOCK FALSE
