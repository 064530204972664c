SPECIFICATION FairSpec
CONSTANTS
  Ids <- MCIds
  Versions <- MCVersions
  Variants <- MCVariants
  Components <- MCComponents
  DriverNames <- MCDrivers
  Webs <- MCWebs
  Requestable <- MCRequestable
  MaxRequests = 2
  MaxRuns = 2
  MaxFaults = 1
INVARIANTS TypeOK QueueDistinct Contiguous ClosedUnderDependencies DatabaseExact
PROPERTIES CrawlEnds QueueIsWorklist
