SPECIFICATION FairSpec
CONSTANTS
  Procs = {self, other}
  Self = self
  Urls <- MCUrls
  FileName <- MCFileName
  Pieces <- MCPieces
  MaxFaults = 1
  DriverNames <- MCDriverNames
  Registrations <- MCRegistrations
  Queue <- MCQueue
  Types <- MCTypes
  MaxRuns = 2
INVARIANTS SettledFilesWhole TargetsOwnedOnce FirstRegisteredHandles DanglingNeedsLateDriver
PROPERTY RunsEnd
CHECK_DEADLOCK FALSE
