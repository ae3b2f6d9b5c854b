SPECIFICATION GcFairSpec
CONSTANTS
  n1 = n1  n2 = n2  key = key
  NoCSR = NoCSR  NoCert = NoCert
  Names <- OneGcName
  NoItem = NoItem
  Keys <- GcKeys
  Lifetimes = {1}
  AdminActions = {"approve", "deny"}
  MaxClock = 4
  ShouldGC <- AllChosen
  GracePeriod = 1
  Daemon = TRUE
  GcFaults = {"transport", "signal"}
  MaxObjects = 1
  MaxFetches = 1  MaxErrors = 1
PROPERTY LoopEnds
CHECK_DEADLOCK FALSE
