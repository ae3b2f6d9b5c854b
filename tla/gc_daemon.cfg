SPECIFICATION GcFairSpec
CONSTANTS
  n1 = n1  n2 = n2  key = key
  NoCSR = NoCSR  NoCert = NoCert
  Names <- GcNames
  NoItem = NoItem
  Keys <- GcKeys
  Lifetimes = {1}
  AdminActions = {"approve"}
  MaxClock = 2
  ShouldGC <- FetchedOrExpired
  GracePeriod = 0
  Daemon = TRUE
  GcFaults = {"transport", "signal"}
  MaxObjects = 2
  MaxFetches = 1  MaxErrors = 1
INVARIANT GcTypeOK
PROPERTY EventuallyCollected
CHECK_DEADLOCK FALSE
