SPECIFICATION GcSpec
CONSTANTS
  n1 = n1  n2 = n2  key = key
  NoCSR = NoCSR  NoCert = NoCert
  Names <- OneGcName
  NoItem = NoItem
  Keys <- GcKeys
  Lifetimes = {1}
  AdminActions = {"approve", "deny", "delete"}
  MaxClock = 2
  ShouldGC <- DeniedOrFetched
  GracePeriod = 0
  Daemon = FALSE
  GcFaults = {}
  MaxObjects = 2
  MaxFetches = 1  MaxErrors = 0
PROPERTY DeletesOnlyNeeded
CHECK_DEADLOCK FALSE
