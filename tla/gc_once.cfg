SPECIFICATION GcSpec
CONSTANTS
  n1 = n1  n2 = n2  key = key
  NoCSR = NoCSR  NoCert = NoCert
  Names <- GcNames
  NoItem = NoItem
  Keys <- GcKeys
  Lifetimes = {1}
  AdminActions = {"approve", "deny"}
  MaxClock = 3
  ShouldGC <- DeniedOrFetched
  GracePeriod = 1
  Daemon = FALSE
  GcFaults = {"transport"}
  MaxObjects = 2
  MaxFetches = 1  MaxErrors = 1
INVARIANT PassCollectsEligible
PROPERTIES DeletesOnlyRequired ImplementsSweep
CHECK_DEADLOCK FALSE
