SPECIFICATION RestartSpec
CONSTANTS
  i1 = i1  i2 = i2  n1 = n1  n2 = n2
  k1 = k1  k2 = k2  k3 = k3  k4 = k4
  NoCSR = NoCSR  NoCert = NoCert  NoKey = NoKey
  Absent = Absent  Truncated = Truncated
  Names <- OneName
  Keys <- FourKeys
  Lifetimes = {1}
  AdminActions = {}
  MaxClock = 2
  Issuers <- OneIssuer
  Configs <- RestartedRuns
  Faults = {"crash"}
  MaxRuns = 3
PROPERTY RecoversAfterCrash
CHECK_DEADLOCK FALSE
