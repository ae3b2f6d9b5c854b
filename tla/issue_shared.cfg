SPECIFICATION Spec
CONSTANTS
  i1 = i1  i2 = i2  n1 = n1  n2 = n2
  k1 = k1  k2 = k2  k3 = k3  k4 = k4
  NoCSR = NoCSR  NoCert = NoCert  NoKey = NoKey
  Absent = Absent  Truncated = Truncated
  Names <- OneName
  Keys <- FourKeys
  Lifetimes = {1}
  AdminActions = {"approve", "deny", "delete"}
  MaxClock = 1
  Issuers <- TwoIssuers
  Configs <- SharedName
  Faults = {"timeout"}
  MaxRuns = 2
SYMMETRY KeySymmetry
INVARIANTS CountIsDeliveries
PROPERTY ApprovesWhatItSubmitted
CHECK_DEADLOCK FALSE
