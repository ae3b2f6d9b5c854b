SPECIFICATION FairSpec
CONSTANTS
  Interval = 2  RunTicks = 1  CommandTicks = 1
  Threshold = 3
  Lifetimes = {6}
  Given = {6}
  HasCommand = FALSE  ExitOnRenew = FALSE
  Faults = {"error"}  MaxFaults = 1
PROPERTY RenewsPeriodically
