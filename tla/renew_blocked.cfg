SPECIFICATION FairSpec
CONSTANTS
  Interval = 2  RunTicks = 2  CommandTicks = 1
  Threshold = 9
  Lifetimes = {9}
  Given = {9}
  HasCommand = TRUE  ExitOnRenew = FALSE
  Faults = {}  MaxFaults = 0
PROPERTY CommandFollowsRenew
