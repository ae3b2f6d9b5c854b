SPECIFICATION FairSpec
CONSTANTS
  Interval = 3  RunTicks = 3  CommandTicks = 4
  Threshold <- TimelyThreshold
  Lifetimes <- TimelyLifetimes
  Given <- TimelyGiven
  HasCommand = TRUE  ExitOnRenew = FALSE
  Faults <- AllFaults  MaxFaults = 3
INVARIANTS RenewTypeOK NeverExpires SendNeverBlocks
PROPERTIES CommandFollowsRenew RenewedInTheEnd PairedInTheEnd
