SPECIFICATION FairSpec
CONSTANTS
  IPs <- Addresses10  Services <- TwoServices  Specs <- TwoSpecs
  NoService = NoService
  Lines <- PodLines  Args <- Duplicates
  MaxRuns = 4  MaxStarts = 3
INVARIANTS CmdTypeOK NeverRefused KeepsAnswers
PROPERTIES QueryEnds
