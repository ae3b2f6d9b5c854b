SPECIFICATION Spec
CONSTANTS
  IPs <- Addresses10  Services <- TwoServices  Specs <- TwoSpecs
  NoService = NoService
  Lines <- RenewLines  Args <- Duplicates
  MaxRuns = 3  MaxStarts = 2
INVARIANT RequestNamesAll
