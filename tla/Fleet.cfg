SPECIFICATION FairSpec
CONSTANTS
  MasterCount = 2
  Promoters <- BothPromoters
  Keepers = {k1}
  MaxCommands = 1
  Threshold = 2
  MaxRestarts = 1
  Scenarios <- Days
INVARIANTS BoundedBarren
PROPERTY DispatchResumes
