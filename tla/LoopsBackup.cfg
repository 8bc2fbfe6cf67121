SPECIFICATION Spec
CONSTANTS
  Backups = {b1}
  MaxSize = 2
  MaxDumps = 3
  ViewRuns = {v1}
  NViews = 2
  MaxCopies = 2
INVARIANT SuccessMeansGood
