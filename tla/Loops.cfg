SPECIFICATION Spec
CONSTANTS
  Backups = {b1, b2}
  MaxSize = 3
  MaxDumps = 7
  ViewRuns = {v1, v2}
  NViews = 2
  MaxCopies = 3
SYMMETRY Symmetry
VIEW Control
INVARIANTS TypeOK DumpsBounded OneCopyEach
PROPERTY KeepsNewest
