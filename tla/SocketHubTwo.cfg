SPECIFICATION Spec
CONSTANTS
  Clients = {c1, c2}
  Talkers = {}
  Cap = 1
  MaxMsgs = 2
SYMMETRY Symmetry
VIEW Control
INVARIANTS NoPanic ClosedMeansForgotten
