SPECIFICATION FairSpec
CONSTANTS
  Accounts = {a1, a2}
  Rotating = {a1}
  Validations = {v1}
  Refreshes = {r1}
  MaxConns = 3
  MaxIssues = 3
INVARIANTS TypeOK InReach
PROPERTIES RowsMoveForward RunsEnd ShutdownEnds
