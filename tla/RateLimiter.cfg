SPECIFICATION FairSpec
CONSTANTS
  Ips = {ip1}
  Requests = {r1, r2, r3}
  Chains <- MCChains
  Window = 2
  MaxCount = 6
INVARIANTS TypeOK WindowBound NestedCountTwice
PROPERTY WindowEnds
