SPECIFICATION FairSpec
CONSTANTS
  Keys = {k1, k2}
  Bodies = {a, b, x}
  Binary = {x}
  Posts = {p1, p2}
  Gets = {g1, g2}
  None = None
INVARIANTS TypeOK AnsweredIsStored
PROPERTIES CacheInvisible PostEnds
