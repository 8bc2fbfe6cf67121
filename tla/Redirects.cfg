SPECIFICATION Spec
CONSTANTS
  Keys = {k1, k2}
  Hosts = {h}
  Posts = {p1, p2}
  Gets = {g1}
  None = None
INVARIANTS TypeOK KeyLeadsToUrl
PROPERTY CacheInvisible
