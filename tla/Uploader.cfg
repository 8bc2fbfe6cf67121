SPECIFICATION FairSpec
CONSTANTS
  Keys = {k1}
  Uploads = {u1, u2}
  Gets = {g1}
  Deletes = {d1, d2}
  None = None
INVARIANTS TypeOK ServedWasHeld DeletedIsGone
PROPERTIES DeletedByHash DeletedExpires
