SPECIFICATION FairSpec
CONSTANTS
  MaxAttempts = 3
  MaxMsgs = 3
  None = None
INVARIANTS ServesAnswered LeavesNothingOpen ProxiedOnce
PROPERTY MainGoesOn
CHECK_DEADLOCK FALSE
