SPECIFICATION Spec
CONSTANTS
  MaxAttempts = 3
  MaxMsgs = 0
  None = None
INVARIANT OwnVerdict
CHECK_DEADLOCK FALSE
