SPECIFICATION Spec
CONSTANTS
  s1 = s1
  s2 = s2
  s3 = s3
  None = None
  Sessions <- TwoSessions
  OwnerMayFail = TRUE
  MaxPending = 2
  Needs <- NoNeeds
  Faults <- WriteFaults
INVARIANT TaskNotLost
CHECK_DEADLOCK FALSE
