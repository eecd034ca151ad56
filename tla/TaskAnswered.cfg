SPECIFICATION LiveSpec
CONSTANTS
  s1 = s1
  s2 = s2
  s3 = s3
  None = None
  Sessions <- ThreeSessions
  OwnerMayFail = FALSE
  MaxPending = 2
  Needs <- PchNeeds
  Faults <- CompileFaults
INVARIANTS TaskNotLost 
PROPERTY TaskAnswered
CHECK_DEADLOCK FALSE
