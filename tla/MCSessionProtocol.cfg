SPECIFICATION FairSpec
CONSTANTS
  s1 = s1
  s2 = s2
  s3 = s3
  None = None
  Sessions <- TwoSessions
  OwnerMayFail = TRUE
  MaxPending = 2
  Needs <- AllOrNothing
  Faults <- AllFaults
INVARIANTS
  NoUnexpectedMessage
  ReceiverOwnsTask
  NobodyWaitsForTheDead
  AnsweredAtMostOnce
  WritersInv
PROPERTIES
  NothingAfterCancelled
  TaskSpec
  
CHECK_DEADLOCK FALSE
