SPECIFICATION FairSpec
CONSTANTS
  Sessions = {s1, s2, s3}
  None = None
  Faults <- AllFaults
INVARIANTS
  
  CompilesWithResources
PROPERTY SessionsLeave
CHECK_DEADLOCK FALSE
