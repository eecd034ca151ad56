SPECIFICATION Spec
CONSTANTS
  Sessions = {s1, s2, s3}
  Ids = {i1, i2, i3}
  IdsReused = FALSE
  Keys = {k1}
  Contents = {c1, c2}
  Absent = Absent
  InProgress = InProgress
INVARIANTS
  
  
  PublishedIsMapped
  NoSessionStuck
PROPERTY SharedIsStable
SYMMETRY Symmetry
CHECK_DEADLOCK FALSE
