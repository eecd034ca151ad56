SPECIFICATION DetectedSpec
CONSTANTS
  Nodes = {n1, n2}
  Tasks = {t1, t2, t3, t4}
  NoNode = NoNode
  JobSlots = 1
  DetectedTasks = 3
  MaxRatio = 1
  MaxLoad = 4
  Faults = {"connect", "lost"}
INVARIANTS
  
  NoIdleNode
SYMMETRY Symmetry
CHECK_DEADLOCK FALSE
