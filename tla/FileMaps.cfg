SPECIFICATION FairMapsSpec
CONSTANTS
  Jobs = {"j1", "j2", "j3"}
  Limit = 2
  Kids = {"j1", "j2", "j3", "g1", "r1"}
  Suspendable = {}
  Faults = {"j2"}
  Spelled = {"inc/a.h", "inc/x/../A.h", "src/a.pch", "inc"}
  Maps = {"shared", "over1", "temp1", "temp2"}
  PipeSize = 1
  Parent <- MCParent
  Norm <- MCNorm
  Composition <- MCComposition
  FilesOf <- MCFilesOf
INVARIANTS   OwnFiles SlotsRespected EventInv
CHECK_DEADLOCK FALSE
PROPERTY EveryCompileEnds
