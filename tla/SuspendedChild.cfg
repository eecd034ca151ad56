SPECIFICATION Spec
CONSTANTS
  Kids = {"k1", "k2"}
  Suspendable = {"k1"}
  Faults = {"k1"}
  Chunk = 8
  Executables <- MCExecutables
  Users = {"u1"}
  Handles = {"h1", "h2", "h3"}
  Objects = {"d1", "d2", "d3"}
  Codes = {0}
  Configs <- MCConfigs
  Spawning <- MCSpawning
  Parent <- MCParent
INVARIANT SuspendedUntilResumed
CHECK_DEADLOCK FALSE
