SPECIFICATION Spec
CONSTANTS
  Headers <- MCHeaders
  MacroIds <- MCMacroIds
  Values <- MCValues
  Texts <- MCTexts
  JobQueues <- MCJobQueues
  Threads = {t1, t2}
  Period = 2
INVARIANTS ScannerInv ScanExact NaiveSuperset
PROPERTY EntriesReplayable
CHECK_DEADLOCK FALSE
