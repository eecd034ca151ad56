SPECIFICATION Spec
CONSTANTS
  Headers <- TestHeaders
  MacroIds <- TestMacroIds
  Values <- MCValues
  Texts <- TestTexts
  JobQueues <- TestJobQueues
  Threads = {t1, t2}
  Period = 2048
INVARIANT ScanExact
CHECK_DEADLOCK FALSE
