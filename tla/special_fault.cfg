SPECIFICATION Spec
CONSTANTS
  t1 = t1
  t2 = t2
  r1 = r1
  r2 = r2
  f1 = f1
  f2 = f2
  None = None
  Threads <- MCThreads
  Reports <- MCReports
  Fallbacks <- MCFallbacks
  MaxCalls = 4
INVARIANTS ReportIsWhole CalledAsInstalled
PROPERTY CallsReturn
CHECK_DEADLOCK FALSE
