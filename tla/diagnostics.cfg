SPECIFICATION Spec
CONSTANTS
  Backends <- Kinds
  Samples = {"a", "b"}
  Features = {"all", "few"}
  History = 2
  MaxOps = 2
  MaxFields = 2
  MaxCalls = 5
  MaxTime = 2
INVARIANTS OpenFrameHasNoDuration CountersOfThisPass StatsOfOneCapture
PROPERTY ImplementsHistory
CHECK_DEADLOCK FALSE
