SPECIFICATION Spec
CONSTANTS
  MinDt = 2
  MaxDt = 5
  Requests <- MCRequests
  Safeties = {18, 50}
  Hints = {0, 2}
  Targets <- MCTargets
  DefaultDt = 1
  MaxAttempts <- MCMaxAttempts
  Iterations = 2
  Nodes = 2
  Plans = {{}, {"flow"}, {"rest"}, {"flow", "rest", "reports"}}
  InnerDts = {4}
  Failing = {2}
INVARIANTS
  StepsInRange NaNStepDiscarded AcceptedStepReported 
  ContextRestored TimestepRestored FailureKeepsField BuffersFit
PROPERTIES RetriesAreShorter StepReturns
