SPECIFICATION Spec
CONSTANTS
  F1 = F1
  F2 = F2
  Fields <- TwoFields
  Descriptors <- TwoFieldDescriptors
  MaxOps = 3
INVARIANTS PlanKeepsConflictOrder RefusalIsJustified
PROPERTIES ImplementsPlanAbstract ResolveReturns
