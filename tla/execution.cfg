SPECIFICATION Spec
CONSTANTS
  Values = {V0, V1}
  Scrambled = Scrambled
  Descriptors <- SomeDescriptors
  FieldChoices <- SomeFields
  MaxFields = 2
  MaxOps = 2
  MaxDepth = 2
INVARIANTS PlanIsCurrent ContinuityCounted StepIsolated
PROPERTIES DriftLeavesNoTrace
SYMMETRY ValueSymmetry
