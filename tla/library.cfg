SPECIFICATION Spec
CONSTANTS
  p1 = p1
  p2 = p2
  p3 = p3
  q = q
  line = line
  cube = cube
  Missing = Missing
  Kinds <- MCKinds
  Fields <- MCFields
  Rank <- MCRank
  Size <- MCSize
  Complex <- MCComplex
SYMMETRY MCSymmetry
INVARIANTS
  FiniteStaysFinite UsesCurrentValues RealPlaneFits AcceptedEvaluates
  UpdatesTakeEffect TouchesDeclared SymbolCurrent
PROPERTY DriftLeavesMemory
