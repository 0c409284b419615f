SPECIFICATION Spec
CONSTANTS
  Elements = {1, 3}
  RealBytes = 1
  ComplexBytes = 2
  SizeMax = 15
  LimitChoices <- SomeLimits
  Splits = {s1, s2}
  ScratchSizes = {1, 3}
  LensLengths = {0, 1, 2}
  StateBytes = 2
  WorkBytes = 1
  MaxFieldCount = 3
INVARIANTS BytesCounted CountersAgree
PROPERTY GrowthWithinLimits
