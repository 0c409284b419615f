SPECIFICATION Spec
CONSTANTS
  P1 = P1
  P2 = P2
  Producers <- TwoProducers
  Capacity = 2
  Word = 1024
  MaxLogs = 3
  MaxClears = 1
INVARIANTS TailOvershootBounded
PROPERTIES PopsAdvance ConsumerReturns
