SPECIFICATION PollingSpec
CONSTANTS
  P1 = P1
  P2 = P2
  Producers <- OneProducer
  Capacity = 2
  Word = 1024
  MaxLogs = 2
  MaxClears = 0
PROPERTIES LoggedIsSeen
