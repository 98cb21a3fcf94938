CONSTANTS
  QMax = 3
  NodeMax = 2
  Askers = 3
  Publishers = {"cli", "isr"}
  MaxPub = 2
SPECIFICATION FairSpec
INVARIANTS NothingLost SameOrderForAll CountersExact
PROPERTIES EventuallyDispatched
CHECK_DEADLOCK FALSE
