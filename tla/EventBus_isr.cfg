CONSTANTS
  QMax = 3
  NodeMax = 1
  Askers = 1
  Publishers = {"isr"}
  MaxPub = 2
SPECIFICATION Spec
INVARIANTS NoSilentLoss
CHECK_DEADLOCK FALSE
