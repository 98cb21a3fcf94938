CONSTANTS
  Writers = {"main", "cli"}
  Ways = {"print"}
  CanStall = FALSE
  MaxLen = 2
  MaxCalls = 1
SPECIFICATION Spec
PROPERTIES NeverOverwrites
CHECK_DEADLOCK FALSE
