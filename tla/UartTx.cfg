CONSTANTS
  Writers = {"main", "cli"}
  Ways = {"log", "print"}
  CanStall = TRUE
  MaxLen = 2
  MaxCalls = 2
SPECIFICATION FairSpec
INVARIANTS WireIsMessages BufferOutlivesTransfer LogCallsExclude
PROPERTIES CallsReturn
CHECK_DEADLOCK FALSE
