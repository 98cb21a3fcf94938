CONSTANTS
  Count = 1
  High = 1
  PriMax = 3
  ThreadMax = 1
  NodeMax = 1
  QMax = 3
  LogMax = 2
  MallocHook = TRUE
  MaxPub = 1
SPECIFICATION Spec
INVARIANTS NoHeapIsSignalled
CHECK_DEADLOCK FALSE
