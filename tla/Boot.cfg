CONSTANTS
  Count = 3
  High = 1
  PriMax = 3
  ThreadMax = 2
  NodeMax = 2
  QMax = 3
  LogMax = 4
  MallocHook = TRUE
  MaxPub = 2
SPECIFICATION FairSpec
INVARIANTS TypeOK InitOrder SubscribersReady NothingSilent BootDoneMeansThreads ErrorLasts
PROPERTIES BootShown
CHECK_DEADLOCK FALSE
