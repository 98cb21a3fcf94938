CONSTANTS
  BootTimeout = 3
  AliveTimeout = 3
  BeatPeriod = 2
  PollPeriod = 3
  AliveMod = 4
  ClockMod = 8
  MaxAge = 6
  MaxResets = 1
SPECIFICATION FairSpec
INVARIANTS VerdictIsGenuine TimeoutMeansLate
PROPERTIES LivePeerIsSeen PolledAnswerIsFresh BootEnds DeathIsNoticed
