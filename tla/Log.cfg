CONSTANTS
  BufMax = 12
  Number = 1
  Slack = 3
  Chunk = 5
  MaxText = 3
  MaxLines = 6
SPECIFICATION FairSpec
INVARIANTS EntryFits CompleteBeforeWrap NewestKept
PROPERTIES DumpEnds
