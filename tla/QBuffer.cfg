CONSTANTS
  Length = 3
  Size = 2
  Item = {a, b}
  Blank = blank
SPECIFICATION FairSpec
INVARIANTS NoSlotShared GuardedReadsAreWhole
PROPERTIES ImplementsFifo Drains
