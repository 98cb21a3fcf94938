CONSTANTS
  Length = 3
  Opens = 3
  MaxBytes = 6
SPECIFICATION FairSpec
INVARIANTS BytesInOrder EveryByteAccounted
PROPERTIES RefusedOnlyWhenFull KeptBytesAreRead ReceptionResumes
CHECK_DEADLOCK FALSE
