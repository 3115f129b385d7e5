CONSTANTS
  Words = 2
  Count = 2
  Attempts = 3
  MaxPackets = 2
SPECIFICATION FairSpec
INVARIANTS
  TypeOK
  PrintedOnce
  ReadsWhatWasKept
PROPERTIES
  LoopEnds
CHECK_DEADLOCK FALSE
