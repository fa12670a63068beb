CONSTANTS
  SecSize <- SectorBytes
  Density = 5
  First = 1
  Skip = 1
  MaxWrite <- LongWrite
  MaxSess = 2
SPECIFICATION Spec
INVARIANT NothingLost
INVARIANT ImageInFlash
INVARIANT IInv
PROPERTY OtherSectorsKept
CHECK_DEADLOCK FALSE
