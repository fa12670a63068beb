CONSTANTS
  SegLens <- OneOrTwo
  MaxIn = 4
  Window = 3
  ReadLens <- OneOrThree
  WriteLens <- OneOrThree
  MaxWrites = 2
  SndBuf = 2
  ChunkSize = 2
  MaxPolls = 2
SPECIFICATION Spec
INVARIANT TypeOK
INVARIANT InOrder
INVARIANT WindowExact
INVARIANT AssertWaiting
INVARIANT CallbacksToLive
PROPERTY CallsReturn
CHECK_DEADLOCK FALSE
