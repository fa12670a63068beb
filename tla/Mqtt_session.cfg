CONSTANTS
  a = a
  b = b
  NoMsg = NoMsg
  Out <- TwoOut
  In <- TwoIn
  Large <- Second
  MaxId = 2
  DropOverflow = FALSE
  MaxDepth = 1
  MaxCalls = 3
SPECIFICATION Spec
INVARIANT TypeOK
INVARIANT PublishConfirmed
INVARIANT ConnectedMeansAccepted
INVARIANT PongTimeoutJustified
CHECK_DEADLOCK FALSE
