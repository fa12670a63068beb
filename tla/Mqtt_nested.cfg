CONSTANTS
  a = a
  b = b
  NoMsg = NoMsg
  Out <- OneOut
  In <- TwoIn
  Large <- Second
  MaxId = 2
  DropOverflow = TRUE
  MaxDepth = 2
  MaxCalls = 3
SPECIFICATION Spec
PROPERTY CallsReturn
PROPERTY VanishedBrokerNoticed
INVARIANT AckedWasDelivered
CHECK_DEADLOCK FALSE
