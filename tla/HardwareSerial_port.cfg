CONSTANTS
  t1 = t1
  t2 = t2
  Tasks <- TwoTasks
  Lens <- OneOrThree
  MaxMsgs = 2
  FifoSize = 2
  Burst = 3
  BufSize = 5
  MaxBatch = 3
  MaxIn = 4
  Zeros <- SecondByte
  Terms <- ThirdByte
SPECIFICATION Spec
INVARIANT TypeOK
INVARIANT TxExact
INVARIANT FreedOnce
INVARIANT ReadInOrder
PROPERTY AllSent
CHECK_DEADLOCK FALSE
