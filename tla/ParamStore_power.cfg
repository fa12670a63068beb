CONSTANTS
  dflt = dflt
  p1 = p1
  p2 = p2
  t1 = t1
  t2 = t2
  Main = Main
  NoTask = NoTask
  NoParams = NoParams
  Mixed = Mixed
  NoCrc = NoCrc
  FactoryDefault = dflt
  Params <- MCParams
  Tasks <- MCTasks
  CountMod = 65536
  MaxCount = 7
  AllocMayFail = FALSE
  ResetAllowed = FALSE
SPECIFICATION Spec
INVARIANT TypeOK
INVARIANT AckedSurvives
INVARIANT FlashReadable
INVARIANT RedundancyKept
PROPERTY AtomicBlock
PROPERTY LockReleased
