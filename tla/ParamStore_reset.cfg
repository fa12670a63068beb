CONSTANTS
  dflt = dflt
  p1 = p1
  p2 = p2
  t1 = t1
  t2 = t2
  Main = Main
  NoTask = NoTask
  NoParams = NoParams
  Mixed = Mixed
  NoCrc = NoCrc
  FactoryDefault = dflt
  Params <- TwoParams
  Tasks <- MCTasks
  CountMod = 65536
  MaxCount = 2
  AllocMayFail = TRUE
  ResetAllowed = TRUE
SPECIFICATION Spec
PROPERTY StartUpHeals
SYMMETRY TaskSymmetry
VIEW WithoutHistory
