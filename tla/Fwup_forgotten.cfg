CONSTANTS
  t1 = t1
  t2 = t2
  a = a
  b = b
  NoTask = NoTask
  NoImage = NoImage
  Tasks <- TwoTasks
  Images <- OneImage
  Signed <- NoImages
  N = 2
  Numbered = FALSE
  IoMayFail = FALSE
  PowerMayFail = FALSE
  Calls <- NoCalls
  MaxSess = 1
SPECIFICATION Spec
INVARIANT NoRequestForgotten
CHECK_DEADLOCK FALSE
