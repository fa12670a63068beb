CONSTANTS
  t1 = t1
  t2 = t2
  a = a
  b = b
  NoTask = NoTask
  NoImage = NoImage
  Tasks <- OneTask
  Images <- TwoImages
  Signed <- OneSigned
  N = 3
  Numbered = FALSE
  IoMayFail = TRUE
  PowerMayFail = TRUE
  Calls <- AllCalls
  MaxSess = 2
SPECIFICATION Spec
INVARIANT TypeOK
INVARIANT FlagMeansVerified
CHECK_DEADLOCK FALSE
