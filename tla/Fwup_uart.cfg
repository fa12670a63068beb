CONSTANTS
  t1 = t1
  t2 = t2
  a = a
  b = b
  NoTask = NoTask
  NoImage = NoImage
  Tasks <- OneTask
  Images <- OneImage
  Signed <- OneImage
  N = 4
  Numbered = TRUE
  IoMayFail = FALSE
  PowerMayFail = TRUE
  Calls <- ExitOnly
  MaxSess = 3
SPECIFICATION Spec
INVARIANT NumberedNeverFails
PROPERTY RequestServed
CHECK_DEADLOCK FALSE
