CONSTANTS
  t1 = t1
  rx = rx
  sent = sent
  h1 = h1
  h2 = h2
  Tasks <- MCTasks
  Slots <- TwoSlots
  Shared <- Sent
  Handlers <- TwoHandlers
  Times <- OddEven
  TickMs = 2
  MboxSize = 2
  Tries = 2
  MaxReq = 3
SPECIFICATION Spec
INVARIANT StaticSound
PROPERTY NeverEarly
PROPERTY RefinesQueue
PROPERTY TimersFire
CHECK_DEADLOCK FALSE
