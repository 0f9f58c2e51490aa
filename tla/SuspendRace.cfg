SPECIFICATION Spec
CONSTANTS
  Idle = Idle  t1 = t1  t2 = t2  t3 = t3
  Threads = {Idle, t1, t2, t3}
  Starter = t1
  Levels = {40, 255}
  CreatedAt <- Equals
  PriorityArgs <- NoArgs
  fPolicy <- AllOther
  Calls <- TwoManagers
  Rotate = 1
  MaxLostTicks = 1
  MaxSuspend = 1
  NoThread = NoThread
INVARIANTS NoNullLink
