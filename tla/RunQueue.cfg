SPECIFICATION Spec
CONSTANTS
  Idle = Idle  t1 = t1  t2 = t2  t3 = t3
  Threads = {Idle, t1, t2, t3}
  Starter = t1
  Levels = {40, 240, 255}
  CreatedAt <- Created
  PriorityArgs <- Args
  fPolicy <- SomeFifo
  Calls <- Mixed
  Rotate = 1
  MaxLostTicks = 1
  MaxSuspend = 2
  NoThread = NoThread
INVARIANTS TypeOK RingsWhole QueuedIffRunnable UrgentRequested SuspendedOffQueue
PROPERTIES ImplementsReadySet FaultOnlyInRace
CHECK_DEADLOCK FALSE
