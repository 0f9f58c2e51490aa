\* Two threads, fair: events that interrupts
\* signal too, and a semaphore.
SPECIFICATION FairSpec
CONSTANTS
  t1 = t1  t2 = t2  t3 = t3  e = e  a = a  m = m  s = s
  Threads = {t1, t2}
  ManualEvents = {e}
  AutoEvents = {a}
  Mutexes = {}
  Semaphores = {s}
  MaxCount = 1
  Creator = Boot
  Careless = {}
  InitialOwner = {}
  IsrEvents = {a, e}
  WaitCalls <- LiveCalls
  LockLimit = 1
  NoThread = NoThread
  NoObj = NoObj
CHECK_DEADLOCK FALSE
PROPERTIES  TimedReturns
