\* Three threads, one of them the creator of the mutex, over that mutex and a
\* semaphore with two units.
SPECIFICATION Spec
CONSTANTS
  t1 = t1  t2 = t2  t3 = t3  e = e  a = a  m = m  s = s
  Threads = {t1, t2, t3}
  ManualEvents = {}
  AutoEvents = {}
  Mutexes = {m}
  Semaphores = {s}
  MaxCount = 2
  Creator = t1
  Careless = {t2, t3}
  InitialOwner = {}
  IsrEvents = {}
  WaitCalls <- CountedCalls
  LockLimit = 2
  NoThread = NoThread
  NoObj = NoObj
SYMMETRY ThreadSymmetry
CHECK_DEADLOCK FALSE
INVARIANTS  MutexAccounts UnitsConserved
PROPERTY ImplementsPool
