\* Three threads over a manual-reset and an auto-reset event; an interrupt
\* signals the auto-reset one.
SPECIFICATION Spec
CONSTANTS
  t1 = t1  t2 = t2  t3 = t3  e = e  a = a  m = m  s = s
  Threads = {t1, t2, t3}
  ManualEvents = {e}
  AutoEvents = {a}
  Mutexes = {}
  Semaphores = {}
  MaxCount = 1
  Creator = Boot
  Careless = {}
  InitialOwner = {}
  IsrEvents = {a}
  WaitCalls <- EventCalls
  LockLimit = 1
  NoThread = NoThread
  NoObj = NoObj
SYMMETRY ThreadSymmetry
CHECK_DEADLOCK FALSE
INVARIANTS TypeOK  KernelAsserts TimersArmed
