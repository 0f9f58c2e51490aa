\* Three threads of three priorities and two sections, one also tried.
SPECIFICATION FairSpec
CONSTANTS
  t1 = t1  t2 = t2  t3 = t3  c1 = c1  c2 = c2
  Threads = {t1, t2, t3}
  Sections = {c1, c2}
  TrySections = {c1}
  nOriginPriority <- Priorities
  IDLE_PRIORITY = 3
  ByPriority = FALSE
  LockLimit = 2
  NoThread = NoThread
  Masked = Masked
  NoSection = NoSection
CHECK_DEADLOCK FALSE
INVARIANTS TypeOK OwnerKnown PriorityRestored 
PROPERTIES ImplementsPool 
