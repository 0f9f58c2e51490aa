SPECIFICATION FairSpec
CONSTANTS
  SYSINTR_MAXIMUM = 5
  SYSINTR_TIMING = 1
  Devices = {3}
  Masking = {3}
  Absent = {4}
  Careless = {3}
  Rank <- Order
INVARIANTS TypeOK OneRoutine CountCovers SourceFound NoDeadDevice
PROPERTIES ActiveServed
