SPECIFICATION Spec
CONSTANTS
  parent = parent
  childWindow = childWindow
  timers = timers
  application = application
  Paint = Paint
  Timer = Timer
  User = User
  Windows = {parent, childWindow}
  NoWindow = NoWindow
  Invalid = Invalid
  ChildOf <- Tree
  Kinds = {Paint, Timer, User}
  WM_PAINT = Paint
  Writers = {timers, application}
  Posts <- Posted
  OnlyOnes <- PostedOnce
  Filters <- Asked
  Clears <- Purged
  InitSize = 3
  Growth = 1
  MaxSize = 4
INVARIANTS TypeOK RingWhole ReaderRoused
PROPERTIES ImplementsFifo
