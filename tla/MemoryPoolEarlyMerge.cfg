\* A thread frees while another has just been given the neighbouring span.
CONSTANTS
  t1 = t1
  t2 = t2
  Threads = {t1, t2}
  Scenarios <- SharedScenarios
  Classes <- MCClasses
  BlockWords <- MCBlockWords
  MoveSize <- MCMoveSize
  MovePages <- MCMovePages
  PageSize = 2
  MaxSpan = 3
  None = None
SPECIFICATION AllocSpec
INVARIANT MergesOnlyReturned
CHECK_DEADLOCK FALSE
