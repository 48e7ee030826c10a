\* A block size that does not divide the span.
CONSTANTS
  t1 = t1
  t2 = t2
  Threads = {t1, t2}
  Scenarios <- OddScenarios
  Classes <- OddClasses
  BlockWords <- OddBlockWords
  MoveSize <- OddMoveSize
  MovePages <- OddMovePages
  PageSize = 4
  MaxSpan = 4
  None = None
SPECIFICATION AllocSpec
INVARIANT BlocksDisjoint
CHECK_DEADLOCK FALSE
