\* Ids are used once (as TcpServer does).  Timeouts reach from one tick to a
\* full turn of the wheel, one Tick may report more expirations than slots.
CONSTANTS
  Ids = {i1, i2}
  Tasks = {x1, x2, x3}
  Capacity = 4
  Timeouts = {1, 3, 4}
  MaxTicks = 5
  ReuseIds = FALSE
  None = None
SYMMETRY TaskSymmetry
SPECIFICATION Spec
INVARIANTS WheelSound PendingFound
PROPERTY ImplementsTimers
