\* An object longer than a chunk.
CONSTANTS
  Pools = {"Pool"}
  TypeSizes = {7}
  Pointer = 2
  ChunkSize = 6
  MaxChunks = 2
  MaxHeld = 2
SPECIFICATION PoolSpec
INVARIANT ObjectsInside
CHECK_DEADLOCK FALSE
