\* A vector of two bytes that has to move and to grow, with '\0', '\n' and a letter; every
\* size that has a free list; two threads and spans of up to three pages; object pools of
\* chunks of six words, pointers of two, and types from one word to more than a chunk.
CONSTANTS
  NL = NL
  Zero = Zero
  a = a
  Byte <- MCByte
  DefaultSize = 2
  Inputs <- MCInputs
  MaxLen = 3
  t1 = t1
  t2 = t2
  Threads = {t1, t2}
  Scenarios <- MCScenarios
  Classes <- MCClasses
  BlockWords <- MCBlockWords
  MoveSize <- MCMoveSize
  MovePages <- MCMovePages
  PageSize = 2
  MaxSpan = 3
  None = None
  Pools = {"Fixed", "Concurrent", "Pool"}
  TypeSizes = {1, 2, 3, 4, 7}
  Pointer = 2
  ChunkSize = 6
  MaxChunks = 3
  MaxHeld = 4
SPECIFICATION MCSpec
INVARIANTS RequestFits BlockFoundAgain RequestServed PagesSound BlocksSound PoolMergesOnlyReturned SuitedObjectsInside
PROPERTIES WritesNeverAbort ImplementsByteQueue PopsOneLine ListsSeparate ImplementHeaps
CHECK_DEADLOCK FALSE
