\* EventLoop: two threads that hand over two tasks each, one task of the loop's own; the
\* eventfd counter is full after one write.  The queues: two producers of two tasks each,
\* two consumers.  The pools: two threads, three processes.
CONSTANTS
  Threads = {t1, t2}
  Loop = Loop
  MaxTasks = 2
  MaxOwn = 1
  EventFdMax = 1
  Producers = {p1, p2}
  Consumers = {c1, c2}
  MaxPushes = 2
  Capacity = 2
  Slots = 2
  Libs = {"log", "os", "plain"}
  Callers = {u1, u2}
  Tasks = 2
  Size = 2
  Children = 3
  Times = {0, 4}
  MaxAllocs = 4
  PipeSize = 1
  ThreadsSize = 2
SPECIFICATION MCSpec
INVARIANTS NoLostWakeup SlotsApart
PROPERTIES ImplementsMailbox HandedOverRuns OwnTasksRun ImplementHandOff AllPassed StopReturns NobodyStays LoopsHandedOver
\* The threads of the queues and pools come to their end.
CHECK_DEADLOCK FALSE
