----------------------------- MODULE MCHandOff -----------------------------
(* The programs that hand work from one thread or process to another, one after the  *)
(* other in one run: `program` is the one that runs, and the variables of the others *)
(* keep their initial values.                                                        *)
EXTENDS EventLoop, FiniteSets

CONSTANTS Producers, Consumers, MaxPushes, Capacity, Slots,   \* BlockQueue, CircularQueue
          Libs, Callers, Tasks, Size,                         \* ThreadPool
          Children, Times, MaxAllocs, PipeSize,               \* ProcessPool
          ThreadsSize                                         \* LoopThread

\* A queue has a slot, a pool has a thread, and no task has a number above the bound.
ASSUME HandOffAssumption ==
  /\ IsFiniteSet(Producers) /\ IsFiniteSet(Consumers) /\ Producers \cap Consumers = {}
  /\ MaxPushes \in Nat /\ Capacity \in Nat \ {0} /\ Slots \in Nat \ {0}
  /\ Tasks \in Nat /\ Size \in Nat \ {0}
  /\ Children \in Nat \ {0} /\ MaxAllocs \in Nat /\ Times \subseteq 0 .. MaxAllocs

VARIABLES program,
  blockQueue, condP, condC, pushes, popped, run,
  circularQueue, semSpace, semData, pSuffix, cSuffix, pMutex, cMutex, step, written, val, consumed,
  lib, tpPtr, maker, isRunning, tasksQueue, sleeping, cond, caller, enqueued, worker, task,
  stopped, executed,
  times, parent, channel, index, allocated, pipes, writers, child, taskid, finished,
  main, current, entry, mtx, condMain, loopPtr, loops, early

bqVars == <<blockQueue, condP, condC, pushes, popped, run>>
cqVars == <<circularQueue, semSpace, semData, pSuffix, cSuffix, pMutex, cMutex, step,
            written, val, consumed>>
tpVars == <<lib, tpPtr, maker, isRunning, tasksQueue, sleeping, cond, caller, enqueued,
            worker, task, stopped, executed>>
ppVars == <<times, parent, channel, index, allocated, pipes, writers, child, taskid, finished>>
ltVars == <<main, current, entry, mtx, condMain, loopPtr, loops, early>>

BQ == INSTANCE BlockQueue
CQ == INSTANCE CircularQueue
TP == INSTANCE ThreadPool
PP == INSTANCE ProcessPool
LT == INSTANCE LoopThread

Programs == {"EventLoop", "BlockQueue", "CircularQueue", "ThreadPool", "ProcessPool", "LoopThread"}

\* A program that does not run has one initial state, not several.
MCInit ==
  /\ program \in Programs
  /\ Init /\ BQ!Init /\ CQ!Init /\ TP!Init /\ PP!Init /\ LT!Init
  /\ program # "ThreadPool" => lib = "log"
  /\ program # "ProcessPool" => times = 0
  /\ program # "LoopThread" => \A t \in 1 .. ThreadsSize : mtx[t]

MCNext ==
  /\ UNCHANGED program
  /\ \/ /\ program = "EventLoop" /\ Next
        /\ UNCHANGED <<bqVars, cqVars, tpVars, ppVars, ltVars>>
     \/ /\ program = "BlockQueue" /\ BQ!Next
        /\ UNCHANGED <<vars, cqVars, tpVars, ppVars, ltVars>>
     \/ /\ program = "CircularQueue" /\ CQ!Next
        /\ UNCHANGED <<vars, bqVars, tpVars, ppVars, ltVars>>
     \/ /\ program = "ThreadPool" /\ TP!Next
        /\ UNCHANGED <<vars, bqVars, cqVars, ppVars, ltVars>>
     \/ /\ program = "ProcessPool" /\ PP!Next
        /\ UNCHANGED <<vars, bqVars, cqVars, tpVars, ltVars>>
     \/ /\ program = "LoopThread" /\ LT!Next
        /\ UNCHANGED <<vars, bqVars, cqVars, tpVars, ppVars>>

mcVars == <<program, vars, bqVars, cqVars, tpVars, ppVars, ltVars>>

\* A thread or process of the program that runs goes on when it can; of LoopThread, where
\* spurious wake-ups can take the mutex for ever, it gets one that is free again and again.
\* (While another program runs nothing is pending in EventLoop, and its own conditions
\* hold.)
Goes(name, move) == program = name /\ move

MCSpec ==
  /\ MCInit /\ [][MCNext]_mcVars
  /\ WF_vars(LoopStep)
  /\ \A t \in Threads : WF_vars(WakeUpEpollToDoPending(t))
  /\ \A p \in Producers :
       /\ WF_bqVars(Goes("BlockQueue", BQ!Push(p)))
       /\ WF_cqVars(Goes("CircularQueue", CQ!Push(p)))
  /\ \A c \in Consumers :
       /\ WF_bqVars(Goes("BlockQueue", BQ!Pop(c) \/ BQ!RunPopped(c)))
       /\ WF_cqVars(Goes("CircularQueue", CQ!Pop(c) \/ CQ!RunTask(c)))
  /\ \A c \in Callers : WF_tpVars(Goes("ThreadPool", TP!CallerStep(c)))
  /\ \A w \in 1 .. Size : WF_tpVars(Goes("ThreadPool", TP!HandlerTask(w)))
  /\ WF_ppVars(Goes("ProcessPool", PP!ParentStep))
  /\ \A c \in 1 .. Children : WF_ppVars(Goes("ProcessPool", PP!ChildStep(c)))
  /\ SF_ltVars(Goes("LoopThread", LT!MainStep))
  /\ \A t \in 1 .. ThreadsSize : SF_ltVars(Goes("LoopThread", LT!ThreadEntry(t)))

-----------------------------------------------------------------------------

\* What is handed over is taken by one worker and done once, in its order, and who ends
\* the work does so when nothing is left: of the queues and pools alike, see
\* ImplementsHandOff of their modules.
ImplementHandOff ==
  /\ BQ!ImplementsHandOff /\ CQ!ImplementsHandOff
  /\ TP!ImplementsHandOff /\ PP!ImplementsHandOff

\* A producer and a consumer of CircularQueue are never in one slot (Push, Pop).
SlotsApart == CQ!SlotsApart

\* All tasks get through the bounded queues: nobody who waits for room or for a task is
\* forgotten (Push and Pop of BlockQueue and CircularQueue).
AllPassed ==
  /\ program = "BlockQueue" => BQ!AllRun
  /\ program = "CircularQueue" => CQ!AllConsumed

\* Stop of a ThreadPool comes back from its joins, whoever sleeps when it is called.
StopReturns == TP!StopReturns

\* CompleteAndQuit comes to its end, and no child outlives a parent that is killed.
NobodyStays == PP!NobodyStays

\* InitPool gets the loop of every LoopThread, unless a thread locks a mutex that is not
\* there yet.
LoopsHandedOver == program = "LoopThread" => LT!LoopsHandedOver
=============================================================================
