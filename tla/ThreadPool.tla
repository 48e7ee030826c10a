----------------------------- MODULE ThreadPool -----------------------------
(***************************************************************************)
(* The pools of src/Test_11_29_pool_log ("log"), src/os/thread ("os") and  *)
(* src/Test_11_28_ThreadPool_Semph ("plain"): callers that get the single  *)
(* instance (of "log" and "os") and enqueue tasks, the pool's threads, and *)
(* the caller that made the pool, which stops it.                          *)
(*                                                                         *)
(* What the code does between lock and unlock, or lock and wait, of _mutex *)
(* is a step.  GetSingleInstance, Init and Start do not take _mutex.       *)
(***************************************************************************)
EXTENDS Naturals, Sequences

CONSTANTS
  Libs,       \* which of the pools
  Callers,    \* threads that use the pool
  Tasks,      \* bound: the tasks each of them enqueues, 1 .. Tasks
  Size        \* _thread_num

Workers == 1 .. Size

VARIABLES
  lib,        \* which pool it is
  tpPtr,      \* _tp_ptr has been set
  maker,      \* the caller that has taken _single_mutex to make the pool: a set of at most one
  isRunning,  \* _is_running
  tasksQueue, \* _tasks_queue
  sleeping,   \* _sleep_threads_num
  cond,       \* the threads that wait on _cond
  caller,     \* by caller, where it is
  enqueued,   \* by caller, how many tasks it has tried to enqueue
  worker,     \* by thread, where it is
  task,       \* by thread, the task it runs: a sequence of at most one
  stopped,    \* how many threads Stop has joined
  executed    \* the tasks that were run (history)

tpVars == <<lib, tpPtr, maker, isRunning, tasksQueue, sleeping, cond, caller, enqueued,
            worker, task, stopped, executed>>

\* main of "plain" makes its pool itself, and starts nobody who uses it before Start.
Init ==
  /\ lib \in Libs
  /\ IF lib = "plain"
     THEN \E c \in Callers :
            /\ tpPtr = TRUE
            /\ maker = {c}
            /\ caller = [d \in Callers |-> IF d = c THEN "init" ELSE "locking"]
     ELSE tpPtr = FALSE /\ maker = {} /\ caller = [c \in Callers |-> "get"]
  /\ isRunning = FALSE
  /\ tasksQueue = <<>>
  /\ sleeping = 0
  /\ cond = {}
  /\ enqueued = [c \in Callers |-> 0]
  /\ worker = [w \in Workers |-> "none"]
  /\ task = [w \in Workers |-> <<>>]
  /\ stopped = 0
  /\ executed = {}

\* pthread_cond_signal: one of the waiters, if there is one, goes on.
Signalled == IF cond = {} THEN {cond} ELSE {cond \ {w} : w \in cond}

-----------------------------------------------------------------------------
(* GetSingleInstance, Init and Start *)

\* The first test, outside of the lock, finds the pointer.
Found(c) ==
  /\ caller[c] = "get" /\ tpPtr
  /\ caller' = [caller EXCEPT ![c] = "use"]
  /\ UNCHANGED <<lib, tpPtr, maker, isRunning, tasksQueue, sleeping, cond, enqueued, worker,
                 task, stopped, executed>>

\* It does not: LockGuard, and the second test.
LockSingle(c) ==
  /\ caller[c] = "get" /\ ~tpPtr
  /\ caller' = [caller EXCEPT ![c] = "locking"]
  /\ UNCHANGED <<lib, tpPtr, maker, isRunning, tasksQueue, sleeping, cond, enqueued, worker,
                 task, stopped, executed>>

FoundLocked(c) ==
  /\ caller[c] = "locking" /\ tpPtr
  /\ \A d \in maker : caller[d] # "init" /\ caller[d] # "start"
  /\ caller' = [caller EXCEPT ![c] = "use"]
  /\ UNCHANGED <<lib, tpPtr, maker, isRunning, tasksQueue, sleeping, cond, enqueued, worker,
                 task, stopped, executed>>

\* new ThreadPool: the pointer is seen by everybody before Init and Start.
New(c) ==
  /\ caller[c] = "locking" /\ ~tpPtr
  /\ tpPtr' = TRUE
  /\ maker' = {c}
  /\ caller' = [caller EXCEPT ![c] = "init"]
  /\ UNCHANGED <<lib, isRunning, tasksQueue, sleeping, cond, enqueued, worker, task, stopped,
                 executed>>

InitPool(c) ==
  /\ caller[c] = "init"
  /\ isRunning' = TRUE
  /\ caller' = [caller EXCEPT ![c] = "start"]
  /\ UNCHANGED <<lib, tpPtr, maker, tasksQueue, sleeping, cond, enqueued, worker, task, stopped,
                 executed>>

\* Start creates a thread; after the last one _single_mutex is unlocked.
StartThread(c) ==
  /\ caller[c] = "start"
  /\ \E w \in Workers :
       /\ worker[w] = "none" /\ \A v \in 1 .. w - 1 : worker[v] # "none"
       /\ worker' = [worker EXCEPT ![w] = "top"]
       /\ caller' = IF w = Size THEN [caller EXCEPT ![c] = "use"] ELSE caller
  /\ UNCHANGED <<lib, tpPtr, maker, isRunning, tasksQueue, sleeping, cond, enqueued, task,
                 stopped, executed>>

-----------------------------------------------------------------------------
(* Enqueue and Stop *)

\* "log" wakes a thread up if one sleeps, the others in any case.
WakesOne == lib = "log" => sleeping > 0

Enqueue(c) ==
  /\ caller[c] = "use" /\ enqueued[c] < Tasks
  /\ enqueued' = [enqueued EXCEPT ![c] = @ + 1]
  /\ IF isRunning
     THEN /\ tasksQueue' = Append(tasksQueue, <<c, enqueued[c] + 1>>)
          /\ cond' \in IF WakesOne THEN Signalled ELSE {cond}
     ELSE UNCHANGED <<tasksQueue, cond>>
  /\ UNCHANGED <<lib, tpPtr, maker, isRunning, sleeping, caller, worker, task, stopped, executed>>

\* Mutant of WakesAll: the counter is off by one.
WakesAllButOne == sleeping > 1

\* "os" wakes the sleeping threads if there are any, the others in any case.
WakesAll == lib = "os" => sleeping > 0

\* The caller that made the pool has enqueued its tasks and stops it.
Stop(c) ==
  /\ caller[c] = "use" /\ maker = {c} /\ enqueued[c] = Tasks
  /\ isRunning' = FALSE
  /\ cond' = IF WakesAll THEN {} ELSE cond
  /\ caller' = [caller EXCEPT ![c] = "join"]
  /\ UNCHANGED <<lib, tpPtr, maker, tasksQueue, sleeping, enqueued, worker, task, stopped,
                 executed>>

Join(c) ==
  /\ caller[c] = "join" /\ stopped < Size /\ worker[stopped + 1] = "exited"
  /\ stopped' = stopped + 1
  /\ UNCHANGED <<lib, tpPtr, maker, isRunning, tasksQueue, sleeping, cond, caller, enqueued,
                 worker, task, executed>>

-----------------------------------------------------------------------------
(* HandlerTask: the test at the top of the loop, and again behind the wait *)

Awake(w) == worker[w] = "top" \/ (worker[w] = "wait" /\ w \notin cond)

\* What --_sleep_threads_num leaves of the counter before the test.
Counted(w) == IF worker[w] = "wait" THEN sleeping - 1 ELSE sleeping

Sleep(w) ==
  /\ Awake(w) /\ tasksQueue = <<>> /\ isRunning
  /\ sleeping' = Counted(w) + 1
  /\ cond' = cond \cup {w}
  /\ worker' = [worker EXCEPT ![w] = "wait"]
  /\ UNCHANGED <<lib, tpPtr, maker, isRunning, tasksQueue, caller, enqueued, task, stopped,
                 executed>>

\* Mutant of MayExit: tasks are left.
MayExitEarly == ~isRunning

MayExit == tasksQueue = <<>> /\ ~isRunning

Exit(w) ==
  /\ Awake(w) /\ MayExit
  /\ sleeping' = Counted(w)
  /\ worker' = [worker EXCEPT ![w] = "exited"]
  /\ UNCHANGED <<lib, tpPtr, maker, isRunning, tasksQueue, cond, caller, enqueued, task, stopped,
                 executed>>

TakeTask(w) ==
  /\ Awake(w) /\ tasksQueue # <<>>
  /\ sleeping' = Counted(w)
  /\ task' = [task EXCEPT ![w] = <<Head(tasksQueue)>>]
  /\ tasksQueue' = Tail(tasksQueue)
  /\ worker' = [worker EXCEPT ![w] = "run"]
  /\ UNCHANGED <<lib, tpPtr, maker, isRunning, cond, caller, enqueued, stopped, executed>>

\* task(name), without the lock.
RunTask(w) ==
  /\ worker[w] = "run"
  /\ executed' = executed \cup {task[w][1]}
  /\ task' = [task EXCEPT ![w] = <<>>]
  /\ worker' = [worker EXCEPT ![w] = "top"]
  /\ UNCHANGED <<lib, tpPtr, maker, isRunning, tasksQueue, sleeping, cond, caller, enqueued,
                 stopped>>

\* pthread_cond_wait may return without a signal.
SpuriousWakeUp ==
  /\ \E w \in cond : cond' = cond \ {w}
  /\ UNCHANGED <<lib, tpPtr, maker, isRunning, tasksQueue, sleeping, caller, enqueued, worker,
                 task, stopped, executed>>

HandlerTask(w) == Sleep(w) \/ Exit(w) \/ TakeTask(w) \/ RunTask(w)

GetSingleInstance(c) ==
  Found(c) \/ LockSingle(c) \/ FoundLocked(c) \/ New(c) \/ InitPool(c) \/ StartThread(c)

CallerStep(c) == GetSingleInstance(c) \/ Enqueue(c) \/ Stop(c) \/ Join(c)

Next ==
  \/ \E c \in Callers : CallerStep(c)
  \/ \E w \in Workers : HandlerTask(w)
  \/ SpuriousWakeUp

Spec == Init /\ [][Next]_tpVars

-----------------------------------------------------------------------------
(* Properties *)

\* A task that Enqueue has accepted is taken by one thread, the oldest first, and run
\* once; and when Stop has joined the threads no task is left, queued or running.
\* (Enqueue, HandlerTask, Stop; an Enqueue before Init or after Stop accepts nothing)
Work == INSTANCE HandOff WITH
  Lane <- {"queue"}, Item <- Callers \X (1 .. Tasks),
  waiting <- [l \in {"queue"} |-> tasksQueue],
  doing <- {task[w][1] : w \in {v \in Workers : task[v] # <<>>}},
  done <- executed,
  open <- ~\E c \in Callers : caller[c] = "join",
  ended <- stopped = Size
ImplementsHandOff == Work!Spec

\* Stop returns: no thread sleeps through it, although the count that decides whether
\* to wake the threads ("os") also counts those that are awake again.
StopReturns == (\E c \in Callers : caller[c] = "join") ~> stopped = Size
=============================================================================
