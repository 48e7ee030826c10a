----------------------------- MODULE EventLoop -----------------------------
(***************************************************************************)
(* The task queue of EventLoop (src/muduo/server.hpp): how another thread  *)
(* gets the loop's thread to run a task.                                   *)
(*                                                                         *)
(* RunInLoop pushes the task under _task_mtx and then, without the mutex,  *)
(* writes the eventfd.  The loop blocks in epoll_wait, handles the ready   *)
(* channels, takes the whole of _pending under the mutex and runs it.  The *)
(* channels are the eventfd's and the timerfd's; a connection's channel    *)
(* plays no part in the wakeup.  A critical section of _task_mtx is one    *)
(* step.                                                                   *)
(***************************************************************************)
EXTENDS Naturals, Sequences

CONSTANTS
  Threads,     \* the other threads that hand over tasks
  Loop,        \* the loop's own thread
  MaxTasks,    \* how many tasks each thread hands over (a bound)
  MaxOwn,      \* how many the loop's thread queues itself (a bound)
  EventFdMax   \* the largest value of the eventfd counter, 2^64 - 2

ASSUME LoopAssumption == Loop \notin Threads
ASSUME BoundsAssumption == MaxTasks \in Nat /\ MaxOwn \in Nat
ASSUME EventFdAssumption == EventFdMax \in Nat \ {0}

VARIABLES
  pending,    \* _pending
  batch,      \* DoPendingTask's local `pending`: the tasks it is running
  active,     \* _active_channel, the channels it has yet to handle
  eventfd,    \* the kernel's counter of _event_fd
  expired,    \* _timer_fd has expired since it was last read
  at,         \* where Loop() is: "poll", "dispatch" or "run"
  waking,     \* the threads that have pushed and not yet written the eventfd
  queued,     \* how many tasks each thread has queued
  ran         \* the tasks that were run, in order (a history variable)

vars == <<pending, batch, active, eventfd, expired, at, waking, queued, ran>>

\* The n-th task a thread queues.
Task == [by : Threads \cup {Loop}, n : 1 .. MaxTasks + MaxOwn]

NewTask(t) == [by |-> t, n |-> queued[t] + 1]

TypeOK ==
  /\ pending \in Seq(Task)
  /\ batch \in Seq(Task)
  /\ active \subseteq {"event", "timer"}
  /\ eventfd \in 0 .. EventFdMax
  /\ expired \in BOOLEAN
  /\ at \in {"poll", "dispatch", "run"}
  /\ waking \subseteq Threads
  /\ queued \in [Threads \cup {Loop} -> Nat]
  /\ ran \in Seq(Task)

Init ==
  /\ pending = <<>> /\ batch = <<>> /\ active = {}
  /\ eventfd = 0 /\ expired = FALSE
  /\ at = "poll"
  /\ waking = {}
  /\ queued = [t \in Threads \cup {Loop} |-> 0]
  /\ ran = <<>>

-----------------------------------------------------------------------------

\* RunInLoop in another thread, first half: QueueInLoop.
QueueInLoop(t) ==
  /\ t \notin waking
  /\ queued[t] < MaxTasks
  /\ pending' = Append(pending, NewTask(t))
  /\ queued' = [queued EXCEPT ![t] = @ + 1]
  /\ waking' = waking \cup {t}
  /\ UNCHANGED <<batch, active, eventfd, expired, at, ran>>

\* Mutant of WakeUpEpollToDoPending: RunInLoop is taken for QueueInLoop.
NoWakeUp(t) ==
  /\ t \in waking
  /\ waking' = waking \ {t}
  /\ UNCHANGED <<pending, batch, active, eventfd, expired, at, queued, ran>>

\* Mutant of WakeUpEpollToDoPending: a write to a full counter goes through.
WakeUpOverflowing(t) ==
  /\ t \in waking
  /\ eventfd' = eventfd + 1
  /\ waking' = waking \ {t}
  /\ UNCHANGED <<pending, batch, active, expired, at, queued, ran>>

\* Second half.  A write to a full counter fails with EAGAIN and is ignored.
WakeUpEpollToDoPending(t) ==
  /\ t \in waking
  /\ eventfd' = IF eventfd < EventFdMax THEN eventfd + 1 ELSE eventfd
  /\ waking' = waking \ {t}
  /\ UNCHANGED <<pending, batch, active, expired, at, queued, ran>>

\* SetTimer: the timerfd expires every second.
TimerExpires ==
  /\ expired' = TRUE
  /\ UNCHANGED <<pending, batch, active, eventfd, at, waking, queued, ran>>

-----------------------------------------------------------------------------

\* Mutant of Ready: the timerfd is not registered.
ReadyWithoutTimer == {c \in {"event"} : eventfd > 0}

Ready == {c \in {"event", "timer"} : IF c = "event" THEN eventfd > 0 ELSE expired}

\* epoll_wait blocks until a descriptor is ready, or is interrupted (EINTR).
Polling(interrupted) ==
  /\ at = "poll"
  /\ interrupted \/ Ready # {}
  /\ active' = IF interrupted THEN {} ELSE Ready
  /\ at' = "dispatch"
  /\ UNCHANGED <<pending, batch, eventfd, expired, waking, queued, ran>>

\* EventRead resets the counter.
EventRead ==
  /\ at = "dispatch" /\ "event" \in active
  /\ eventfd' = 0
  /\ active' = active \ {"event"}
  /\ UNCHANGED <<pending, batch, expired, at, waking, queued, ran>>

TimerReadCb ==
  /\ at = "dispatch" /\ "timer" \in active
  /\ expired' = FALSE
  /\ active' = active \ {"timer"}
  /\ UNCHANGED <<pending, batch, eventfd, at, waking, queued, ran>>

\* DoPendingTask takes all of _pending ...
SwapPending ==
  /\ at = "dispatch" /\ active = {}
  /\ batch' = pending
  /\ pending' = <<>>
  /\ at' = "run"
  /\ UNCHANGED <<active, eventfd, expired, waking, queued, ran>>

\* Mutant of RunTask: the batch is run from its back.
RunLastTask ==
  /\ at = "run" /\ batch # <<>>
  /\ ran' = Append(ran, batch[Len(batch)])
  /\ batch' = SubSeq(batch, 1, Len(batch) - 1)
  /\ UNCHANGED <<pending, active, eventfd, expired, at, waking, queued>>

\* ... and runs it, front to back.
RunTask ==
  /\ at = "run" /\ batch # <<>>
  /\ ran' = Append(ran, Head(batch))
  /\ batch' = Tail(batch)
  /\ UNCHANGED <<pending, active, eventfd, expired, at, waking, queued>>

\* A task that calls the public QueueInLoop: no wakeup.  (RunInLoop in the
\* loop's own thread runs its task at once, as part of the caller's step.)
RunQueueingTask ==
  /\ at = "run" /\ batch # <<>>
  /\ queued[Loop] < MaxOwn
  /\ ran' = Append(ran, Head(batch))
  /\ batch' = Tail(batch)
  /\ pending' = Append(pending, NewTask(Loop))
  /\ queued' = [queued EXCEPT ![Loop] = @ + 1]
  /\ UNCHANGED <<active, eventfd, expired, at, waking>>

\* Mutant of PollAgain: the eventfd is drained behind the tasks.
PollAgainDraining ==
  /\ at = "run" /\ batch = <<>>
  /\ at' = "poll"
  /\ eventfd' = 0
  /\ UNCHANGED <<pending, batch, active, expired, waking, queued, ran>>

PollAgain ==
  /\ at = "run" /\ batch = <<>>
  /\ at' = "poll"
  /\ UNCHANGED <<pending, batch, active, eventfd, expired, waking, queued, ran>>

\* The loop's thread, unless it is blocked.
LoopStep ==
  \/ Polling(FALSE)
  \/ EventRead \/ TimerReadCb
  \/ SwapPending
  \/ RunTask \/ RunQueueingTask
  \/ PollAgain

Next ==
  \/ \E t \in Threads : QueueInLoop(t) \/ WakeUpEpollToDoPending(t)
  \/ TimerExpires
  \/ Polling(TRUE)
  \/ LoopStep

Spec == Init /\ [][Next]_vars

\* Threads that can run do.  Nothing is assumed of the timer, of EINTR, or of
\* whether there are tasks.
FairSpec ==
  /\ Spec
  /\ WF_vars(LoopStep)
  /\ \A t \in Threads : WF_vars(WakeUpEpollToDoPending(t))

-----------------------------------------------------------------------------

HandedOver == {i \in 1 .. Len(pending) : pending[i].by # Loop}

(***************************************************************************)
(* The loop never sleeps on a task another thread has handed over: unless  *)
(* the eventfd is readable, the thread that pushed has yet to write it.    *)
(* (RunInLoop wakes after it pushes, and EventRead comes before the swap.) *)
(***************************************************************************)
NoLostWakeup ==
  at = "poll" /\ HandedOver # {} => eventfd > 0 \/ waking # {}

(***************************************************************************)
(* The mutex, the swap and the second vector are invisible: tasks run once *)
(* each, in the order in which they were queued.                           *)
(***************************************************************************)
Box == INSTANCE Mailbox WITH Tasks <- Task, queue <- batch \o pending

ImplementsMailbox == Box!Spec

HasRun(t, n) == \E i \in 1 .. Len(ran) : ran[i] = [by |-> t, n |-> n]

(***************************************************************************)
(* What another thread hands over with RunInLoop is run, whether or not a  *)
(* timer or a connection ever wakes the loop.                              *)
(***************************************************************************)
HandedOverRuns ==
  \A t \in Threads, n \in 1 .. MaxTasks : queued[t] >= n ~> HasRun(t, n)

(***************************************************************************)
(* What the loop's thread queues itself, without a wakeup, is run too, but *)
(* only because the timerfd, armed in the constructor, expires again and   *)
(* again.                                                                  *)
(***************************************************************************)
OwnTasksRun ==
  WF_vars(TimerExpires) =>
    \A n \in 1 .. MaxOwn : queued[Loop] >= n ~> HasRun(Loop, n)
=============================================================================
