----------------------------- MODULE LoopThread -----------------------------
(***************************************************************************)
(* LoopThreadPool::InitPool and LoopThread (src/muduo/server.hpp): the     *)
(* main thread starts one thread after the other and waits for each one's  *)
(* EventLoop, which the thread makes itself.                               *)
(*                                                                         *)
(* _thread is declared before _mtx and _cond, so the thread runs before    *)
(* they are constructed: it locks what the memory held before, if that     *)
(* looks like a free mutex, and the constructor may then make it a free    *)
(* one while it is locked.  Otherwise it waits, and nobody wakes it: the   *)
(* constructor does not, nor does an unlock of a mutex it saw no waiter on.*)
(***************************************************************************)
EXTENDS Naturals

CONSTANT ThreadsSize   \* _threads_size

VARIABLES
  main,       \* where InitPool is
  current,    \* the LoopThread it makes
  entry,      \* by thread, where ThreadEntry is
  mtx,        \* by thread, whether _mtx is locked
  condMain,   \* whether the main thread waits on the current _cond
  loopPtr,    \* by thread, whether _loop has been set
  loops,      \* how many pointers are in _loops
  early       \* the threads that used _mtx before it was constructed (history)

ltVars == <<main, current, entry, mtx, condMain, loopPtr, loops, early>>

Init ==
  /\ main = "thread"
  /\ current = 1
  /\ entry = [t \in 1 .. ThreadsSize |-> "none"]
  /\ mtx \in [1 .. ThreadsSize -> BOOLEAN]
  /\ condMain = FALSE
  /\ loopPtr = [t \in 1 .. ThreadsSize |-> FALSE]
  /\ loops = 0
  /\ early = {}

-----------------------------------------------------------------------------
(* The constructor of LoopThread, and GetLoopPtr *)

StartThread ==
  /\ main = "thread"
  /\ entry' = [entry EXCEPT ![current] = "construct"]
  /\ main' = "mtx"
  /\ UNCHANGED <<current, mtx, condMain, loopPtr, loops, early>>

ConstructMembers ==
  /\ main = "mtx"
  /\ mtx' = [mtx EXCEPT ![current] = FALSE]
  /\ main' = "lock"
  /\ UNCHANGED <<current, entry, condMain, loopPtr, loops, early>>

\* unique_lock, and again at the end of the wait.
LockMain ==
  /\ main = "lock" /\ ~mtx[current] /\ ~condMain
  /\ mtx' = [mtx EXCEPT ![current] = TRUE]
  /\ main' = "test"
  /\ UNCHANGED <<current, entry, condMain, loopPtr, loops, early>>

\* _cond.wait finds _loop set: unlock and return.
FindLoop ==
  /\ main = "test" /\ loopPtr[current]
  /\ mtx' = [mtx EXCEPT ![current] = FALSE]
  /\ loops' = loops + 1
  /\ IF current = ThreadsSize THEN main' = "ready" /\ UNCHANGED current
     ELSE main' = "thread" /\ current' = current + 1
  /\ UNCHANGED <<entry, condMain, loopPtr, early>>

FindNoLoop ==
  /\ main = "test" /\ ~loopPtr[current]
  /\ main' = "wait"
  /\ UNCHANGED <<current, entry, mtx, condMain, loopPtr, loops, early>>

\* To wait and to unlock _mtx is one step.
WaitMain ==
  /\ main = "wait"
  /\ condMain' = TRUE
  /\ mtx' = [mtx EXCEPT ![current] = FALSE]
  /\ main' = "lock"
  /\ UNCHANGED <<current, entry, loopPtr, loops, early>>

SpuriousWakeUp ==
  /\ condMain
  /\ condMain' = FALSE
  /\ UNCHANGED <<main, current, entry, mtx, loopPtr, loops, early>>

-----------------------------------------------------------------------------
(* ThreadEntry *)

Goes(t, from, to) == entry[t] = from /\ entry' = [entry EXCEPT ![t] = to]

ConstructLoop(t) ==
  /\ Goes(t, "construct", "lock")
  /\ UNCHANGED <<main, current, mtx, condMain, loopPtr, loops, early>>

\* The thread goes to sleep on a mutex that is not there yet.
BlockEarly(t) ==
  /\ main = "mtx" /\ current = t /\ mtx[t]
  /\ Goes(t, "lock", "asleep")
  /\ early' = early \cup {t}
  /\ UNCHANGED <<main, current, mtx, condMain, loopPtr, loops>>

LockEntry(t) ==
  /\ ~mtx[t]
  /\ Goes(t, "lock", "set")
  /\ mtx' = [mtx EXCEPT ![t] = TRUE]
  /\ early' = IF main = "mtx" /\ current = t THEN early \cup {t} ELSE early
  /\ UNCHANGED <<main, current, condMain, loopPtr, loops>>

SetLoop(t) ==
  /\ Goes(t, "set", "notify")
  /\ loopPtr' = [loopPtr EXCEPT ![t] = TRUE]
  /\ UNCHANGED <<main, current, mtx, condMain, loops, early>>

\* Mutant of NotifyAll: nobody is told.
NotifyNobody(t) ==
  /\ Goes(t, "notify", "unlock")
  /\ UNCHANGED <<main, current, mtx, condMain, loopPtr, loops, early>>

NotifyAll(t) ==
  /\ Goes(t, "notify", "unlock")
  /\ condMain' = IF current = t THEN FALSE ELSE condMain
  /\ UNCHANGED <<main, current, mtx, loopPtr, loops, early>>

UnlockEntry(t) ==
  /\ Goes(t, "unlock", "Loop")
  /\ mtx' = [mtx EXCEPT ![t] = FALSE]
  /\ UNCHANGED <<main, current, condMain, loopPtr, loops, early>>

ThreadEntry(t) ==
  ConstructLoop(t) \/ BlockEarly(t) \/ LockEntry(t) \/ SetLoop(t) \/ NotifyAll(t) \/ UnlockEntry(t)

MainStep == StartThread \/ ConstructMembers \/ LockMain \/ FindLoop \/ FindNoLoop \/ WaitMain

Next == MainStep \/ SpuriousWakeUp \/ \E t \in 1 .. ThreadsSize : ThreadEntry(t)

Spec == Init /\ [][Next]_ltVars

-----------------------------------------------------------------------------
(* Properties *)

\* InitPool gets the loop of every thread: a notify that comes before the wait is not
\* missed, for the predicate is tested under _mtx ("防止如果eventloop还没有构造，外部就要获取",
\* server.hpp:1532).  Unless a thread gets to its lock before _mtx is constructed: it may
\* sleep for ever, or its notify may fall between the test and the wait of GetLoopPtr; in
\* both cases GetLoopPtr never returns.
LoopsHandedOver == <>(loops = ThreadsSize \/ early # {})
=============================================================================
