---------------------------- MODULE HandOffProofs ----------------------------
(***************************************************************************)
(* Proofs about the event loop, the queues and the pools, for any number   *)
(* of threads, tasks, slots and processes: EventLoop loses no wakeup and   *)
(* implements Mailbox, each of the others implements HandOff, and          *)
(* CircularQueue keeps a producer and a consumer apart.                    *)
(***************************************************************************)
EXTENDS MCHandOff, FiniteSetTheorems, SequenceTheorems, TLAPS

-----------------------------------------------------------------------------
(* The tasks of an event loop. *)

\* A task handed over below its bound is one of the loop's tasks.
LEMMA NewTaskType ==
  ASSUME TypeOK, NEW t \in Threads \cup {Loop}, queued[t] < MaxTasks \/ queued[t] < MaxOwn
  PROVE  NewTask(t) \in Task
BY BoundsAssumption DEF TypeOK, NewTask, Task

(***************************************************************************)
(* EventLoop's queue, batch and counters keep their types.                 *)
(***************************************************************************)
THEOREM LoopTypeCorrect == Spec => []TypeOK
<1>1. Init => TypeOK
  <2>1. <<>> \in Seq(Task)
    BY EmptySeq
  <2>2. 0 \in 0 .. EventFdMax
    BY EventFdAssumption
  <2>3. [t \in Threads \cup {Loop} |-> 0] \in [Threads \cup {Loop} -> Nat]
    OBVIOUS
  <2> QED BY <2>1, <2>2, <2>3, Zenon DEF Init, TypeOK
<1>2. TypeOK /\ [Next]_vars => TypeOK'
  <2> SUFFICES ASSUME TypeOK, [Next]_vars PROVE TypeOK'
    OBVIOUS
  <2> USE DEF TypeOK
  <2>1. ASSUME NEW t \in Threads, QueueInLoop(t) PROVE TypeOK'
    <3>1. NewTask(t) \in Task
      BY <2>1, NewTaskType DEF QueueInLoop
    <3>2. pending' \in Seq(Task)
      BY <2>1, <3>1, AppendProperties DEF QueueInLoop
    <3> QED BY <2>1, <3>2 DEF QueueInLoop
  <2>2. ASSUME NEW t \in Threads, WakeUpEpollToDoPending(t) PROVE TypeOK'
    BY <2>2, EventFdAssumption DEF WakeUpEpollToDoPending
  <2>3. CASE TimerExpires
    BY <2>3 DEF TimerExpires
  <2>4. ASSUME NEW b \in BOOLEAN, Polling(b) PROVE TypeOK'
    BY <2>4 DEF Polling, Ready
  <2>5. CASE EventRead
    BY <2>5, EventFdAssumption DEF EventRead
  <2>6. CASE TimerReadCb
    BY <2>6 DEF TimerReadCb
  <2>7. CASE SwapPending
    BY <2>7, EmptySeq DEF SwapPending
  <2>8. CASE RunTask
    <3>1. Head(batch) \in Task /\ Tail(batch) \in Seq(Task)
      BY <2>8, HeadTailProperties DEF RunTask
    <3> QED BY <2>8, <3>1, AppendProperties DEF RunTask
  <2>9. CASE RunQueueingTask
    <3>1. Head(batch) \in Task /\ Tail(batch) \in Seq(Task)
      BY <2>9, HeadTailProperties DEF RunQueueingTask
    <3>2. NewTask(Loop) \in Task
      BY <2>9, NewTaskType DEF RunQueueingTask
    <3>3. ran' \in Seq(Task) /\ pending' \in Seq(Task)
      BY <2>9, <3>1, <3>2, AppendProperties DEF RunQueueingTask
    <3> QED BY <2>9, <3>1, <3>3 DEF RunQueueingTask
  <2>10. CASE PollAgain
    BY <2>10 DEF PollAgain
  <2>11. CASE UNCHANGED vars
    BY <2>11 DEF vars
  <2> QED
    BY <2>1, <2>2, <2>3, <2>4, <2>5, <2>6, <2>7, <2>8, <2>9, <2>10, <2>11
    DEF Next, LoopStep
<1> QED BY <1>1, <1>2, PTL DEF Spec

-----------------------------------------------------------------------------

\* NoLostWakeup, and the same while the tasks run: only between EventRead and
\* the swap may there be a task that nothing announces.
WakeInv ==
  at # "dispatch" /\ HandedOver # {} => eventfd > 0 \/ waking # {}

LEMMA WakeInvInductive == TypeOK /\ WakeInv /\ [Next]_vars => WakeInv'
<1> SUFFICES ASSUME TypeOK, WakeInv, [Next]_vars PROVE WakeInv'
  OBVIOUS
<1>1. ASSUME NEW t \in Threads, QueueInLoop(t) PROVE WakeInv'
  BY <1>1 DEF QueueInLoop, WakeInv
<1>2. ASSUME NEW t \in Threads, WakeUpEpollToDoPending(t) PROVE WakeInv'
  <2>1. eventfd' > 0
    BY <1>2, EventFdAssumption DEF WakeUpEpollToDoPending, TypeOK
  <2> QED BY <2>1 DEF WakeInv
<1>3. CASE at' = "dispatch"
  BY <1>3 DEF WakeInv
<1>4. CASE SwapPending
  <2>1. HandedOver' = {}
    BY <1>4 DEF SwapPending, HandedOver
  <2> QED BY <2>1 DEF WakeInv
<1>5. CASE RunQueueingTask
  <2> DEFINE x == NewTask(Loop)
  <2>1. pending' = Append(pending, x) /\ pending \in Seq(Task) /\ x.by = Loop
    BY <1>5 DEF RunQueueingTask, TypeOK, NewTask
  <2>2. x \in Task
    BY <1>5, NewTaskType DEF RunQueueingTask
  <2> HIDE DEF x
  <2>3. /\ Len(pending') = Len(pending) + 1
        /\ \A i \in 1 .. Len(pending) : pending'[i] = pending[i]
        /\ pending'[Len(pending) + 1] = x
    BY <2>1, <2>2, AppendProperties
  <2>4. HandedOver' \subseteq HandedOver
    <3> SUFFICES ASSUME NEW i \in 1 .. Len(pending'), pending'[i].by # Loop
                 PROVE  i \in 1 .. Len(pending) /\ pending[i].by # Loop
      BY DEF HandedOver
    <3>1. Len(pending) \in Nat
      BY <2>1, LenProperties
    <3> QED BY <2>1, <2>3, <3>1
  <2>5. at = "run" /\ eventfd' = eventfd /\ waking' = waking
    BY <1>5 DEF RunQueueingTask
  <2> QED BY <2>4, <2>5 DEF WakeInv
<1>6. CASE RunTask \/ PollAgain \/ TimerExpires \/ UNCHANGED vars
  <2>1. /\ pending' = pending /\ eventfd' = eventfd /\ waking' = waking
        /\ at' = "dispatch" => at = "dispatch"
        /\ at = "dispatch" => at' = "dispatch"
    BY <1>6 DEF RunTask, PollAgain, TimerExpires, vars
  <2> QED BY <2>1 DEF WakeInv, HandedOver
<1>7. ASSUME NEW b \in BOOLEAN, Polling(b) PROVE at' = "dispatch"
  BY <1>7 DEF Polling
<1>8. CASE EventRead \/ TimerReadCb
  BY <1>3, <1>8 DEF EventRead, TimerReadCb
<1> QED BY <1>1, <1>2, <1>3, <1>4, <1>5, <1>6, <1>7, <1>8 DEF Next, LoopStep

(***************************************************************************)
(* The loop never sleeps on a task that RunInLoop has handed over from     *)
(* another thread.                                                         *)
(***************************************************************************)
THEOREM WakeupNeverLost == Spec => []NoLostWakeup
<1>1. Init => WakeInv
  BY DEF Init, WakeInv, HandedOver
<1>2. WakeInv => NoLostWakeup
  BY DEF WakeInv, NoLostWakeup
<1> QED BY <1>1, <1>2, WakeInvInductive, LoopTypeCorrect, PTL DEF Spec

-----------------------------------------------------------------------------

\* Appending to the second of two sequences appends to both.
LEMMA AppendToConcat ==
  \A s, t \in Seq(Task), e \in Task : Append(s \o t, e) = s \o Append(t, e)
<1> TAKE s, t \in Seq(Task), e \in Task
<1>1. s \o t \in Seq(Task) /\ <<e>> \in Seq(Task)
  BY ConcatProperties
<1>2. Append(s \o t, e) = (s \o t) \o <<e>>
  BY <1>1, AppendIsConcat
<1>3. Append(t, e) = t \o <<e>>
  BY AppendIsConcat
<1>4. (s \o t) \o <<e>> = s \o (t \o <<e>>)
  BY <1>1, ConcatAssociative
<1> QED BY <1>2, <1>3, <1>4

\* The first of two sequences, when it is not empty, is where both begin.
LEMMA HeadTailOfConcat ==
  ASSUME NEW S, NEW s \in Seq(S), NEW t \in Seq(S), s # <<>>
  PROVE  s \o t # <<>> /\ Head(s \o t) = Head(s) /\ Tail(s \o t) = Tail(s) \o t
<1> DEFINE u == s \o t
           h == Tail(s)
           v == h \o t
<1>1. /\ u \in Seq(S) /\ Len(u) = Len(s) + Len(t)
      /\ \A i \in 1 .. Len(s) + Len(t) : u[i] = IF i <= Len(s) THEN s[i] ELSE t[i - Len(s)]
  BY ConcatProperties
<1>2. Len(s) \in Nat \ {0} /\ Len(t) \in Nat
  BY LenProperties, EmptySeq
<1>3. /\ h \in Seq(S) /\ Len(h) = Len(s) - 1
      /\ \A i \in 1 .. Len(h) : h[i] = s[i + 1]
  BY HeadTailProperties
<1> HIDE DEF h
<1>4. /\ v \in Seq(S) /\ Len(v) = Len(h) + Len(t)
      /\ \A i \in 1 .. Len(h) + Len(t) : v[i] = IF i <= Len(h) THEN h[i] ELSE t[i - Len(h)]
  BY <1>3, ConcatProperties
<1> HIDE DEF u, v
<1>5. u # <<>> /\ Len(u) \in Nat
  BY <1>1, <1>2, EmptySeq
<1>6. /\ Tail(u) \in Seq(S) /\ Len(Tail(u)) = Len(u) - 1
      /\ \A i \in 1 .. Len(Tail(u)) : Tail(u)[i] = u[i + 1]
  BY <1>1, <1>5, HeadTailProperties
<1>7. Head(u) = Head(s)
  <2>1. u[1] = s[1]
    BY <1>1, <1>2
  <2> QED BY <2>1
<1>8. Len(Tail(u)) = Len(v)
  BY <1>1, <1>2, <1>3, <1>4, <1>6
<1>9. ASSUME NEW i \in 1 .. Len(v) PROVE Tail(u)[i] = v[i]
  <2>1. i \in 1 .. Len(Tail(u)) /\ i \in 1 .. Len(h) + Len(t) /\ i + 1 \in 1 .. Len(s) + Len(t)
    BY <1>2, <1>3, <1>4, <1>8
  <2>2. Tail(u)[i] = IF i + 1 <= Len(s) THEN s[i + 1] ELSE t[i + 1 - Len(s)]
    BY <1>1, <1>6, <2>1
  <2>3. CASE i <= Len(h)
    <3>1. i \in 1 .. Len(h) /\ i + 1 <= Len(s)
      BY <1>2, <1>3, <2>3
    <3> QED BY <1>3, <1>4, <2>1, <2>2, <2>3, <3>1
  <2>4. CASE ~(i <= Len(h))
    <3>1. ~(i + 1 <= Len(s)) /\ i + 1 - Len(s) = i - Len(h)
      BY <1>2, <1>3, <2>4
    <3> QED BY <1>4, <2>1, <2>2, <2>4, <3>1
  <2> QED BY <2>3, <2>4
<1>10. Tail(u) = v
  BY <1>4, <1>6, <1>8, <1>9, SeqEqual
<1> QED BY <1>5, <1>7, <1>10 DEF u, v, h

\* DoPendingTask's batch is empty outside DoPendingTask.
BatchInv == at # "run" => batch = <<>>

LEMMA BatchInvInductive == TypeOK /\ BatchInv /\ [Next]_vars => BatchInv'
BY DEF Next, LoopStep, BatchInv, QueueInLoop, WakeUpEpollToDoPending, TimerExpires,
       Polling, EventRead, TimerReadCb, SwapPending, RunTask, RunQueueingTask,
       PollAgain, vars

LEMMA StepImplements ==
  TypeOK /\ BatchInv /\ [Next]_vars => [Box!Next]_<<batch \o pending, ran>>
<1> SUFFICES ASSUME TypeOK, BatchInv, [Next]_vars
             PROVE  [Box!Next]_<<batch \o pending, ran>>
  OBVIOUS
<1>0. batch \in Seq(Task) /\ pending \in Seq(Task)
  BY DEF TypeOK
<1>1. ASSUME NEW t \in Threads, QueueInLoop(t) PROVE Box!Next
  <2>1. NewTask(t) \in Task
    BY <1>1, NewTaskType DEF QueueInLoop
  <2>2. batch' \o pending' = Append(batch \o pending, NewTask(t)) /\ ran' = ran
    BY <1>0, <1>1, <2>1, AppendToConcat DEF QueueInLoop
  <2>3. Box!Queue(NewTask(t))
    BY <2>2 DEF Box!Queue
  <2> QED BY <2>1, <2>3 DEF Box!Next
<1>2. CASE SwapPending
  <2>1. batch = <<>> /\ batch' = pending /\ pending' = <<>> /\ ran' = ran
    BY <1>2 DEF SwapPending, BatchInv
  <2>2. batch' \o pending' = pending /\ batch \o pending = pending
    BY <1>0, <2>1, ConcatEmptySeq
  <2> QED BY <2>1, <2>2
<1>3. CASE RunTask
  <2>1. batch # <<>> /\ batch' = Tail(batch) /\ ran' = Append(ran, Head(batch)) /\ pending' = pending
    BY <1>3 DEF RunTask
  <2>2. /\ batch \o pending # <<>> /\ Head(batch \o pending) = Head(batch)
        /\ Tail(batch \o pending) = batch' \o pending'
    BY <1>0, <2>1, HeadTailOfConcat
  <2>3. Box!Run
    BY <2>1, <2>2 DEF Box!Run
  <2> QED BY <2>3 DEF Box!Next
<1>4. CASE RunQueueingTask
  <2> DEFINE x == NewTask(Loop)
  <2>1. /\ batch # <<>> /\ batch' = Tail(batch) /\ ran' = Append(ran, Head(batch))
        /\ pending' = Append(pending, x)
    BY <1>4 DEF RunQueueingTask
  <2>2. x \in Task
    BY <1>4, NewTaskType DEF RunQueueingTask
  <2> HIDE DEF x
  <2>3. /\ batch \o pending # <<>> /\ Head(batch \o pending) = Head(batch)
        /\ Tail(batch \o pending) = Tail(batch) \o pending
    BY <1>0, <2>1, HeadTailOfConcat
  <2>4. Tail(batch) \in Seq(Task)
    BY <1>0, <2>1, HeadTailProperties
  <2>5. batch' \o pending' = Append(Tail(batch \o pending), x)
    <3>1. Append(Tail(batch) \o pending, x) = Tail(batch) \o Append(pending, x)
      BY <1>0, <2>2, <2>4, AppendToConcat
    <3> QED BY <2>1, <2>3, <3>1
  <2>6. Box!Run
    BY <2>1, <2>2, <2>3, <2>5 DEF Box!Run
  <2> QED BY <2>6 DEF Box!Next
<1>5. ASSUME batch' = batch, pending' = pending, ran' = ran
      PROVE  UNCHANGED <<batch \o pending, ran>>
  BY <1>5
<1>6. ASSUME \/ \E t \in Threads : WakeUpEpollToDoPending(t)
             \/ \E b \in BOOLEAN : Polling(b)
             \/ TimerExpires \/ EventRead \/ TimerReadCb \/ PollAgain \/ UNCHANGED vars
      PROVE  batch' = batch /\ pending' = pending /\ ran' = ran
  BY <1>6 DEF WakeUpEpollToDoPending, Polling, TimerExpires, EventRead, TimerReadCb,
              PollAgain, vars
<1> QED BY <1>1, <1>2, <1>3, <1>4, <1>5, <1>6 DEF Next, LoopStep

(***************************************************************************)
(* RunInLoop and DoPendingTask are a FIFO mailbox: the tasks run once each *)
(* in the order of their pushes, whatever the loop is doing meanwhile.     *)
(***************************************************************************)
THEOREM LoopImplementsMailbox == Spec => ImplementsMailbox
<1>1. Init => BatchInv
  BY DEF Init, BatchInv
<1>2. Init => Box!Init
  BY ConcatEmptySeq, EmptySeq DEF Init, Box!Init
<1> QED
  BY <1>1, <1>2, BatchInvInductive, StepImplements, LoopTypeCorrect, PTL
  DEF Spec, ImplementsMailbox, Box!Spec

-----------------------------------------------------------------------------
(* Lanes of items that workers take, whatever the program. *)

\* What a worker has taken: nothing, or one item.
AtMostOne(I) == {<<>>} \cup {<<x>> : x \in I}

\* In lanes l \in L the items q[l], with the workers w \in W the items h[w].
Typed(L, q, W, h, I) == q \in [L -> Seq(I)] /\ h \in [W -> AtMostOne(I)]

Held(h, W) == {h[w][1] : w \in {v \in W : h[v] # <<>>}}

InLanes(q, L) == UNION {{q[l][i] : i \in DOMAIN q[l]} : l \in L}

\* Handed over before: in a lane, with a worker, or done.
Seen(L, q, W, h, d) == Held(h, W) \cup d \cup InLanes(q, L)

\* No item is in two places.
Once(L, q, W, h) ==
  /\ \A l, m \in L : \A i \in DOMAIN q[l], j \in DOMAIN q[m] :
       q[l][i] = q[m][j] => l = m /\ i = j
  /\ \A l \in L, w \in W : h[w] # <<>> => \A i \in DOMAIN q[l] : q[l][i] # h[w][1]
  /\ \A v, w \in W : h[v] # <<>> /\ h[w] # <<>> /\ h[v][1] = h[w][1] => v = w

\* A new item goes to the end of a lane.
LEMMA Submitted ==
  ASSUME NEW L, NEW q, NEW W, NEW h, NEW I, NEW d, Typed(L, q, W, h, I), Once(L, q, W, h),
         NEW l \in L, NEW x \in I, x \notin Seen(L, q, W, h, d)
  PROVE  LET r == [q EXCEPT ![l] = Append(@, x)]
         IN  /\ Typed(L, r, W, h, I) /\ Once(L, r, W, h)
             /\ \A y \in Seen(L, r, W, h, d) : y \in Seen(L, q, W, h, d) \/ y = x
<1> PICK r : r = [q EXCEPT ![l] = Append(@, x)]
  OBVIOUS
<1>1. q[l] \in Seq(I) /\ r[l] = Append(q[l], x) /\ \A m \in L : m # l => r[m] = q[m]
  BY DEF Typed
<1> PICK n \in Nat : n = Len(q[l])
  BY <1>1, LenProperties
<1>2. /\ r[l] \in Seq(I) /\ DOMAIN q[l] = 1 .. n /\ DOMAIN r[l] = 1 .. n + 1
      /\ (\A i \in 1 .. n : r[l][i] = q[l][i]) /\ r[l][n + 1] = x
  BY <1>1, AppendProperties, LenProperties
<1>3. Typed(L, r, W, h, I)
  BY <1>1, <1>2 DEF Typed
<1>4. \A i \in DOMAIN r[l] : i = n + 1 \/ i \in DOMAIN q[l]
  BY <1>2, SMT
<1>5. \A m \in L : \A i \in DOMAIN r[m] :
        \/ i \in DOMAIN q[m] /\ r[m][i] = q[m][i] /\ r[m][i] # x
        \/ m = l /\ i = n + 1 /\ r[m][i] = x
  <2> SUFFICES ASSUME NEW m \in L, NEW i \in DOMAIN r[m]
               PROVE  \/ i \in DOMAIN q[m] /\ r[m][i] = q[m][i] /\ r[m][i] # x
                      \/ m = l /\ i = n + 1 /\ r[m][i] = x
    OBVIOUS
  <2>1. i \in DOMAIN q[m] => q[m][i] # x
    BY DEF Seen, InLanes
  <2> QED BY <1>1, <1>2, <1>4, <2>1
<1>6. Once(L, r, W, h)
  <2>1. ASSUME NEW k \in L, NEW m \in L, NEW i \in DOMAIN r[k], NEW j \in DOMAIN r[m],
               r[k][i] = r[m][j]
        PROVE  k = m /\ i = j
    BY <1>5, <2>1 DEF Once
  <2>2. ASSUME NEW m \in L, NEW w \in W, h[w] # <<>>, NEW i \in DOMAIN r[m]
        PROVE  r[m][i] # h[w][1]
    <3>1. h[w][1] # x
      BY <2>2 DEF Seen, Held
    <3> QED BY <1>5, <2>2, <3>1 DEF Once
  <2> QED BY <2>1, <2>2 DEF Once
<1>7. InLanes(r, L) = InLanes(q, L) \cup {x}
  <2>1. \A y \in InLanes(r, L) : y \in InLanes(q, L) \cup {x}
    BY <1>5 DEF InLanes
  <2>2. \A m \in L : \A i \in DOMAIN q[m] : i \in DOMAIN r[m] /\ r[m][i] = q[m][i]
    <3>1. \A i \in 1 .. n : i \in 1 .. n + 1
      BY SMT
    <3> QED BY <1>1, <1>2, <3>1
  <2>3. n + 1 \in DOMAIN r[l]
    BY <1>2
  <2>4. \A y \in InLanes(q, L) : y \in InLanes(r, L)
    BY <2>2 DEF InLanes
  <2>5. x \in InLanes(r, L)
    BY <1>2, <2>3 DEF InLanes
  <2> QED BY <2>1, <2>4, <2>5
<1> QED BY <1>3, <1>6, <1>7 DEF Seen

\* An idle worker takes the first item of a lane.
LEMMA Taken ==
  ASSUME NEW L, NEW q, NEW W, NEW h, NEW I, NEW d, Typed(L, q, W, h, I), Once(L, q, W, h),
         NEW l \in L, q[l] # <<>>, NEW w \in W, h[w] = <<>>
  PROVE  LET r == [q EXCEPT ![l] = Tail(@)]
             g == [h EXCEPT ![w] = <<Head(q[l])>>]
         IN  /\ Typed(L, r, W, g, I) /\ Once(L, r, W, g)
             /\ Held(g, W) = Held(h, W) \cup {Head(q[l])}
             /\ \A y \in Seen(L, r, W, g, d) : y \in Seen(L, q, W, h, d)
<1> PICK r : r = [q EXCEPT ![l] = Tail(@)]
  OBVIOUS
<1> PICK g : g = [h EXCEPT ![w] = <<Head(q[l])>>]
  OBVIOUS
<1>1. q[l] \in Seq(I) /\ r[l] = Tail(q[l]) /\ \A m \in L : m # l => r[m] = q[m]
  BY DEF Typed
<1> PICK n \in Nat : n = Len(q[l]) /\ n > 0
  BY <1>1, LenProperties, EmptySeq
<1> PICK x : x = Head(q[l])
  OBVIOUS
<1>2. /\ r[l] \in Seq(I) /\ DOMAIN q[l] = 1 .. n /\ DOMAIN r[l] = 1 .. n - 1
      /\ \A i \in 1 .. n - 1 : r[l][i] = q[l][i + 1]
      /\ x = q[l][1] /\ x \in I
  <2>1. r[l] \in Seq(I) /\ Len(r[l]) = n - 1 /\ \A i \in 1 .. n - 1 : r[l][i] = q[l][i + 1]
    <3>1. /\ Tail(q[l]) \in Seq(I) /\ Len(Tail(q[l])) = Len(q[l]) - 1
          /\ \A i \in 1 .. Len(Tail(q[l])) : Tail(q[l])[i] = q[l][i + 1]
      BY <1>1, HeadTailProperties
    <3> QED BY <1>1, <3>1
  <2>2. x \in I /\ x = q[l][1]
    BY <1>1, HeadTailProperties
  <2>3. DOMAIN q[l] = 1 .. n /\ DOMAIN r[l] = 1 .. Len(r[l])
    BY <1>1, <2>1, LenProperties
  <2> QED BY <2>1, <2>2, <2>3
<1>3. g[w] = <<x>> /\ (\A v \in W : v # w => g[v] = h[v]) /\ DOMAIN h = W
  BY DEF Typed
<1>4. Typed(L, r, W, g, I)
  <2>1. <<x>> \in AtMostOne(I)
    BY <1>2 DEF AtMostOne
  <2> QED BY <1>1, <1>2, <2>1 DEF Typed
<1>5. \A i \in 1 .. n - 1 : i + 1 \in 1 .. n /\ i + 1 # 1 /\ i \in Int
  BY SMT
<1>6. 1 \in 1 .. n
  BY SMT
<1> DEFINE Was(m, i) == IF m = l THEN i + 1 ELSE i
<1>7. \A m \in L : \A i \in DOMAIN r[m] :
        /\ Was(m, i) \in DOMAIN q[m] /\ r[m][i] = q[m][Was(m, i)]
        /\ r[m][i] # x
  <2> SUFFICES ASSUME NEW m \in L, NEW i \in DOMAIN r[m]
               PROVE  /\ Was(m, i) \in DOMAIN q[m] /\ r[m][i] = q[m][Was(m, i)]
                      /\ r[m][i] # x
    OBVIOUS
  <2>1. Was(m, i) \in DOMAIN q[m] /\ r[m][i] = q[m][Was(m, i)] /\ (m = l => Was(m, i) # 1)
    BY <1>1, <1>2, <1>5
  <2>2. 1 \in DOMAIN q[l] /\ q[l][1] = x
    BY <1>2, <1>6
  <2> HIDE DEF Was
  <2> QED BY <2>1, <2>2 DEF Once
<1>8. Once(L, r, W, g)
  <2>1. ASSUME NEW k \in L, NEW m \in L, NEW i \in DOMAIN r[k], NEW j \in DOMAIN r[m],
               r[k][i] = r[m][j]
        PROVE  k = m /\ i = j
    <3>1. k = m /\ Was(k, i) = Was(m, j)
      <4> HIDE DEF Was
      <4> QED BY <1>7, <2>1 DEF Once
    <3>2. CASE k = l
      BY <1>2, <1>5, <2>1, <3>1, <3>2, SMT
    <3>3. CASE k # l
      BY <3>1, <3>3
    <3> QED BY <3>2, <3>3
  <2>2. ASSUME NEW m \in L, NEW v \in W, g[v] # <<>>, NEW i \in DOMAIN r[m]
        PROVE  r[m][i] # g[v][1]
    <3>1. CASE v = w
      BY <1>3, <1>7, <3>1
    <3>2. CASE v # w
      <4> HIDE DEF Was
      <4> QED BY <1>3, <1>7, <2>2, <3>2 DEF Once
    <3> QED BY <3>1, <3>2
  <2>3. ASSUME NEW u \in W, NEW v \in W, g[u] # <<>>, g[v] # <<>>, g[u][1] = g[v][1]
        PROVE  u = v
    <3>1. \A y \in W : y # w /\ g[y] # <<>> => g[y][1] # x
      BY <1>2, <1>3, <1>6 DEF Once
    <3>2. g[w][1] = x
      BY <1>3
    <3> QED BY <1>3, <2>3, <3>1, <3>2 DEF Once
  <2> QED BY <2>1, <2>2, <2>3 DEF Once
<1>9. Held(g, W) = Held(h, W) \cup {x}
  <2>1. \A y : y \in Held(g, W) <=> \E v \in W : g[v] # <<>> /\ y = g[v][1]
    BY DEF Held
  <2>2. \A y : y \in Held(h, W) <=> \E v \in W : h[v] # <<>> /\ y = h[v][1]
    BY DEF Held
  <2>3. g[w] # <<>> /\ g[w][1] = x
    BY <1>3
  <2>4. ASSUME NEW y \in Held(g, W) PROVE y \in Held(h, W) \cup {x}
    <3>1. PICK v \in W : g[v] # <<>> /\ y = g[v][1]
      BY <2>1
    <3>2. CASE v = w
      BY <2>3, <3>1, <3>2
    <3>3. CASE v # w
      BY <1>3, <2>2, <3>1, <3>3
    <3> QED BY <3>2, <3>3
  <2>5. ASSUME NEW y \in Held(h, W) PROVE y \in Held(g, W)
    <3>1. PICK v \in W : h[v] # <<>> /\ y = h[v][1]
      BY <2>2
    <3>2. v # w /\ g[v] = h[v]
      BY <1>3, <3>1
    <3> QED BY <2>1, <3>1, <3>2
  <2>6. x \in Held(g, W)
    BY <2>1, <2>3
  <2> QED BY <2>4, <2>5, <2>6
<1>10. InLanes(q, L) = InLanes(r, L) \cup {x}
  <2>1. \A y \in InLanes(r, L) : y \in InLanes(q, L)
    <3> HIDE DEF Was
    <3> QED BY <1>7 DEF InLanes
  <2>2. x \in InLanes(q, L)
    BY <1>2, <1>6 DEF InLanes
  <2>3. ASSUME NEW m \in L, NEW i \in DOMAIN q[m] PROVE q[m][i] \in InLanes(r, L) \cup {x}
    <3>1. CASE m = l /\ i = 1
      BY <1>2, <3>1
    <3>2. CASE m = l /\ i # 1
      <4>1. i - 1 \in 1 .. n - 1 /\ (i - 1) + 1 = i
        BY <1>2, <2>3, <3>2, SMT
      <4>2. i - 1 \in DOMAIN r[l] /\ r[l][i - 1] = q[l][i]
        BY <1>2, <4>1
      <4> QED BY <3>2, <4>2 DEF InLanes
    <3>3. CASE m # l
      BY <1>1, <2>3, <3>3 DEF InLanes
    <3> QED BY <3>1, <3>2, <3>3
  <2>4. \A y \in InLanes(q, L) : y \in InLanes(r, L) \cup {x}
    BY <2>3 DEF InLanes
  <2> QED BY <2>1, <2>2, <2>4
<1> QED BY <1>4, <1>8, <1>9, <1>10 DEF Seen

\* A worker is done with its item.
LEMMA Done ==
  ASSUME NEW L, NEW q, NEW W, NEW h, NEW I, Typed(L, q, W, h, I), Once(L, q, W, h),
         NEW w \in W, h[w] # <<>>
  PROVE  LET g == [h EXCEPT ![w] = <<>>]
         IN  /\ Typed(L, q, W, g, I) /\ Once(L, q, W, g)
             /\ h[w][1] \in Held(h, W)
             /\ \A y : y \in Held(g, W) <=> y \in Held(h, W) /\ y # h[w][1]
<1> PICK g : g = [h EXCEPT ![w] = <<>>]
  OBVIOUS
<1>1. g[w] = <<>> /\ (\A v \in W : v # w => g[v] = h[v])
  BY DEF Typed
<1>2. Typed(L, q, W, g, I)
  BY DEF Typed, AtMostOne
<1>3. Once(L, q, W, g)
  BY <1>1 DEF Once
<1>4. \A y : y \in Held(g, W) <=> \E v \in W : g[v] # <<>> /\ y = g[v][1]
  BY DEF Held
<1>5. \A y : y \in Held(h, W) <=> \E v \in W : h[v] # <<>> /\ y = h[v][1]
  BY DEF Held
<1>6. \A v \in W : h[v] # <<>> /\ h[v][1] = h[w][1] => v = w
  BY DEF Once
<1>7. h[w][1] \in Held(h, W) /\ Held(g, W) = Held(h, W) \ {h[w][1]}
  <2> PICK x : x = h[w][1]
    OBVIOUS
  <2>1. x \in Held(h, W)
    BY <1>5
  <2>2. ASSUME NEW y \in Held(g, W) PROVE y \in Held(h, W) /\ y # x
    <3>1. PICK v \in W : g[v] # <<>> /\ y = g[v][1]
      BY <1>4
    <3>2. v # w /\ g[v] = h[v]
      BY <1>1, <3>1
    <3> QED BY <1>5, <1>6, <3>1, <3>2
  <2>3. ASSUME NEW y \in Held(h, W), y # x PROVE y \in Held(g, W)
    <3>1. PICK v \in W : h[v] # <<>> /\ y = h[v][1]
      BY <1>5
    <3>2. v # w /\ g[v] = h[v]
      BY <1>1, <2>3, <3>1
    <3> QED BY <1>4, <3>1, <3>2
  <2> QED BY <2>1, <2>2, <2>3
<1> QED BY <1>2, <1>3, <1>7

\* A program with one queue has one lane.
Queue == {"queue"}
Lane(q) == [l \in Queue |-> q]

\* What happens to the queue happens to the lane.
LEMMA LaneIs ==
  ASSUME NEW q, NEW x
  PROVE  /\ "queue" \in Queue /\ Lane(q)["queue"] = q
         /\ Lane(Append(q, x)) = [Lane(q) EXCEPT !["queue"] = Append(@, x)]
         /\ Lane(Tail(q)) = [Lane(q) EXCEPT !["queue"] = Tail(@)]
BY DEF Lane, Queue

\* A new item goes to the end of the queue.
LEMMA QueueSubmitted ==
  ASSUME NEW q, NEW W, NEW h, NEW I, NEW d,
         Typed(Queue, Lane(q), W, h, I), Once(Queue, Lane(q), W, h),
         NEW x \in I, x \notin Seen(Queue, Lane(q), W, h, d)
  PROVE  /\ Typed(Queue, Lane(Append(q, x)), W, h, I)
         /\ Once(Queue, Lane(Append(q, x)), W, h)
         /\ \A y \in Seen(Queue, Lane(Append(q, x)), W, h, d) :
              y \in Seen(Queue, Lane(q), W, h, d) \/ y = x
<1>1. LET r == [Lane(q) EXCEPT !["queue"] = Append(@, x)]
      IN  /\ Typed(Queue, r, W, h, I) /\ Once(Queue, r, W, h)
          /\ \A y \in Seen(Queue, r, W, h, d) : y \in Seen(Queue, Lane(q), W, h, d) \/ y = x
  <2>1. "queue" \in Queue
    BY LaneIs
  <2> QED BY <2>1, Submitted, Zenon
<1> QED BY <1>1, LaneIs

\* An idle worker takes the first item of the queue.
LEMMA QueueTaken ==
  ASSUME NEW q, NEW W, NEW h, NEW I, NEW d,
         Typed(Queue, Lane(q), W, h, I), Once(Queue, Lane(q), W, h),
         q # <<>>, NEW w \in W, h[w] = <<>>
  PROVE  LET g == [h EXCEPT ![w] = <<Head(q)>>]
         IN  /\ Typed(Queue, Lane(Tail(q)), W, g, I)
             /\ Once(Queue, Lane(Tail(q)), W, g)
             /\ Held(g, W) = Held(h, W) \cup {Head(q)}
             /\ \A y \in Seen(Queue, Lane(Tail(q)), W, g, d) :
                  y \in Seen(Queue, Lane(q), W, h, d)
<1>1. "queue" \in Queue /\ Lane(q)["queue"] # <<>>
  BY LaneIs
<1>2. LET r == [Lane(q) EXCEPT !["queue"] = Tail(@)]
          g == [h EXCEPT ![w] = <<Head(Lane(q)["queue"])>>]
      IN  /\ Typed(Queue, r, W, g, I) /\ Once(Queue, r, W, g)
          /\ Held(g, W) = Held(h, W) \cup {Head(Lane(q)["queue"])}
          /\ \A y \in Seen(Queue, r, W, g, d) : y \in Seen(Queue, Lane(q), W, h, d)
  BY <1>1, Taken, Zenon
<1> QED BY <1>2, LaneIs

-----------------------------------------------------------------------------
(* BlockQueue *)

Pushable == Producers \X (1 .. MaxPushes)

\* Every task is in one place, and each producer has pushed its first ones.
BlockInv ==
  /\ pushes \in [Producers -> 0 .. MaxPushes]
  /\ Typed(Queue, Lane(blockQueue), Consumers, popped, Pushable)
  /\ Once(Queue, Lane(blockQueue), Consumers, popped)
  /\ \A t \in Seen(Queue, Lane(blockQueue), Consumers, popped, run) :
       t \in Pushable /\ t[2] <= pushes[t[1]]

\* HandOff's names for it.
LEMMA BlockKnown == BQ!Work!Known = Seen(Queue, Lane(blockQueue), Consumers, popped, run)
BY DEF BQ!Work!Known, BQ!Work!ToSet, Seen, Held, InLanes, Lane, Queue

\* It begins empty.
LEMMA BlockInit == BQ!Init => BlockInv /\ BQ!Work!Init
<1> SUFFICES ASSUME BQ!Init PROVE BlockInv /\ BQ!Work!Init
  OBVIOUS
<1>1. /\ blockQueue = <<>> /\ pushes = [p \in Producers |-> 0]
      /\ popped = [c \in Consumers |-> <<>>] /\ run = {}
  BY DEF BQ!Init
<1>2. pushes \in [Producers -> 0 .. MaxPushes]
  BY <1>1, HandOffAssumption
<1>3. Typed(Queue, Lane(blockQueue), Consumers, popped, Pushable)
  BY <1>1, EmptySeq DEF Typed, Lane, AtMostOne
<1>4. Held(popped, Consumers) = {} /\ InLanes(Lane(blockQueue), Queue) = {}
  BY <1>1 DEF Held, InLanes, Lane, Queue
<1>5. Once(Queue, Lane(blockQueue), Consumers, popped)
  BY <1>1 DEF Once, Lane
<1>6. BQ!Work!Init
  BY <1>1 DEF BQ!Work!Init
<1> QED BY <1>1, <1>2, <1>3, <1>4, <1>5, <1>6 DEF BlockInv, Seen

\* Push hands a task over, or waits.
LEMMA BlockPush ==
  ASSUME BlockInv, NEW p \in Producers, BQ!Push(p)
  PROVE  BlockInv' /\ [BQ!Work!Next]_BQ!Work!vars
<1>1. popped' = popped /\ run' = run
  BY DEF BQ!Push
<1>2. CASE BQ!IsFull
  <2>1. blockQueue' = blockQueue /\ pushes' = pushes
    BY <1>2 DEF BQ!Push
  <2> QED BY <1>1, <2>1 DEF BlockInv, BQ!Work!vars, Typed, Once, Seen, Held, InLanes, Lane
<1>3. CASE ~BQ!IsFull
  <2>a. PICK x : x = <<p, pushes[p] + 1>>
    OBVIOUS
  <2>1. /\ blockQueue' = Append(blockQueue, x) /\ pushes[p] < MaxPushes
        /\ pushes' = [pushes EXCEPT ![p] = @ + 1]
    BY <1>3, <2>a DEF BQ!Push
  <2>2. pushes[p] \in Nat /\ pushes[p] + 1 \in 1 .. MaxPushes
    BY <2>1, HandOffAssumption, SMT DEF BlockInv
  <2>3. x \in Pushable /\ x[1] = p /\ x[2] = pushes[p] + 1
    BY <2>2, <2>a DEF Pushable
  <2>4. x \notin Seen(Queue, Lane(blockQueue), Consumers, popped, run)
    BY <2>2, <2>3 DEF BlockInv
  <2>5. /\ Typed(Queue, Lane(blockQueue'), Consumers, popped, Pushable)
        /\ Once(Queue, Lane(blockQueue'), Consumers, popped)
        /\ \A y \in Seen(Queue, Lane(blockQueue'), Consumers, popped, run) :
             y \in Seen(Queue, Lane(blockQueue), Consumers, popped, run) \/ y = x
    <3>1. /\ Typed(Queue, Lane(blockQueue), Consumers, popped, Pushable)
          /\ Once(Queue, Lane(blockQueue), Consumers, popped)
      BY DEF BlockInv
    <3>2. /\ Typed(Queue, Lane(Append(blockQueue, x)), Consumers, popped, Pushable)
          /\ Once(Queue, Lane(Append(blockQueue, x)), Consumers, popped)
          /\ \A y \in Seen(Queue, Lane(Append(blockQueue, x)), Consumers, popped, run) :
               y \in Seen(Queue, Lane(blockQueue), Consumers, popped, run) \/ y = x
      <4> x \in Pushable
        BY <2>3
      <4> QED BY <2>4, <3>1, QueueSubmitted, Zenon
    <3> QED BY <2>1, <3>2
  <2>6. pushes' \in [Producers -> 0 .. MaxPushes]
    BY <2>1, <2>2 DEF BlockInv
  <2>7. \A t \in Seen(Queue, Lane(blockQueue'), Consumers, popped, run) :
          t \in Pushable /\ t[2] <= pushes'[t[1]]
    <3>1. ASSUME NEW t \in Pushable, t[2] <= pushes[t[1]] PROVE t[2] <= pushes'[t[1]]
      <4>1. t[1] \in Producers /\ t[2] \in Nat /\ pushes[t[1]] \in Nat
        BY HandOffAssumption DEF BlockInv, Pushable
      <4> QED BY <2>1, <3>1, <4>1 DEF BlockInv
    <3>2. pushes'[p] = pushes[p] + 1
      BY <2>1 DEF BlockInv
    <3>3. \A t \in Seen(Queue, Lane(blockQueue), Consumers, popped, run) :
            t \in Pushable /\ t[2] <= pushes[t[1]]
      BY DEF BlockInv
    <3> QED BY <2>2, <2>3, <2>5, <3>1, <3>2, <3>3
  <2>8. BlockInv'
    BY <1>1, <2>5, <2>6, <2>7 DEF BlockInv
  <2>9. BQ!Work!Submit
    BY <1>1, <2>1, <2>3, <2>4, BlockKnown DEF BQ!Work!Submit, Pushable
  <2> QED BY <2>8, <2>9 DEF BQ!Work!Next
<1> QED BY <1>2, <1>3

\* Pop takes the oldest task, or waits.
LEMMA BlockPop ==
  ASSUME BlockInv, NEW c \in Consumers, BQ!Pop(c)
  PROVE  BlockInv' /\ [BQ!Work!Next]_BQ!Work!vars
<1>1. pushes' = pushes /\ run' = run /\ popped[c] = <<>>
  BY DEF BQ!Pop
<1>2. CASE BQ!IsEmpty
  <2>1. blockQueue' = blockQueue /\ popped' = popped
    BY <1>2 DEF BQ!Pop
  <2> QED BY <1>1, <2>1 DEF BlockInv, BQ!Work!vars, Typed, Once, Seen, Held, InLanes, Lane
<1>3. CASE ~BQ!IsEmpty
  <2>1. /\ blockQueue # <<>> /\ blockQueue' = Tail(blockQueue)
        /\ popped' = [popped EXCEPT ![c] = <<Head(blockQueue)>>]
    BY <1>3 DEF BQ!Pop, BQ!IsEmpty
  <2>2. LET g == [popped EXCEPT ![c] = <<Head(blockQueue)>>]
        IN  /\ Typed(Queue, Lane(Tail(blockQueue)), Consumers, g, Pushable)
            /\ Once(Queue, Lane(Tail(blockQueue)), Consumers, g)
            /\ Held(g, Consumers) = Held(popped, Consumers) \cup {Head(blockQueue)}
            /\ \A y \in Seen(Queue, Lane(Tail(blockQueue)), Consumers, g, run) :
                 y \in Seen(Queue, Lane(blockQueue), Consumers, popped, run)
    <3>1. /\ Typed(Queue, Lane(blockQueue), Consumers, popped, Pushable)
          /\ Once(Queue, Lane(blockQueue), Consumers, popped)
      BY DEF BlockInv
    <3>2. blockQueue # <<>> /\ popped[c] = <<>>
      BY <1>1, <2>1
    <3> QED BY <3>1, <3>2, QueueTaken, Zenon
  <2>3. BlockInv'
    BY <1>1, <2>1, <2>2 DEF BlockInv
  <2>4. BQ!Work!Take
    <3>1. Held(popped', Consumers) = Held(popped, Consumers) \cup {Head(blockQueue)}
      BY <2>1, <2>2
    <3> QED BY <1>1, <2>1, <3>1 DEF BQ!Work!Take, Held
  <2> QED BY <2>3, <2>4 DEF BQ!Work!Next
<1> QED BY <1>2, <1>3

\* Consume runs the task that it has popped.
LEMMA BlockRun ==
  ASSUME BlockInv, NEW c \in Consumers, BQ!RunPopped(c)
  PROVE  BlockInv' /\ [BQ!Work!Next]_BQ!Work!vars
<1>1. /\ pushes' = pushes /\ blockQueue' = blockQueue /\ popped[c] # <<>>
      /\ popped' = [popped EXCEPT ![c] = <<>>] /\ run' = run \cup {popped[c][1]}
  BY DEF BQ!RunPopped
<1>2. LET g == [popped EXCEPT ![c] = <<>>]
      IN  /\ Typed(Queue, Lane(blockQueue), Consumers, g, Pushable)
          /\ Once(Queue, Lane(blockQueue), Consumers, g)
          /\ popped[c][1] \in Held(popped, Consumers)
          /\ \A y : y \in Held(g, Consumers) <=>
                   y \in Held(popped, Consumers) /\ y # popped[c][1]
  <2>1. /\ Typed(Queue, Lane(blockQueue), Consumers, popped, Pushable)
        /\ Once(Queue, Lane(blockQueue), Consumers, popped)
    BY DEF BlockInv
  <2>2. popped[c] # <<>>
    BY <1>1
  <2> QED BY <2>1, <2>2, Done, Zenon
<1>3. BlockInv'
  BY <1>1, <1>2 DEF BlockInv, Seen
<1>4. BQ!Work!Complete
  <2>1. /\ Held(popped', Consumers) = Held(popped, Consumers) \ {popped[c][1]}
        /\ popped[c][1] \in Held(popped, Consumers)
    BY <1>1, <1>2
  <2> QED BY <1>1, <2>1 DEF BQ!Work!Complete, Held
<1> QED BY <1>3, <1>4 DEF BQ!Work!Next

\* Every step of the queue, and every step of another program, is one of HandOff.
LEMMA BlockNext ==
  ASSUME BlockInv, [BQ!Next]_bqVars
  PROVE  BlockInv' /\ [BQ!Work!Next]_BQ!Work!vars
<1>1. CASE /\ blockQueue' = blockQueue /\ pushes' = pushes
           /\ popped' = popped /\ run' = run
  BY <1>1 DEF BlockInv, BQ!Work!vars, Typed, Once, Seen, Held, InLanes, Lane
<1>2. CASE BQ!SpuriousWakeUp
  BY <1>1, <1>2 DEF BQ!SpuriousWakeUp
<1> QED BY <1>1, <1>2, BlockPush, BlockPop, BlockRun DEF BQ!Next, bqVars

-----------------------------------------------------------------------------
(* CircularQueue *)

\* How many of the threads T are at one of the steps Z.
Count(T, f, Z) == Cardinality({t \in T : f[t] \in Z})

\* Only t, if anybody, goes from a step to another.
OnlyMoves(t, T, f, g) == \A u \in T : u # t => g[u] = f[u]

\* What that does to a count.
CountMoved(t, T, f, g, Z) ==
  /\ Count(T, f, Z) \in Nat /\ (f[t] \in Z => Count(T, f, Z) >= 1)
  /\ f[t] \notin Z /\ g[t] \in Z => Count(T, g, Z) = Count(T, f, Z) + 1
  /\ f[t] \in Z /\ g[t] \notin Z => Count(T, g, Z) = Count(T, f, Z) - 1
  /\ (f[t] \in Z <=> g[t] \in Z) => Count(T, g, Z) = Count(T, f, Z)

\* One of the threads goes.
LEMMA CountMoves ==
  ASSUME NEW T, IsFiniteSet(T), NEW f, NEW g, NEW t \in T, OnlyMoves(t, T, f, g), NEW Z
  PROVE  CountMoved(t, T, f, g, Z)
<1>1. \A u \in T : u # t => g[u] = f[u]
  BY DEF OnlyMoves
<1>2. PICK A : A = {u \in T : f[u] \in Z}
  OBVIOUS
<1>3. PICK B : B = {u \in T : g[u] \in Z}
  OBVIOUS
<1>4. IsFiniteSet(A) /\ Cardinality(A) \in Nat
  <2>1. A \in SUBSET T
    BY <1>2
  <2>2. IsFiniteSet(A)
    BY <2>1, FS_Subset
  <2> QED BY <2>2, FS_CardinalityType
<1>5. f[t] \in Z => Cardinality(A) >= 1
  <2>1. f[t] \in Z => A # {}
    BY <1>2
  <2>2. A # {} => Cardinality(A) # 0
    BY <1>4, FS_EmptySet
  <2> QED BY <1>4, <2>1, <2>2, SMT
<1>6. f[t] \notin Z /\ g[t] \in Z => Cardinality(B) = Cardinality(A) + 1
  <2> SUFFICES ASSUME f[t] \notin Z, g[t] \in Z PROVE Cardinality(B) = Cardinality(A) + 1
    OBVIOUS
  <2>1. B = A \cup {t} /\ t \notin A
    BY <1>1, <1>2, <1>3
  <2> QED BY <1>4, <2>1, FS_AddElement
<1>7. f[t] \in Z /\ g[t] \notin Z => Cardinality(B) = Cardinality(A) - 1
  <2> SUFFICES ASSUME f[t] \in Z, g[t] \notin Z PROVE Cardinality(B) = Cardinality(A) - 1
    OBVIOUS
  <2>1. B = A \ {t} /\ t \in A
    BY <1>1, <1>2, <1>3
  <2> QED BY <1>4, <2>1, FS_RemoveElement
<1>8. (f[t] \in Z <=> g[t] \in Z) => B = A
  BY <1>1, <1>2, <1>3
<1> QED BY <1>2, <1>3, <1>4, <1>5, <1>6, <1>7, <1>8 DEF Count, CountMoved

\* No thread of T goes.
LEMMA CountStays ==
  ASSUME NEW T, NEW f, NEW g, NEW t, t \notin T, OnlyMoves(t, T, f, g), NEW Z
  PROVE  Count(T, g, Z) = Count(T, f, Z)
<1>1. {u \in T : g[u] \in Z} = {u \in T : f[u] \in Z}
  BY DEF OnlyMoves
<1> QED BY <1>1 DEF Count

\* The steps between the wait for a semaphore and the post of the other one, and those with
\* the mutex.
Within == {"lock", "copy", "advance"}
Locked == {"copy", "advance"}
Steps == Within \cup {"idle", "post", "run"}
Inside(T, f) == Count(T, f, Within)
Posting(T, f) == Count(T, f, {"post"})
Holding(T, f) == {t \in T : f[t] \in Locked}

\* A thread of one side makes a step: what it does to the counts of both.
StepCounted(t, T, U, f, g) ==
  /\ Inside(T, f) \in Nat /\ Posting(T, f) \in Nat
  /\ Inside(U, g) = Inside(U, f) /\ Posting(U, g) = Posting(U, f)
  /\ f[t] \in Within => Inside(T, f) >= 1
  /\ f[t] = "idle" /\ g[t] = "lock" =>
       Inside(T, g) = Inside(T, f) + 1 /\ Posting(T, g) = Posting(T, f)
  /\ f[t] \in Within /\ g[t] \in Within =>
       Inside(T, g) = Inside(T, f) /\ Posting(T, g) = Posting(T, f)
  /\ f[t] = "advance" /\ g[t] = "post" =>
       Inside(T, g) = Inside(T, f) - 1 /\ Posting(T, g) = Posting(T, f) + 1
  /\ f[t] = "post" /\ g[t] \in {"idle", "run"} =>
       Inside(T, g) = Inside(T, f) /\ Posting(T, g) = Posting(T, f) - 1
  /\ f[t] = "run" /\ g[t] = "idle" =>
       Inside(T, g) = Inside(T, f) /\ Posting(T, g) = Posting(T, f)

\* It is so.
LEMMA StepCounts ==
  ASSUME NEW T, NEW U, IsFiniteSet(T), NEW f, NEW g, NEW t \in T, t \notin U,
         OnlyMoves(t, T, f, g), OnlyMoves(t, U, f, g)
  PROVE  StepCounted(t, T, U, f, g)
<1>1. CountMoved(t, T, f, g, Within) /\ CountMoved(t, T, f, g, {"post"})
  BY CountMoves
<1>2. /\ Inside(T, f) \in Nat
      /\ f[t] \in Within => Inside(T, f) >= 1
      /\ f[t] \notin Within /\ g[t] \in Within => Inside(T, g) = Inside(T, f) + 1
      /\ f[t] \in Within /\ g[t] \notin Within => Inside(T, g) = Inside(T, f) - 1
      /\ (f[t] \in Within <=> g[t] \in Within) => Inside(T, g) = Inside(T, f)
  BY <1>1 DEF Inside, CountMoved
<1>3. /\ Posting(T, f) \in Nat
      /\ f[t] # "post" /\ g[t] = "post" => Posting(T, g) = Posting(T, f) + 1
      /\ f[t] = "post" /\ g[t] # "post" => Posting(T, g) = Posting(T, f) - 1
      /\ (f[t] = "post" <=> g[t] = "post") => Posting(T, g) = Posting(T, f)
  BY <1>1 DEF Posting, CountMoved
<1>4. Inside(U, g) = Inside(U, f) /\ Posting(U, g) = Posting(U, f)
  BY CountStays DEF Inside, Posting
<1> QED BY <1>2, <1>3, <1>4 DEF Within, StepCounted

\* The tasks between the suffixes: those announced, those about to be, and those that
\* consumers are about to take.
Level == semData + Posting(Producers, step) + Inside(Consumers, step)

\* A slot number below two turns, taken back into the queue.
Round(x) == IF x < Slots THEN x ELSE x - Slots

\* Every slot is free, or taken by a task or by somebody at work on it, and the suffixes
\* are as far apart as there are tasks between them.
CircCounts ==
  /\ step \in [CQ!Users -> Steps]
  /\ semSpace \in Nat /\ semData \in Nat
  /\ pSuffix \in 0 .. Slots - 1 /\ cSuffix \in 0 .. Slots - 1
  /\ pMutex = Holding(Producers, step) /\ (\A p, q \in pMutex : p = q)
  /\ cMutex = Holding(Consumers, step) /\ (\A c, d \in cMutex : c = d)
  /\ semSpace + Level + Inside(Producers, step) + Posting(Consumers, step) = Slots
  /\ pSuffix = Round(cSuffix + Level)

\* Nobody is at work at first.
LEMMA CircCountsInit == CQ!Init => CircCounts /\ Level = 0
<1> SUFFICES ASSUME CQ!Init PROVE CircCounts /\ Level = 0
  OBVIOUS
<1>1. /\ semSpace = Slots /\ semData = 0 /\ pSuffix = 0 /\ cSuffix = 0 /\ pMutex = {}
      /\ cMutex = {} /\ step = [t \in CQ!Users |-> "idle"]
  BY DEF CQ!Init
<1>2. \A T \in {Producers, Consumers} : \A t \in T : step[t] = "idle"
  BY <1>1 DEF CQ!Users
<1>3. /\ Inside(Producers, step) = 0 /\ Posting(Producers, step) = 0
      /\ Inside(Consumers, step) = 0 /\ Posting(Consumers, step) = 0
  BY <1>2, FS_EmptySet DEF Inside, Posting, Count, Within
<1>4. Holding(Producers, step) = {} /\ Holding(Consumers, step) = {}
  BY <1>2 DEF Holding, Locked
<1>5. step \in [CQ!Users -> Steps]
  BY <1>1 DEF Steps
<1>6. Level = 0 /\ Round(0) = 0
  BY <1>1, <1>3, HandOffAssumption DEF Level, Round
<1> QED BY <1>1, <1>3, <1>4, <1>5, <1>6, HandOffAssumption DEF CircCounts


\* What a step of a thread of T, none of U, does to what CircCounts is about.
LEMMA CircGoes ==
  ASSUME CircCounts, NEW T, NEW U, IsFiniteSet(T), T \cup U = CQ!Users, T \cap U = {},
         NEW t \in T, NEW from, NEW to \in Steps, CQ!Goes(t, from, to)
  PROVE  /\ step[t] = from /\ step'[t] = to /\ step' \in [CQ!Users -> Steps]
         /\ StepCounted(t, T, U, step, step')
         /\ Holding(U, step') = Holding(U, step)
         /\ to \in Locked => Holding(T, step') = Holding(T, step) \cup {t}
         /\ to \notin Locked => Holding(T, step') = Holding(T, step) \ {t}
<1>1. step[t] = from /\ step' = [step EXCEPT ![t] = to]
  BY DEF CQ!Goes
<1>2. step \in [CQ!Users -> Steps] /\ t \in CQ!Users /\ t \notin U
  BY DEF CircCounts
<1>3. step'[t] = to /\ step' \in [CQ!Users -> Steps]
  BY <1>1, <1>2
<1>4. OnlyMoves(t, T, step, step') /\ OnlyMoves(t, U, step, step')
  BY <1>1, <1>2 DEF OnlyMoves
<1>5. StepCounted(t, T, U, step, step')
  BY <1>2, <1>4, StepCounts
<1>6. /\ Holding(U, step') = Holding(U, step)
      /\ to \in Locked => Holding(T, step') = Holding(T, step) \cup {t}
      /\ to \notin Locked => Holding(T, step') = Holding(T, step) \ {t}
  BY <1>2, <1>3, <1>4 DEF Holding, OnlyMoves
<1> QED BY <1>1, <1>3, <1>5, <1>6

\* The slot after the next one.
LEMMA RoundIs ==
  ASSUME NEW a \in Nat, a < Slots + Slots
  PROVE  a % Slots = Round(a) /\ Round(a) \in 0 .. Slots - 1
<1>1. Slots \in Nat /\ Slots > 0
  BY HandOffAssumption
<1>2. Round(a) \in 0 .. Slots - 1 /\ (a = Round(a) \/ a = Round(a) + Slots)
  BY <1>1 DEF Round
<1>3. a % Slots \in 0 .. Slots - 1 /\ a \div Slots \in Nat
  BY <1>1
<1>4. a = Slots * (a \div Slots) + (a % Slots)
  BY <1>1
<1> DEFINE q == a \div Slots
           m == a % Slots
           r == Round(a)
<1>5. a = Slots * q + m /\ q \in Nat /\ m \in 0 .. Slots - 1
  BY <1>3, <1>4
<1>6. r \in 0 .. Slots - 1 /\ (a = r \/ a = r + Slots)
  BY <1>2
<1> HIDE DEF q, m, r
<1>7. q >= 2 => Slots * q >= Slots * 2
  BY <1>1, <1>5
<1>8. q = 0 \/ q = 1 \/ q >= 2
  BY <1>5
<1>9. m = r
  <2>1. CASE q = 0
    BY <1>1, <1>5, <1>6, <2>1
  <2>2. CASE q = 1
    BY <1>1, <1>5, <1>6, <2>2
  <2>3. CASE q >= 2
    BY <1>1, <1>5, <1>6, <1>7, <2>3
  <2> QED BY <1>8, <2>1, <2>2, <2>3
<1> QED BY <1>2, <1>9 DEF m, r

\* The counts are numbers.
LEMMA CountsAreNumbers ==
  /\ \A f : Inside(Producers, f) \in Nat /\ Posting(Producers, f) \in Nat
  /\ \A f : Inside(Consumers, f) \in Nat /\ Posting(Consumers, f) \in Nat
<1>1. ASSUME NEW T, IsFiniteSet(T), NEW f, NEW Z PROVE Count(T, f, Z) \in Nat
  <2>1. {t \in T : f[t] \in Z} \in SUBSET T
    OBVIOUS
  <2> QED BY <1>1, <2>1, FS_Subset, FS_CardinalityType DEF Count
<1> QED BY <1>1, HandOffAssumption DEF Inside, Posting

\* A producer in Push.
LEMMA PushCounts ==
  ASSUME CircCounts, NEW p \in Producers, CQ!Push(p)
  PROVE  CircCounts' /\ Level' = IF step[p] = "advance" THEN Level + 1 ELSE Level
<1> DEFINE in == Inside(Producers, step)
           post == Posting(Producers, step)
           rest == Inside(Consumers, step)
           back == Posting(Consumers, step)
<1>1. /\ in \in Nat /\ post \in Nat /\ rest \in Nat /\ back \in Nat
      /\ Level = semData + post + rest /\ Slots \in Nat /\ Slots > 0
  BY CountsAreNumbers, HandOffAssumption DEF Level
<1>2. /\ semSpace \in Nat /\ semData \in Nat
      /\ pSuffix \in 0 .. Slots - 1 /\ cSuffix \in 0 .. Slots - 1
      /\ semSpace + Level + in + back = Slots /\ pSuffix = Round(cSuffix + Level)
      /\ pMutex = Holding(Producers, step) /\ (\A q, r \in pMutex : q = r)
      /\ cMutex = Holding(Consumers, step) /\ (\A c, d \in cMutex : c = d)
  BY DEF CircCounts
<1>3. Level \in Nat /\ Level <= Slots
  BY <1>1, <1>2
<1>4. /\ IsFiniteSet(Producers) /\ Producers \cup Consumers = CQ!Users
      /\ Producers \cap Consumers = {}
  BY HandOffAssumption DEF CQ!Users
<1>5. cSuffix' = cSuffix /\ cMutex' = cMutex
  BY DEF CQ!Push, CQ!PSpace, CQ!LockP, CQ!Write, CQ!AdvanceP, CQ!VData
<1>6. \A from, to : to \in Steps /\ CQ!Goes(p, from, to) =>
        /\ step[p] = from /\ step'[p] = to /\ step' \in [CQ!Users -> Steps]
        /\ StepCounted(p, Producers, Consumers, step, step')
        /\ Holding(Consumers, step') = Holding(Consumers, step)
        /\ to \in Locked => Holding(Producers, step') = Holding(Producers, step) \cup {p}
        /\ to \notin Locked => Holding(Producers, step') = Holding(Producers, step) \ {p}
  BY <1>4, CircGoes
<1>7. StepCounted(p, Producers, Consumers, step, step') =>
        Inside(Consumers, step') = rest /\ Posting(Consumers, step') = back
  BY DEF StepCounted
<1> DEFINE inN == Inside(Producers, step')
           postN == Posting(Producers, step')
<1>8. /\ StepCounted(p, Producers, Consumers, step, step') => Level' = semData' + postN + rest
      /\ inN \in Nat /\ postN \in Nat
  BY <1>7, CountsAreNumbers DEF Level
<1>9. SUFFICES /\ step' \in [CQ!Users -> Steps]
               /\ StepCounted(p, Producers, Consumers, step, step')
               /\ Holding(Consumers, step') = Holding(Consumers, step)
               /\ semSpace' \in Nat /\ semData' \in Nat /\ pSuffix' \in 0 .. Slots - 1
               /\ pMutex' = Holding(Producers, step') /\ (\A q, r \in pMutex' : q = r)
               /\ semSpace' + Level' + inN + back = Slots
               /\ pSuffix' = Round(cSuffix + Level')
               /\ Level' = IF step[p] = "advance" THEN Level + 1 ELSE Level
  BY <1>2, <1>5, <1>7 DEF CircCounts
<1>10. CASE CQ!PSpace(p)
  <2>1. /\ CQ!Goes(p, "idle", "lock") /\ semSpace > 0 /\ semSpace' = semSpace - 1
        /\ semData' = semData /\ pSuffix' = pSuffix /\ pMutex' = pMutex
    BY <1>10 DEF CQ!PSpace
  <2>2. "lock" \in Steps /\ "lock" \notin Locked
    BY DEF Steps, Within, Locked
  <2>3. /\ step[p] = "idle" /\ step'[p] = "lock" /\ step' \in [CQ!Users -> Steps]
        /\ StepCounted(p, Producers, Consumers, step, step')
        /\ Holding(Consumers, step') = Holding(Consumers, step)
        /\ Holding(Producers, step') = Holding(Producers, step) \ {p}
    BY <1>6, <2>1, <2>2
  <2>4. inN = in + 1 /\ postN = post
    BY <2>3 DEF StepCounted
  <2>5. p \notin Holding(Producers, step)
    BY <2>3 DEF Holding, Locked
  <2>6. Level' = Level
    BY <1>1, <1>8, <2>1, <2>3, <2>4
  <2>7. semSpace' + Level' + inN + back = Slots /\ semSpace' \in Nat
    BY <1>1, <1>2, <1>3, <2>1, <2>4, <2>6
  <2> QED BY <1>2, <2>1, <2>3, <2>5, <2>6, <2>7
<1>11. CASE CQ!LockP(p)
  <2>1. /\ CQ!Goes(p, "lock", "copy") /\ semSpace' = semSpace /\ pMutex = {} /\ pMutex' = {p}
        /\ semData' = semData /\ pSuffix' = pSuffix
    BY <1>11 DEF CQ!LockP
  <2>2. "copy" \in Steps /\ "copy" \in Locked
    BY DEF Steps, Within, Locked
  <2>3. /\ step[p] = "lock" /\ step'[p] = "copy" /\ step' \in [CQ!Users -> Steps]
        /\ StepCounted(p, Producers, Consumers, step, step')
        /\ Holding(Consumers, step') = Holding(Consumers, step)
        /\ Holding(Producers, step') = Holding(Producers, step) \cup {p}
    BY <1>6, <2>1, <2>2
  <2>4. inN = in /\ postN = post
    BY <2>3 DEF StepCounted, Within
  <2>5. Level' = Level
    BY <1>1, <1>8, <2>1, <2>3, <2>4
  <2>6. semSpace' + Level' + inN + back = Slots
    BY <1>2, <2>1, <2>4, <2>5
  <2> QED BY <1>2, <2>1, <2>3, <2>5, <2>6
<1>12. CASE CQ!Write(p)
  <2>1. /\ CQ!Goes(p, "copy", "advance") /\ semSpace' = semSpace /\ pMutex' = pMutex
        /\ semData' = semData /\ pSuffix' = pSuffix
    BY <1>12 DEF CQ!Write
  <2>2. "advance" \in Steps /\ "advance" \in Locked
    BY DEF Steps, Within, Locked
  <2>3. /\ step[p] = "copy" /\ step'[p] = "advance" /\ step' \in [CQ!Users -> Steps]
        /\ StepCounted(p, Producers, Consumers, step, step')
        /\ Holding(Consumers, step') = Holding(Consumers, step)
        /\ Holding(Producers, step') = Holding(Producers, step) \cup {p}
    BY <1>6, <2>1, <2>2
  <2>4. inN = in /\ postN = post
    BY <2>3 DEF StepCounted, Within
  <2>5. p \in Holding(Producers, step)
    BY <2>3 DEF Holding, Locked
  <2>6. Level' = Level
    BY <1>1, <1>8, <2>1, <2>3, <2>4
  <2>7. semSpace' + Level' + inN + back = Slots
    BY <1>2, <2>1, <2>4, <2>6
  <2> QED BY <1>2, <2>1, <2>3, <2>5, <2>6, <2>7
<1>13. CASE CQ!AdvanceP(p)
  <2>1. /\ CQ!Goes(p, "advance", "post") /\ semSpace' = semSpace /\ pMutex' = {}
        /\ semData' = semData /\ pSuffix' = (pSuffix + 1) % Slots
    BY <1>13 DEF CQ!AdvanceP
  <2>2. "post" \in Steps /\ "post" \notin Locked
    BY DEF Steps, Within, Locked
  <2>3. /\ step[p] = "advance" /\ step'[p] = "post" /\ step' \in [CQ!Users -> Steps]
        /\ StepCounted(p, Producers, Consumers, step, step')
        /\ Holding(Consumers, step') = Holding(Consumers, step)
        /\ Holding(Producers, step') = Holding(Producers, step) \ {p}
    BY <1>6, <2>1, <2>2
  <2>4. inN = in - 1 /\ postN = post + 1 /\ in >= 1
    BY <2>3 DEF StepCounted, Within
  <2>5. p \in Holding(Producers, step)
    BY <2>3 DEF Holding, Locked
  <2>6. Level' = Level + 1
    BY <1>1, <1>2, <1>8, <2>1, <2>3, <2>4
  <2>7. semSpace' + Level' + inN + back = Slots
    BY <1>1, <1>2, <1>3, <2>1, <2>4, <2>6
  <2>8. pSuffix + 1 \in Nat /\ pSuffix + 1 < Slots + Slots
    BY <1>1, <1>2
  <2>9. pSuffix' = Round(pSuffix + 1) /\ pSuffix' \in 0 .. Slots - 1
    BY <2>1, <2>8, RoundIs
  <2>10. Level + 1 <= Slots
    BY <1>1, <1>2, <1>3, <2>4
  <2>11. Round(pSuffix + 1) = Round(cSuffix + (Level + 1))
    BY <1>1, <1>2, <1>3, <2>10 DEF Round
  <2>12. pMutex' = Holding(Producers, step')
    BY <1>2, <2>1, <2>3, <2>5
  <2> QED BY <1>2, <2>1, <2>3, <2>6, <2>7, <2>9, <2>11, <2>12
<1>14. CASE CQ!VData(p)
  <2>1. /\ CQ!Goes(p, "post", "idle") /\ semSpace' = semSpace /\ pMutex' = pMutex
        /\ semData' = semData + 1 /\ pSuffix' = pSuffix
    BY <1>14 DEF CQ!VData
  <2>2. "idle" \in Steps /\ "idle" \notin Locked
    BY DEF Steps, Within, Locked
  <2>3. /\ step[p] = "post" /\ step'[p] = "idle" /\ step' \in [CQ!Users -> Steps]
        /\ StepCounted(p, Producers, Consumers, step, step')
        /\ Holding(Consumers, step') = Holding(Consumers, step)
        /\ Holding(Producers, step') = Holding(Producers, step) \ {p}
    BY <1>6, <2>1, <2>2
  <2>4. inN = in /\ postN = post - 1
    BY <2>3 DEF StepCounted
  <2>5. p \notin Holding(Producers, step)
    BY <2>3 DEF Holding, Locked
  <2>6. Level' = Level
    BY <1>1, <1>2, <1>8, <2>1, <2>3, <2>4
  <2>7. semSpace' + Level' + inN + back = Slots /\ semData' \in Nat
    BY <1>2, <2>1, <2>4, <2>6
  <2> QED BY <1>2, <2>1, <2>3, <2>5, <2>6, <2>7
<1> QED BY <1>10, <1>11, <1>12, <1>13, <1>14 DEF CQ!Push

\* A consumer in Pop, or that runs the task that it has popped.
LEMMA PopCounts ==
  ASSUME CircCounts, NEW c \in Consumers, CQ!Pop(c) \/ CQ!RunTask(c)
  PROVE  CircCounts' /\ Level' = IF step[c] = "advance" THEN Level - 1 ELSE Level
<1> DEFINE in == Inside(Consumers, step)
           post == Posting(Consumers, step)
           rest == Inside(Producers, step)
           back == Posting(Producers, step)
<1>1. /\ in \in Nat /\ post \in Nat /\ rest \in Nat /\ back \in Nat
      /\ Level = semData + back + in /\ Slots \in Nat /\ Slots > 0
  BY CountsAreNumbers, HandOffAssumption DEF Level
<1>2. /\ semSpace \in Nat /\ semData \in Nat
      /\ pSuffix \in 0 .. Slots - 1 /\ cSuffix \in 0 .. Slots - 1
      /\ semSpace + Level + rest + post = Slots /\ pSuffix = Round(cSuffix + Level)
      /\ pMutex = Holding(Producers, step) /\ (\A q, r \in pMutex : q = r)
      /\ cMutex = Holding(Consumers, step) /\ (\A d, e \in cMutex : d = e)
  BY DEF CircCounts
<1>3. Level \in Nat /\ Level <= Slots
  BY <1>1, <1>2
<1>4. /\ IsFiniteSet(Consumers) /\ Consumers \cup Producers = CQ!Users
      /\ Consumers \cap Producers = {}
  BY HandOffAssumption DEF CQ!Users
<1>5. pSuffix' = pSuffix /\ pMutex' = pMutex
  BY DEF CQ!Pop, CQ!PData, CQ!LockC, CQ!Read, CQ!AdvanceC, CQ!VSpace, CQ!RunTask
<1>6. \A from, to : to \in Steps /\ CQ!Goes(c, from, to) =>
        /\ step[c] = from /\ step'[c] = to /\ step' \in [CQ!Users -> Steps]
        /\ StepCounted(c, Consumers, Producers, step, step')
        /\ Holding(Producers, step') = Holding(Producers, step)
        /\ to \in Locked => Holding(Consumers, step') = Holding(Consumers, step) \cup {c}
        /\ to \notin Locked => Holding(Consumers, step') = Holding(Consumers, step) \ {c}
  BY <1>4, CircGoes
<1>7. StepCounted(c, Consumers, Producers, step, step') =>
        Inside(Producers, step') = rest /\ Posting(Producers, step') = back
  BY DEF StepCounted
<1> DEFINE inN == Inside(Consumers, step')
           postN == Posting(Consumers, step')
<1>8. /\ StepCounted(c, Consumers, Producers, step, step') => Level' = semData' + back + inN
      /\ inN \in Nat /\ postN \in Nat
  BY <1>7, CountsAreNumbers DEF Level
<1>9. SUFFICES /\ step' \in [CQ!Users -> Steps]
               /\ StepCounted(c, Consumers, Producers, step, step')
               /\ Holding(Producers, step') = Holding(Producers, step)
               /\ semSpace' \in Nat /\ semData' \in Nat /\ cSuffix' \in 0 .. Slots - 1
               /\ cMutex' = Holding(Consumers, step') /\ (\A d, e \in cMutex' : d = e)
               /\ semSpace' + Level' + rest + postN = Slots
               /\ pSuffix = Round(cSuffix' + Level')
               /\ Level' = IF step[c] = "advance" THEN Level - 1 ELSE Level
  BY <1>2, <1>5, <1>7 DEF CircCounts
<1>10. CASE CQ!PData(c)
  <2>1. /\ CQ!Goes(c, "idle", "lock") /\ semSpace' = semSpace /\ cMutex' = cMutex
        /\ semData' = semData - 1 /\ semData > 0 /\ cSuffix' = cSuffix
    BY <1>10 DEF CQ!PData
  <2>2. "lock" \in Steps /\ "lock" \notin Locked
    BY DEF Steps, Within, Locked
  <2>3. /\ step[c] = "idle" /\ step'[c] = "lock" /\ step' \in [CQ!Users -> Steps]
        /\ StepCounted(c, Consumers, Producers, step, step')
        /\ Holding(Producers, step') = Holding(Producers, step)
        /\ Holding(Consumers, step') = Holding(Consumers, step) \ {c}
    BY <1>6, <2>1, <2>2
  <2>4. inN = in + 1 /\ postN = post
    BY <2>3 DEF StepCounted, Within
  <2>5. c \notin Holding(Consumers, step)
    BY <2>3 DEF Holding, Locked
  <2>6. Level' = Level
    BY <1>1, <1>2, <1>8, <2>1, <2>3, <2>4
  <2>7. semSpace' + Level' + rest + postN = Slots /\ semSpace' \in Nat /\ semData' \in Nat
    BY <1>1, <1>2, <1>3, <2>1, <2>4, <2>6
  <2> QED BY <1>2, <2>1, <2>3, <2>5, <2>6, <2>7
<1>11. CASE CQ!LockC(c)
  <2>1. /\ CQ!Goes(c, "lock", "copy") /\ semSpace' = semSpace /\ cMutex = {} /\ cMutex' = {c}
        /\ semData' = semData /\ cSuffix' = cSuffix
    BY <1>11 DEF CQ!LockC
  <2>2. "copy" \in Steps /\ "copy" \in Locked
    BY DEF Steps, Within, Locked
  <2>3. /\ step[c] = "lock" /\ step'[c] = "copy" /\ step' \in [CQ!Users -> Steps]
        /\ StepCounted(c, Consumers, Producers, step, step')
        /\ Holding(Producers, step') = Holding(Producers, step)
        /\ Holding(Consumers, step') = Holding(Consumers, step) \cup {c}
    BY <1>6, <2>1, <2>2
  <2>4. inN = in /\ postN = post
    BY <2>3 DEF StepCounted, Within
  <2>5. cMutex' = Holding(Consumers, step')
    BY <1>2, <2>1, <2>3
  <2>6. Level' = Level
    BY <1>1, <1>2, <1>8, <2>1, <2>3, <2>4
  <2>7. semSpace' + Level' + rest + postN = Slots /\ semSpace' \in Nat /\ semData' \in Nat
    BY <1>1, <1>2, <1>3, <2>1, <2>4, <2>6
  <2> QED BY <1>2, <2>1, <2>3, <2>5, <2>6, <2>7
<1>12. CASE CQ!Read(c)
  <2>1. /\ CQ!Goes(c, "copy", "advance") /\ semSpace' = semSpace /\ cMutex' = cMutex
        /\ semData' = semData /\ cSuffix' = cSuffix
    BY <1>12 DEF CQ!Read
  <2>2. "advance" \in Steps /\ "advance" \in Locked
    BY DEF Steps, Within, Locked
  <2>3. /\ step[c] = "copy" /\ step'[c] = "advance" /\ step' \in [CQ!Users -> Steps]
        /\ StepCounted(c, Consumers, Producers, step, step')
        /\ Holding(Producers, step') = Holding(Producers, step)
        /\ Holding(Consumers, step') = Holding(Consumers, step) \cup {c}
    BY <1>6, <2>1, <2>2
  <2>4. inN = in /\ postN = post
    BY <2>3 DEF StepCounted, Within
  <2>5. c \in Holding(Consumers, step)
    BY <2>3 DEF Holding, Locked
  <2>6. Level' = Level
    BY <1>1, <1>2, <1>8, <2>1, <2>3, <2>4
  <2>7. semSpace' + Level' + rest + postN = Slots /\ semSpace' \in Nat /\ semData' \in Nat
    BY <1>1, <1>2, <1>3, <2>1, <2>4, <2>6
  <2> QED BY <1>2, <2>1, <2>3, <2>5, <2>6, <2>7
<1>13. CASE CQ!AdvanceC(c)
  <2>1. /\ CQ!Goes(c, "advance", "post") /\ semSpace' = semSpace /\ cMutex' = {}
        /\ semData' = semData /\ cSuffix' = (cSuffix + 1) % Slots
    BY <1>13 DEF CQ!AdvanceC
  <2>2. "post" \in Steps /\ "post" \notin Locked
    BY DEF Steps, Within, Locked
  <2>3. /\ step[c] = "advance" /\ step'[c] = "post" /\ step' \in [CQ!Users -> Steps]
        /\ StepCounted(c, Consumers, Producers, step, step')
        /\ Holding(Producers, step') = Holding(Producers, step)
        /\ Holding(Consumers, step') = Holding(Consumers, step) \ {c}
    BY <1>6, <2>1, <2>2
  <2>4. inN = in - 1 /\ postN = post + 1 /\ in >= 1
    BY <2>3 DEF StepCounted, Within
  <2>5. c \in Holding(Consumers, step)
    BY <2>3 DEF Holding, Locked
  <2>6. Level' = Level - 1
    BY <1>1, <1>2, <1>8, <2>1, <2>3, <2>4
  <2>7. semSpace' + Level' + rest + postN = Slots /\ semSpace' \in Nat /\ semData' \in Nat
    BY <1>1, <1>2, <1>3, <2>1, <2>4, <2>6
  <2>8. cSuffix + 1 \in Nat /\ cSuffix + 1 < Slots + Slots
    BY <1>1, <1>2
  <2>9. cSuffix' = Round(cSuffix + 1) /\ cSuffix' \in 0 .. Slots - 1
    BY <2>1, <2>8, RoundIs
  <2>10. Level >= 1
    BY <1>1, <1>2, <2>4
  <2>11. Round(Round(cSuffix + 1) + (Level - 1)) = Round(cSuffix + Level)
    BY <1>1, <1>2, <1>3, <2>10 DEF Round
  <2>12. cMutex' = Holding(Consumers, step')
    BY <1>2, <2>1, <2>3, <2>5
  <2> QED BY <1>2, <2>1, <2>3, <2>6, <2>7, <2>9, <2>11, <2>12
<1>14. CASE CQ!VSpace(c)
  <2>1. /\ CQ!Goes(c, "post", "run") /\ semSpace' = semSpace + 1 /\ cMutex' = cMutex
        /\ semData' = semData /\ cSuffix' = cSuffix
    BY <1>14 DEF CQ!VSpace
  <2>2. "run" \in Steps /\ "run" \notin Locked
    BY DEF Steps, Within, Locked
  <2>3. /\ step[c] = "post" /\ step'[c] = "run" /\ step' \in [CQ!Users -> Steps]
        /\ StepCounted(c, Consumers, Producers, step, step')
        /\ Holding(Producers, step') = Holding(Producers, step)
        /\ Holding(Consumers, step') = Holding(Consumers, step) \ {c}
    BY <1>6, <2>1, <2>2
  <2>4. inN = in /\ postN = post - 1
    BY <2>3 DEF StepCounted, Within
  <2>5. c \notin Holding(Consumers, step)
    BY <2>3 DEF Holding, Locked
  <2>6. Level' = Level
    BY <1>1, <1>2, <1>8, <2>1, <2>3, <2>4
  <2>7. semSpace' + Level' + rest + postN = Slots /\ semSpace' \in Nat /\ semData' \in Nat
    BY <1>1, <1>2, <1>3, <2>1, <2>4, <2>6
  <2> QED BY <1>2, <2>1, <2>3, <2>5, <2>6, <2>7
<1>15. CASE CQ!RunTask(c)
  <2>1. /\ CQ!Goes(c, "run", "idle") /\ semSpace' = semSpace /\ cMutex' = cMutex
        /\ semData' = semData /\ cSuffix' = cSuffix
    BY <1>15 DEF CQ!RunTask
  <2>2. "idle" \in Steps /\ "idle" \notin Locked
    BY DEF Steps, Within, Locked
  <2>3. /\ step[c] = "run" /\ step'[c] = "idle" /\ step' \in [CQ!Users -> Steps]
        /\ StepCounted(c, Consumers, Producers, step, step')
        /\ Holding(Producers, step') = Holding(Producers, step)
        /\ Holding(Consumers, step') = Holding(Consumers, step) \ {c}
    BY <1>6, <2>1, <2>2
  <2>4. inN = in /\ postN = post
    BY <2>3 DEF StepCounted, Within
  <2>5. c \notin Holding(Consumers, step)
    BY <2>3 DEF Holding, Locked
  <2>6. Level' = Level
    BY <1>1, <1>2, <1>8, <2>1, <2>3, <2>4
  <2>7. semSpace' + Level' + rest + postN = Slots /\ semSpace' \in Nat /\ semData' \in Nat
    BY <1>1, <1>2, <1>3, <2>1, <2>4, <2>6
  <2> QED BY <1>2, <2>1, <2>3, <2>5, <2>6, <2>7
<1> QED BY <1>10, <1>11, <1>12, <1>13, <1>14, <1>15 DEF CQ!Pop

\* Somebody is inside.
LEMMA SomebodyInside ==
  ASSUME NEW T \in {Producers, Consumers}, NEW t \in T, step[t] \in Within
  PROVE  Inside(T, step) >= 1
<1>1. IsFiniteSet(T) /\ OnlyMoves(t, T, step, step)
  BY HandOffAssumption DEF OnlyMoves
<1>2. CountMoved(t, T, step, step, Within)
  BY <1>1, CountMoves
<1> QED BY <1>2 DEF CountMoved, Inside

\* A producer that writes has a space that is not counted as taken, a consumer that reads a
\* task that is: the suffixes are neither equal nor a full turn apart.
LEMMA CountsKeepApart == CircCounts => CQ!SlotsApart
<1> SUFFICES ASSUME CircCounts, NEW p \in Producers, NEW c \in Consumers,
                    step[p] = "copy", step[c] = "copy"
             PROVE  pSuffix # cSuffix
  BY DEF CQ!SlotsApart
<1>1. Inside(Producers, step) >= 1 /\ Inside(Consumers, step) >= 1
  BY SomebodyInside DEF Within
<1>2. /\ Inside(Producers, step) \in Nat /\ Posting(Producers, step) \in Nat
      /\ Inside(Consumers, step) \in Nat /\ Posting(Consumers, step) \in Nat
  BY CountsAreNumbers
<1>3. /\ semSpace \in Nat /\ semData \in Nat /\ cSuffix \in 0 .. Slots - 1
      /\ semSpace + Level + Inside(Producers, step) + Posting(Consumers, step) = Slots
      /\ pSuffix = Round(cSuffix + Level)
  BY DEF CircCounts
<1>4. Level \in Nat /\ Level >= 1
  BY <1>1, <1>2, <1>3 DEF Level
<1>5. Level < Slots
  BY <1>1, <1>2, <1>3, <1>4, HandOffAssumption
<1> QED BY <1>3, <1>4, <1>5, HandOffAssumption DEF Round

\* Every step of the queue keeps the counts.
LEMMA CircNextCounts ==
  ASSUME CircCounts, [CQ!Next]_cqVars
  PROVE  CircCounts'
<1>1. CASE UNCHANGED cqVars
  BY <1>1 DEF cqVars, CircCounts, Level
<1> QED BY <1>1, PushCounts, PopCounts DEF CQ!Next

\* Whether somebody has copied a task and has yet to move the suffix.
Advancing(T, f) == IF \E t \in T : f[t] = "advance" THEN 1 ELSE 0

\* The tasks written and not yet read, how many they are, and how far behind _c_suffix the
\* first one is.
Unread == {t \in Pushable : t[2] <= written[t[1]]} \ (consumed \cup Held(val, Consumers))
Left == Cardinality(Unread)
First == cSuffix + Advancing(Consumers, step)

\* The slots behind _c_suffix hold the unread tasks, each once, and no producer has reached
\* them: there are as many as the counts say.
CircTasks ==
  /\ written \in [Producers -> 0 .. MaxPushes]
  /\ circularQueue \in [0 .. Slots - 1 -> {<<>>} \cup Pushable]
  /\ \A p \in Producers : step[p] \in {"lock", "copy"} => written[p] < MaxPushes
  /\ \A c \in Consumers : val[c] # <<>> <=> step[c] \in {"advance", "post", "run"}
  /\ Left + Advancing(Consumers, step) = Level + Advancing(Producers, step)
  /\ \A k \in 1 .. Left : CQ!InQueue[k] \in Unread
  /\ Typed(Queue, Lane(CQ!InQueue), Consumers, val, Pushable)
  /\ Once(Queue, Lane(CQ!InQueue), Consumers, val)
  /\ \A t \in Seen(Queue, Lane(CQ!InQueue), Consumers, val, consumed) :
       t \in Pushable /\ t[2] <= written[t[1]]

\* There are finitely many unread tasks.
LEMMA UnreadIsFinite == IsFiniteSet(Unread) /\ Left \in Nat
<1>1. IsFiniteSet(1 .. MaxPushes)
  BY HandOffAssumption, FS_Interval
<1>2. IsFiniteSet(Pushable)
  BY <1>1, HandOffAssumption, FS_Product DEF Pushable
<1>3. Unread \in SUBSET Pushable
  BY DEF Unread
<1>4. IsFiniteSet(Unread)
  BY <1>2, <1>3, FS_Subset
<1> QED BY <1>4, FS_CardinalityType DEF Left

\* Cardinality in CircularQueue is Cardinality.
LEMMA SameCardinality == \A S : CQ!Cardinality(S) = Cardinality(S)
BY DEF CQ!Cardinality, Cardinality

\* What InQueue reads.
LEMMA InQueueIs ==
  CircCounts => CQ!InQueue = [k \in 1 .. Left |-> circularQueue[(First + k - 1) % Slots]]
<1> SUFFICES ASSUME CircCounts
             PROVE  CQ!InQueue = [k \in 1 .. Left |-> circularQueue[(First + k - 1) % Slots]]
  OBVIOUS
<1>1. CQ!InQueue = [k \in 1 .. Left |->
        circularQueue[((IF \E c \in Consumers : step[c] = "advance"
                        THEN cSuffix + 1 ELSE cSuffix) + k - 1) % Slots]]
  BY SameCardinality DEF CQ!InQueue, Left, Unread, Held, Pushable
<1>2. First = IF \E c \in Consumers : step[c] = "advance" THEN cSuffix + 1 ELSE cSuffix
  BY DEF First, Advancing, CircCounts
<1> QED BY <1>1, <1>2

\* And after a step.
LEMMA InQueueThen ==
  CircCounts' => CQ!InQueue' = [k \in 1 .. Left' |-> circularQueue'[(First' + k - 1) % Slots]]
<1>1. (CircCounts => CQ!InQueue = [k \in 1 .. Left |-> circularQueue[(First + k - 1) % Slots]])'
  BY InQueueIs, PTL
<1> QED BY <1>1

\* HandOff's names.
LEMMA CircKnown ==
  CQ!Work!Known = Seen(Queue, Lane(CQ!InQueue), Consumers, val, consumed)
BY DEF CQ!Work!Known, CQ!Work!ToSet, Seen, Held, InLanes, Lane, Queue

\* Who advances is inside.
LEMMA AdvancingIsInside ==
  ASSUME NEW T \in {Producers, Consumers}
  PROVE  /\ Advancing(T, step) \in {0, 1}
         /\ Advancing(T, step) = 1 => Inside(T, step) >= 1
<1>1. Advancing(T, step) \in {0, 1}
  BY DEF Advancing
<1>2. Advancing(T, step) = 1 => \E t \in T : step[t] = "advance"
  BY DEF Advancing
<1> QED BY <1>1, <1>2, SomebodyInside DEF Within

\* The unread tasks are less than a turn.
LEMMA UnreadBounds ==
  ASSUME CircCounts, CircTasks
  PROVE  /\ Left \in Nat /\ Left <= Slots /\ Level \in Nat /\ First \in Nat
         /\ First - cSuffix \in {0, 1} /\ cSuffix \in 0 .. Slots - 1
         /\ First = cSuffix + Advancing(Consumers, step)
         /\ First + Left = cSuffix + Level + Advancing(Producers, step)
         /\ First + Left <= cSuffix + Slots
<1>1. Left \in Nat
  BY UnreadIsFinite
<1>2. /\ Advancing(Producers, step) \in {0, 1} /\ Advancing(Consumers, step) \in {0, 1}
      /\ Advancing(Producers, step) = 1 => Inside(Producers, step) >= 1
  BY AdvancingIsInside
<1>3. /\ Inside(Producers, step) \in Nat /\ Posting(Producers, step) \in Nat
      /\ Inside(Consumers, step) \in Nat /\ Posting(Consumers, step) \in Nat
  BY CountsAreNumbers
<1>4. /\ semSpace \in Nat /\ semData \in Nat /\ cSuffix \in 0 .. Slots - 1
      /\ semSpace + Level + Inside(Producers, step) + Posting(Consumers, step) = Slots
  BY DEF CircCounts
<1>5. Level \in Nat
  BY <1>3, <1>4 DEF Level
<1>6. Slots \in Nat /\ Slots > 0
  BY HandOffAssumption
<1>7. Level + Advancing(Producers, step) <= Slots
  BY <1>2, <1>3, <1>4, <1>5, <1>6
<1>8. Left + Advancing(Consumers, step) = Level + Advancing(Producers, step)
  BY DEF CircTasks
<1> QED BY <1>1, <1>2, <1>4, <1>5, <1>6, <1>7, <1>8 DEF First

\* Where the k-th of them is.
LEMMA UnreadSlots ==
  ASSUME CircCounts, CircTasks, NEW k \in 1 .. Left
  PROVE  /\ CQ!InQueue[k] = circularQueue[Round(First + k - 1)]
         /\ Round(First + k - 1) \in 0 .. Slots - 1
         /\ First + k - 1 \in Nat /\ First + k - 1 < Slots + Slots
<1>1. /\ Left \in Nat /\ First \in Nat /\ cSuffix \in 0 .. Slots - 1
      /\ First + Left <= cSuffix + Slots /\ Slots \in Nat /\ k \in Int /\ 1 <= k /\ k <= Left
  BY UnreadBounds, HandOffAssumption
<1>2. First + k - 1 \in Nat /\ First + k - 1 < Slots + Slots
  BY <1>1
<1>3. (First + k - 1) % Slots = Round(First + k - 1) /\ Round(First + k - 1) \in 0 .. Slots - 1
  BY <1>2, RoundIs
<1> QED BY <1>2, <1>3, InQueueIs

\* InQueue is a sequence.
LEMMA InQueueIsSeq ==
  ASSUME CircCounts, CircTasks
  PROVE  CQ!InQueue \in Seq(Pushable) /\ Len(CQ!InQueue) = Left /\ DOMAIN CQ!InQueue = 1 .. Left
<1>1. Lane(CQ!InQueue) \in [Queue -> Seq(Pushable)]
  BY DEF CircTasks, Typed
<1>2. CQ!InQueue \in Seq(Pushable)
  BY <1>1, LaneIs
<1>3. DOMAIN CQ!InQueue = 1 .. Left
  BY InQueueIs
<1>4. Len(CQ!InQueue) \in Nat /\ DOMAIN CQ!InQueue = 1 .. Len(CQ!InQueue) /\ Left \in Nat
  BY <1>2, LenProperties, UnreadIsFinite
<1>5. Len(CQ!InQueue) = Left
  BY <1>3, <1>4, SMT
<1> QED BY <1>2, <1>3, <1>5

\* What a step does to who advances: a mutex lets one through at a time.
LEMMA AdvancingMoves ==
  ASSUME CircCounts, NEW T \in {Producers, Consumers}, NEW U \in {Producers, Consumers},
         T # U, NEW t \in T, NEW from, NEW to, CQ!Goes(t, from, to)
  PROVE  /\ Advancing(U, step') = Advancing(U, step)
         /\ from = "copy" /\ to = "advance" =>
              Advancing(T, step) = 0 /\ Advancing(T, step') = 1
         /\ from = "advance" /\ to # "advance" =>
              Advancing(T, step) = 1 /\ Advancing(T, step') = 0
         /\ from # "advance" /\ to # "advance" =>
              Advancing(T, step') = Advancing(T, step)
<1>1. step[t] = from /\ step' = [step EXCEPT ![t] = to] /\ step \in [CQ!Users -> Steps]
  BY DEF CQ!Goes, CircCounts
<1>2. T \subseteq CQ!Users /\ U \subseteq CQ!Users /\ t \notin U
  BY HandOffAssumption DEF CQ!Users
<1>3. \A u \in T \cup U : u # t => step'[u] = step[u]
  BY <1>1, <1>2
<1>4. step'[t] = to
  BY <1>1, <1>2
<1>5. Advancing(U, step') = Advancing(U, step)
  BY <1>2, <1>3 DEF Advancing
<1>6. \A u \in T : step[t] \in Locked /\ step[u] \in Locked => u = t
  <2>1. \A u, v \in Holding(T, step) : u = v
    BY DEF CircCounts
  <2> QED BY <2>1 DEF Holding
<1>7. from = "copy" /\ to = "advance" => Advancing(T, step) = 0 /\ Advancing(T, step') = 1
  <2> SUFFICES ASSUME from = "copy", to = "advance"
               PROVE  Advancing(T, step) = 0 /\ Advancing(T, step') = 1
    OBVIOUS
  <2>1. \A u \in T : step[u] # "advance"
    BY <1>1, <1>6 DEF Locked
  <2>2. step'[t] = "advance"
    BY <1>4
  <2> QED BY <2>1, <2>2 DEF Advancing
<1>8. from = "advance" /\ to # "advance" => Advancing(T, step) = 1 /\ Advancing(T, step') = 0
  <2> SUFFICES ASSUME from = "advance", to # "advance"
               PROVE  Advancing(T, step) = 1 /\ Advancing(T, step') = 0
    OBVIOUS
  <2>1. \A u \in T : u # t => step'[u] # "advance"
    BY <1>1, <1>3, <1>6 DEF Locked
  <2>2. step[t] = "advance" /\ step'[t] # "advance"
    BY <1>1, <1>4
  <2> QED BY <2>1, <2>2 DEF Advancing
<1>9. from # "advance" /\ to # "advance" => Advancing(T, step') = Advancing(T, step)
  BY <1>1, <1>3, <1>4 DEF Advancing
<1> QED BY <1>5, <1>7, <1>8, <1>9

\* A step that leaves the tasks where they are, and moves at most a suffix.
LEMMA CircQuiet ==
  ASSUME CircCounts, CircCounts', CircTasks,
         UNCHANGED <<circularQueue, written, val, consumed>>,
         \/ UNCHANGED cSuffix /\ Advancing(Consumers, step') = Advancing(Consumers, step)
         \/ /\ cSuffix' = Round(cSuffix + 1)
            /\ Advancing(Consumers, step) = 1 /\ Advancing(Consumers, step') = 0,
         Left + Advancing(Consumers, step') = Level' + Advancing(Producers, step'),
         \A p \in Producers : step'[p] \in {"lock", "copy"} => written[p] < MaxPushes,
         \A c \in Consumers : val[c] # <<>> <=> step'[c] \in {"advance", "post", "run"}
  PROVE  CircTasks' /\ UNCHANGED CQ!Work!vars
<1>1. Unread' = Unread /\ Left' = Left
  BY DEF Unread, Left, Held
<1>2. CQ!InQueue = [k \in 1 .. Left |-> circularQueue[(First + k - 1) % Slots]]
  BY InQueueIs
<1>3. CQ!InQueue' = [k \in 1 .. Left |-> circularQueue[(First' + k - 1) % Slots]]
  BY <1>1, InQueueThen
<1>4. \A k \in 1 .. Left : (First' + k - 1) % Slots = (First + k - 1) % Slots
  <2> SUFFICES ASSUME NEW k \in 1 .. Left
               PROVE  (First' + k - 1) % Slots = (First + k - 1) % Slots
    OBVIOUS
  <2>1. /\ First + k - 1 \in Nat /\ First + k - 1 < Slots + Slots
        /\ Left \in Nat /\ Left <= Slots /\ cSuffix \in 0 .. Slots - 1
        /\ First = cSuffix + Advancing(Consumers, step)
        /\ Slots \in Nat /\ Slots > 0 /\ k \in Int /\ 1 <= k /\ k <= Left
    BY UnreadBounds, UnreadSlots, HandOffAssumption
  <2>2. First' = cSuffix' + Advancing(Consumers, step')
    BY DEF First
  <2>3. CASE UNCHANGED cSuffix /\ Advancing(Consumers, step') = Advancing(Consumers, step)
    <3>1. First' = First
      BY <2>1, <2>2, <2>3
    <3> QED BY <3>1
  <2>4. CASE /\ cSuffix' = Round(cSuffix + 1)
             /\ Advancing(Consumers, step) = 1 /\ Advancing(Consumers, step') = 0
    <3>1. PICK f : f = First'
      OBVIOUS
    <3>2. f = Round(cSuffix + 1) /\ First = cSuffix + 1
      <4>1. Round(cSuffix + 1) \in Int
        BY <2>1 DEF Round
      <4> QED BY <2>1, <2>2, <2>4, <3>1, <4>1
    <3>3. f + k - 1 \in Nat /\ f + k - 1 < Slots + Slots
      BY <2>1, <3>2 DEF Round
    <3>4. Round(f + k - 1) = Round(First + k - 1)
      BY <2>1, <3>2 DEF Round
    <3>5. (f + k - 1) % Slots = Round(f + k - 1)
      BY <3>3, RoundIs
    <3>6. (First + k - 1) % Slots = Round(First + k - 1)
      BY <2>1, RoundIs
    <3> QED BY <3>1, <3>4, <3>5, <3>6
  <2> QED BY <2>3, <2>4
<1>5. CQ!InQueue' = CQ!InQueue
  BY <1>2, <1>3, <1>4
<1>6. CircTasks'
  <2>1. /\ written' \in [Producers -> 0 .. MaxPushes]
        /\ circularQueue' \in [0 .. Slots - 1 -> {<<>>} \cup Pushable]
        /\ \A k \in 1 .. Left' : CQ!InQueue'[k] \in Unread'
    BY <1>1, <1>5 DEF CircTasks
  <2>2. /\ Typed(Queue, Lane(CQ!InQueue'), Consumers, val', Pushable)
        /\ Once(Queue, Lane(CQ!InQueue'), Consumers, val')
        /\ \A t \in Seen(Queue, Lane(CQ!InQueue'), Consumers, val', consumed') :
             t \in Pushable /\ t[2] <= written'[t[1]]
    BY <1>5 DEF CircTasks
  <2> QED BY <1>1, <2>1, <2>2 DEF CircTasks
<1>7. UNCHANGED CQ!Work!vars
  BY <1>5 DEF CQ!Work!vars
<1> QED BY <1>6, <1>7

\* A producer in Push that does not write.
LEMMA CircPushQuiet ==
  ASSUME CircCounts, CircTasks, NEW p \in Producers, CQ!Push(p), ~CQ!Write(p)
  PROVE  CircTasks' /\ UNCHANGED CQ!Work!vars
<1>1. PICK from, to \in Steps :
        /\ CQ!Goes(p, from, to) /\ from # "copy" /\ to # "advance"
        /\ to = "lock" => from = "idle" /\ written[p] < MaxPushes
        /\ to = "copy" => from = "lock"
  BY DEF CQ!Push, CQ!PSpace, CQ!LockP, CQ!AdvanceP, CQ!VData, Steps, Within
<1>2. UNCHANGED <<circularQueue, written, val, consumed, cSuffix>>
  BY DEF CQ!Push, CQ!PSpace, CQ!LockP, CQ!Write, CQ!AdvanceP, CQ!VData
<1>3. CircCounts' /\ Level' = IF step[p] = "advance" THEN Level + 1 ELSE Level
  BY PushCounts
<1>4. step[p] = from /\ step' = [step EXCEPT ![p] = to] /\ step \in [CQ!Users -> Steps]
  BY <1>1 DEF CQ!Goes, CircCounts
<1>5. p \notin Consumers /\ p \in CQ!Users /\ Producers # Consumers
  BY HandOffAssumption DEF CQ!Users
<1>6. step'[p] = to /\ \A u \in CQ!Users : u # p => step'[u] = step[u]
  BY <1>4, <1>5
<1>7. /\ Advancing(Consumers, step') = Advancing(Consumers, step)
      /\ from = "advance" => Advancing(Producers, step) = 1 /\ Advancing(Producers, step') = 0
      /\ from # "advance" => Advancing(Producers, step') = Advancing(Producers, step)
  BY <1>1, <1>5, AdvancingMoves
<1>8. Left + Advancing(Consumers, step') = Level' + Advancing(Producers, step')
  <2>1. Left + Advancing(Consumers, step) = Level + Advancing(Producers, step) /\ Level \in Nat
    BY UnreadBounds DEF CircTasks
  <2>2. CASE from = "advance"
    BY <1>3, <1>4, <1>7, <2>1, <2>2
  <2>3. CASE from # "advance"
    BY <1>3, <1>4, <1>7, <2>1, <2>3
  <2> QED BY <2>2, <2>3
<1>9. \A q \in Producers : step'[q] \in {"lock", "copy"} => written[q] < MaxPushes
  BY <1>1, <1>4, <1>6 DEF CircTasks, CQ!Users
<1>10. \A c \in Consumers : val[c] # <<>> <=> step'[c] \in {"advance", "post", "run"}
  BY <1>5, <1>6 DEF CircTasks, CQ!Users
<1> QED BY <1>2, <1>3, <1>7, <1>8, <1>9, <1>10, CircQuiet

\* A consumer in Pop that does not read.
LEMMA CircPopQuiet ==
  ASSUME CircCounts, CircTasks, NEW c \in Consumers, CQ!Pop(c), ~CQ!Read(c)
  PROVE  CircTasks' /\ UNCHANGED CQ!Work!vars
<1>1. PICK from, to \in Steps :
        /\ CQ!Goes(c, from, to) /\ from # "copy" /\ to # "advance"
        /\ from \in {"advance", "post", "run"} <=> to \in {"advance", "post", "run"}
        /\ from = "advance" => cSuffix' = (cSuffix + 1) % Slots
        /\ from # "advance" => cSuffix' = cSuffix
  BY DEF CQ!Pop, CQ!PData, CQ!LockC, CQ!AdvanceC, CQ!VSpace, Steps, Within
<1>2. UNCHANGED <<circularQueue, written, val, consumed>>
  BY DEF CQ!Pop, CQ!PData, CQ!LockC, CQ!Read, CQ!AdvanceC, CQ!VSpace
<1>3. CircCounts' /\ Level' = IF step[c] = "advance" THEN Level - 1 ELSE Level
  BY PopCounts
<1>4. step[c] = from /\ step' = [step EXCEPT ![c] = to] /\ step \in [CQ!Users -> Steps]
  BY <1>1 DEF CQ!Goes, CircCounts
<1>5. c \notin Producers /\ c \in CQ!Users /\ Producers # Consumers
  BY HandOffAssumption DEF CQ!Users
<1>6. step'[c] = to /\ \A u \in CQ!Users : u # c => step'[u] = step[u]
  BY <1>4, <1>5
<1>7. /\ Advancing(Producers, step') = Advancing(Producers, step)
      /\ from = "advance" => Advancing(Consumers, step) = 1 /\ Advancing(Consumers, step') = 0
      /\ from # "advance" => Advancing(Consumers, step') = Advancing(Consumers, step)
  BY <1>1, <1>5, AdvancingMoves
<1>8. Left + Advancing(Consumers, step') = Level' + Advancing(Producers, step')
  <2>1. /\ Left + Advancing(Consumers, step) = Level + Advancing(Producers, step)
        /\ Level \in Nat /\ Left \in Nat /\ Advancing(Producers, step) \in {0, 1}
    BY UnreadBounds, AdvancingIsInside DEF CircTasks
  <2>2. CASE from = "advance"
    BY <1>3, <1>4, <1>7, <2>1, <2>2
  <2>3. CASE from # "advance"
    BY <1>3, <1>4, <1>7, <2>1, <2>3
  <2> QED BY <2>2, <2>3
<1>9. \A p \in Producers : step'[p] \in {"lock", "copy"} => written[p] < MaxPushes
  BY <1>5, <1>6 DEF CircTasks, CQ!Users
<1>10. \A d \in Consumers : val[d] # <<>> <=> step'[d] \in {"advance", "post", "run"}
  BY <1>1, <1>4, <1>6 DEF CircTasks, CQ!Users
<1>11. \/ UNCHANGED cSuffix /\ Advancing(Consumers, step') = Advancing(Consumers, step)
       \/ /\ cSuffix' = Round(cSuffix + 1)
          /\ Advancing(Consumers, step) = 1 /\ Advancing(Consumers, step') = 0
  <2>1. (cSuffix + 1) % Slots = Round(cSuffix + 1)
    <3>1. cSuffix + 1 \in Nat /\ cSuffix + 1 < Slots + Slots
      BY HandOffAssumption DEF CircCounts
    <3> QED BY <3>1, RoundIs
  <2> QED BY <1>1, <1>7, <2>1
<1> QED BY <1>2, <1>3, <1>8, <1>9, <1>10, <1>11, CircQuiet

\* A consumer runs the task it has read.
LEMMA CircRun ==
  ASSUME CircCounts, CircTasks, NEW c \in Consumers, CQ!RunTask(c)
  PROVE  CircTasks' /\ [CQ!Work!Next]_CQ!Work!vars
<1>1. /\ CQ!Goes(c, "run", "idle") /\ UNCHANGED <<circularQueue, written, cSuffix>>
      /\ val' = [val EXCEPT ![c] = <<>>] /\ consumed' = consumed \cup {val[c][1]}
  BY DEF CQ!RunTask
<1>2. CircCounts' /\ Level' = IF step[c] = "advance" THEN Level - 1 ELSE Level
  BY PopCounts
<1>3. step[c] = "run" /\ step' = [step EXCEPT ![c] = "idle"] /\ step \in [CQ!Users -> Steps]
  BY <1>1 DEF CQ!Goes, CircCounts
<1>4. c \notin Producers /\ c \in CQ!Users /\ Producers # Consumers
  BY HandOffAssumption DEF CQ!Users
<1>5. step'[c] = "idle" /\ \A u \in CQ!Users : u # c => step'[u] = step[u]
  BY <1>3, <1>4
<1>6. /\ Advancing(Producers, step') = Advancing(Producers, step)
      /\ Advancing(Consumers, step') = Advancing(Consumers, step)
  BY <1>1, <1>4, AdvancingMoves
<1>7. val[c] # <<>>
  BY <1>3 DEF CircTasks
<1>8. LET g == [val EXCEPT ![c] = <<>>]
      IN  /\ Typed(Queue, Lane(CQ!InQueue), Consumers, g, Pushable)
          /\ Once(Queue, Lane(CQ!InQueue), Consumers, g)
          /\ val[c][1] \in Held(val, Consumers)
          /\ \A y : y \in Held(g, Consumers) <=> y \in Held(val, Consumers) /\ y # val[c][1]
  <2>1. /\ Typed(Queue, Lane(CQ!InQueue), Consumers, val, Pushable)
        /\ Once(Queue, Lane(CQ!InQueue), Consumers, val)
    BY DEF CircTasks
  <2> QED BY <1>7, <2>1, Done, Zenon
<1>9. /\ Typed(Queue, Lane(CQ!InQueue), Consumers, val', Pushable)
      /\ Once(Queue, Lane(CQ!InQueue), Consumers, val')
      /\ val[c][1] \in Held(val, Consumers)
      /\ Held(val', Consumers) = Held(val, Consumers) \ {val[c][1]}
  BY <1>1, <1>8
<1>10. consumed' \cup Held(val', Consumers) = consumed \cup Held(val, Consumers)
  BY <1>1, <1>9
<1>11. Unread' = Unread /\ Left' = Left
  <2>1. Unread' = Unread
    BY <1>1, <1>10 DEF Unread
  <2> QED BY <2>1 DEF Left
<1>12. First' = First
  BY <1>1, <1>6 DEF First
<1>13. CQ!InQueue' = CQ!InQueue
  BY <1>1, <1>2, <1>11, <1>12, InQueueIs, InQueueThen
<1>14. CircTasks'
  <2>1. Left' + Advancing(Consumers, step') = Level' + Advancing(Producers, step')
    BY <1>2, <1>3, <1>6, <1>11 DEF CircTasks
  <2>2. \A p \in Producers : step'[p] \in {"lock", "copy"} => written'[p] < MaxPushes
    BY <1>1, <1>4, <1>5 DEF CircTasks, CQ!Users
  <2>3. \A d \in Consumers : val'[d] # <<>> <=> step'[d] \in {"advance", "post", "run"}
    <3>1. val'[c] = <<>> /\ \A d \in Consumers : d # c => val'[d] = val[d]
      BY <1>1 DEF CircTasks, Typed
    <3> QED BY <1>5, <3>1 DEF CircTasks, CQ!Users
  <2>4. \A t \in Seen(Queue, Lane(CQ!InQueue), Consumers, val', consumed') :
          t \in Seen(Queue, Lane(CQ!InQueue), Consumers, val, consumed)
    BY <1>10 DEF Seen
  <2> QED BY <1>1, <1>9, <1>11, <1>13, <2>1, <2>2, <2>3, <2>4 DEF CircTasks
<1>15. CQ!Work!Complete
  BY <1>1, <1>9, <1>13 DEF CQ!Work!Complete, Held
<1> QED BY <1>14, <1>15 DEF CQ!Work!Next

\* The queue r is q, with x behind it.
Longer(r, q, x) ==
  /\ r = [k \in 1 .. Len(q) + 1 |-> r[k]]
  /\ (\A k \in 1 .. Len(q) : r[k] = q[k]) /\ r[Len(q) + 1] = x

\* That is what Append returns.
LEMMA LongerIsAppend ==
  ASSUME NEW I, NEW q \in Seq(I), NEW x \in I, NEW r, Longer(r, q, x)
  PROVE  r = Append(q, x)
<1>1. PICK n \in Nat : n = Len(q)
  BY LenProperties
<1>2. PICK a : a = Append(q, x)
  OBVIOUS
<1>3. a \in Seq(I) /\ Len(a) = n + 1 /\ (\A k \in 1 .. n : a[k] = q[k]) /\ a[n + 1] = x
  BY <1>1, <1>2, AppendProperties
<1>4. a = [k \in 1 .. n + 1 |-> a[k]]
  BY <1>3, LenProperties
<1>5. \A k \in 1 .. n + 1 : k \in 1 .. n \/ k = n + 1
  BY SMT
<1>6. \A k \in 1 .. n + 1 : r[k] = a[k]
  BY <1>1, <1>3, <1>5 DEF Longer
<1>7. r = [k \in 1 .. n + 1 |-> r[k]]
  BY <1>1 DEF Longer
<1> QED BY <1>2, <1>4, <1>6, <1>7

\* The queue r is q without its first item.
Shorter(r, q) ==
  /\ r = [k \in 1 .. Len(q) - 1 |-> r[k]]
  /\ \A k \in 1 .. Len(q) - 1 : r[k] = q[k + 1]

\* That is what Tail returns.
LEMMA ShorterIsTail ==
  ASSUME NEW I, NEW q \in Seq(I), q # <<>>, NEW r, Shorter(r, q)
  PROVE  r = Tail(q)
<1>1. PICK n \in Nat : n = Len(q)
  BY LenProperties
<1>2. PICK a : a = Tail(q)
  OBVIOUS
<1>3. a \in Seq(I) /\ Len(a) = n - 1 /\ \A k \in 1 .. n - 1 : a[k] = q[k + 1]
  BY <1>1, <1>2, HeadTailProperties
<1>4. a = [k \in 1 .. n - 1 |-> a[k]]
  BY <1>3, LenProperties
<1>5. r = [k \in 1 .. n - 1 |-> r[k]] /\ \A k \in 1 .. n - 1 : r[k] = a[k]
  BY <1>1, <1>3 DEF Shorter
<1> QED BY <1>2, <1>4, <1>5

\* A producer writes: the new task is the last one in the queue.
LEMMA CircWrite ==
  ASSUME CircCounts, CircTasks, NEW p \in Producers, CQ!Write(p)
  PROVE  CircTasks' /\ [CQ!Work!Next]_CQ!Work!vars
<1>1. PICK x : x = <<p, written[p] + 1>>
  OBVIOUS
<1>2. /\ CQ!Goes(p, "copy", "advance") /\ UNCHANGED <<cSuffix, val, consumed>>
      /\ circularQueue' = [circularQueue EXCEPT ![pSuffix] = x]
      /\ written' = [written EXCEPT ![p] = @ + 1]
  BY <1>1 DEF CQ!Write
<1>3. CircCounts' /\ Level' = IF step[p] = "advance" THEN Level + 1 ELSE Level
  BY PushCounts DEF CQ!Push
<1>4. step[p] = "copy" /\ step' = [step EXCEPT ![p] = "advance"] /\ step \in [CQ!Users -> Steps]
  BY <1>2 DEF CQ!Goes, CircCounts
<1>5. p \notin Consumers /\ p \in CQ!Users /\ Producers # Consumers
  BY HandOffAssumption DEF CQ!Users
<1>6. step'[p] = "advance" /\ \A u \in CQ!Users : u # p => step'[u] = step[u]
  BY <1>4, <1>5
<1>7. /\ Advancing(Consumers, step') = Advancing(Consumers, step)
      /\ Advancing(Producers, step) = 0 /\ Advancing(Producers, step') = 1
  BY <1>2, <1>5, AdvancingMoves
<1>8. Level' = Level /\ First' = First
  BY <1>2, <1>3, <1>4, <1>7 DEF First
<1>9. /\ written \in [Producers -> 0 .. MaxPushes] /\ written[p] \in Nat
      /\ written[p] + 1 \in 1 .. MaxPushes
  BY <1>4, HandOffAssumption, SMT DEF CircTasks
<1>10. x \in Pushable /\ x[1] = p /\ x[2] = written[p] + 1
  BY <1>1, <1>9 DEF Pushable
<1>11. x \notin Seen(Queue, Lane(CQ!InQueue), Consumers, val, consumed)
  BY <1>9, <1>10 DEF CircTasks
<1>12. x \notin Unread /\ x \notin consumed \cup Held(val, Consumers)
  BY <1>9, <1>10, <1>11 DEF Unread, Seen
<1>13. /\ written' \in [Producers -> 0 .. MaxPushes] /\ written'[p] = written[p] + 1
       /\ \A q \in Producers : q # p => written'[q] = written[q]
  BY <1>2, <1>9
<1>14. \A t \in Pushable : t[2] <= written'[t[1]] <=> t[2] <= written[t[1]] \/ t = x
  <2> SUFFICES ASSUME NEW t \in Pushable
               PROVE  t[2] <= written'[t[1]] <=> t[2] <= written[t[1]] \/ t = x
    OBVIOUS
  <2>1. t[1] \in Producers /\ t[2] \in 1 .. MaxPushes /\ t = <<t[1], t[2]>>
    BY DEF Pushable
  <2>2. CASE t[1] = p
    <3>1. t[2] <= written[p] + 1 <=> t[2] <= written[p] \/ t[2] = written[p] + 1
      BY <1>9, <2>1
    <3>2. t = x <=> t[2] = written[p] + 1
      BY <1>1, <1>10, <2>1, <2>2
    <3> QED BY <1>13, <2>2, <3>1, <3>2
  <2>3. CASE t[1] # p
    BY <1>10, <1>13, <2>1, <2>3
  <2> QED BY <2>2, <2>3
<1>15. Unread' = Unread \cup {x}
  BY <1>2, <1>10, <1>12, <1>14 DEF Unread
<1>16. Left' = Left + 1 /\ Left \in Nat
  BY <1>12, <1>15, UnreadIsFinite, FS_AddElement DEF Left
<1>17. Longer(CQ!InQueue', CQ!InQueue, x)
  <2>1. PICK r : r = CQ!InQueue'
    OBVIOUS
  <2>2. r = [k \in 1 .. Left + 1 |-> circularQueue'[(First + k - 1) % Slots]]
    BY <1>3, <1>8, <1>16, <2>1, InQueueThen
  <2>3. /\ Left \in Nat /\ First \in Nat /\ cSuffix \in 0 .. Slots - 1 /\ Level \in Nat
        /\ First - cSuffix \in {0, 1} /\ First + Left = cSuffix + Level
        /\ Slots \in Nat /\ Slots > 0
    BY <1>7, UnreadBounds, HandOffAssumption
  <2>4. Level <= Slots - 1
    <3>1. Inside(Producers, step) >= 1
      BY <1>4, SomebodyInside DEF Within
    <3>2. /\ Inside(Producers, step) \in Nat /\ Posting(Consumers, step) \in Nat
          /\ semSpace \in Nat
          /\ semSpace + Level + Inside(Producers, step) + Posting(Consumers, step) = Slots
      BY CountsAreNumbers DEF CircCounts
    <3> QED BY <2>3, <3>1, <3>2
  <2>5. pSuffix = Round(cSuffix + Level) /\ pSuffix \in 0 .. Slots - 1
    BY DEF CircCounts
  <2>6. \A k \in 1 .. Left + 1 : (First + k - 1) % Slots = Round(First + k - 1)
    <3>1. \A k \in 1 .. Left + 1 : First + k - 1 \in Nat /\ First + k - 1 < Slots + Slots
      BY <2>3, <2>4
    <3> QED BY <3>1, RoundIs
  <2>7. \A k \in 1 .. Left : Round(First + k - 1) # pSuffix
    BY <2>3, <2>4, <2>5 DEF Round
  <2>8. \A k \in 1 .. Left : r[k] = CQ!InQueue[k]
    <3> SUFFICES ASSUME NEW k \in 1 .. Left PROVE r[k] = CQ!InQueue[k]
      OBVIOUS
    <3>1. k \in 1 .. Left + 1
      BY <2>3
    <3>2. /\ CQ!InQueue[k] = circularQueue[Round(First + k - 1)]
          /\ Round(First + k - 1) \in 0 .. Slots - 1
      BY UnreadSlots
    <3>3. circularQueue'[Round(First + k - 1)] = circularQueue[Round(First + k - 1)]
      BY <1>2, <2>7, <3>2 DEF CircTasks
    <3> QED BY <2>2, <2>6, <3>1, <3>2, <3>3
  <2>9. r[Left + 1] = x
    <3>1. Left + 1 \in 1 .. Left + 1 /\ First + (Left + 1) - 1 = cSuffix + Level
      BY <2>3
    <3>2. r[Left + 1] = circularQueue'[pSuffix]
      BY <2>2, <2>5, <2>6, <3>1
    <3> QED BY <1>2, <2>5, <3>2 DEF CircTasks
  <2>10. Len(CQ!InQueue) = Left
    BY InQueueIsSeq
  <2>11. r = [k \in 1 .. Left + 1 |-> r[k]]
    BY <2>2
  <2> QED BY <2>1, <2>8, <2>9, <2>10, <2>11 DEF Longer
<1>18. CQ!InQueue' = Append(CQ!InQueue, x)
  <2> x \in Pushable
    BY <1>10
  <2>1. CQ!InQueue \in Seq(Pushable)
    BY InQueueIsSeq
  <2> QED BY <1>17, <2>1, LongerIsAppend
<1>19. /\ Typed(Queue, Lane(CQ!InQueue'), Consumers, val, Pushable)
       /\ Once(Queue, Lane(CQ!InQueue'), Consumers, val)
       /\ \A y \in Seen(Queue, Lane(CQ!InQueue'), Consumers, val, consumed) :
            y \in Seen(Queue, Lane(CQ!InQueue), Consumers, val, consumed) \/ y = x
  <2>1. /\ Typed(Queue, Lane(CQ!InQueue), Consumers, val, Pushable)
        /\ Once(Queue, Lane(CQ!InQueue), Consumers, val)
    BY DEF CircTasks
  <2>2. PICK q : q = CQ!InQueue
    OBVIOUS
  <2>3. /\ Typed(Queue, Lane(Append(q, x)), Consumers, val, Pushable)
        /\ Once(Queue, Lane(Append(q, x)), Consumers, val)
        /\ \A y \in Seen(Queue, Lane(Append(q, x)), Consumers, val, consumed) :
             y \in Seen(Queue, Lane(q), Consumers, val, consumed) \/ y = x
    <3> x \in Pushable
      BY <1>10
    <3>1. /\ Typed(Queue, Lane(q), Consumers, val, Pushable)
          /\ Once(Queue, Lane(q), Consumers, val)
          /\ x \notin Seen(Queue, Lane(q), Consumers, val, consumed)
      BY <1>11, <2>1, <2>2
    <3> QED BY <3>1, QueueSubmitted, Zenon
  <2> QED BY <1>18, <2>2, <2>3
<1>20. CircTasks'
  <2>1. circularQueue' \in [0 .. Slots - 1 -> {<<>>} \cup Pushable]
    BY <1>2, <1>10 DEF CircTasks
  <2>2. \A q \in Producers : step'[q] \in {"lock", "copy"} => written'[q] < MaxPushes
    BY <1>5, <1>6, <1>13 DEF CircTasks, CQ!Users
  <2>3. \A c \in Consumers : val'[c] # <<>> <=> step'[c] \in {"advance", "post", "run"}
    BY <1>2, <1>5, <1>6 DEF CircTasks, CQ!Users
  <2>4. Left' + Advancing(Consumers, step') = Level' + Advancing(Producers, step')
    <3>1. Left + Advancing(Consumers, step) = Level + Advancing(Producers, step)
      BY DEF CircTasks
    <3>2. Level \in Nat /\ Advancing(Consumers, step) \in {0, 1}
      BY UnreadBounds, AdvancingIsInside
    <3> QED BY <1>7, <1>8, <1>16, <3>1, <3>2
  <2>5. \A k \in 1 .. Left' : CQ!InQueue'[k] \in Unread'
    <3>1. PICK r : r = CQ!InQueue'
      OBVIOUS
    <3>2. Len(CQ!InQueue) = Left
      BY InQueueIsSeq
    <3>3. (\A k \in 1 .. Left : r[k] = CQ!InQueue[k]) /\ r[Left + 1] = x
      BY <1>17, <3>1, <3>2 DEF Longer
    <3>4. \A k \in 1 .. Left + 1 : k \in 1 .. Left \/ k = Left + 1
      BY <1>16
    <3>5. \A k \in 1 .. Left + 1 : r[k] \in Unread \cup {x}
      BY <3>3, <3>4 DEF CircTasks
    <3> QED BY <1>15, <1>16, <3>1, <3>5
  <2>6. \A t \in Seen(Queue, Lane(CQ!InQueue'), Consumers, val, consumed) :
          t \in Pushable /\ t[2] <= written'[t[1]]
    <3>1. \A t \in Seen(Queue, Lane(CQ!InQueue), Consumers, val, consumed) :
            t \in Pushable /\ t[2] <= written[t[1]]
      BY DEF CircTasks
    <3> QED BY <1>10, <1>14, <1>19, <3>1
  <2> QED BY <1>2, <1>13, <1>19, <2>1, <2>2, <2>3, <2>4, <2>5, <2>6 DEF CircTasks
<1>21. CQ!Work!Submit
  <2>1. x \in Pushable \ CQ!Work!Known
    BY <1>10, <1>11, CircKnown
  <2> QED BY <1>2, <1>18, <2>1 DEF CQ!Work!Submit, Pushable
<1> QED BY <1>20, <1>21 DEF CQ!Work!Next

\* A consumer reads: it takes the first task of the queue.
LEMMA CircRead ==
  ASSUME CircCounts, CircTasks, NEW c \in Consumers, CQ!Read(c)
  PROVE  CircTasks' /\ [CQ!Work!Next]_CQ!Work!vars
<1>1. PICK y : y = circularQueue[cSuffix]
  OBVIOUS
<1>2. /\ CQ!Goes(c, "copy", "advance") /\ UNCHANGED <<circularQueue, cSuffix, written, consumed>>
      /\ val' = [val EXCEPT ![c] = <<y>>]
  BY <1>1 DEF CQ!Read
<1>3. CircCounts' /\ Level' = IF step[c] = "advance" THEN Level - 1 ELSE Level
  BY PopCounts DEF CQ!Pop
<1>4. step[c] = "copy" /\ step' = [step EXCEPT ![c] = "advance"] /\ step \in [CQ!Users -> Steps]
  BY <1>2 DEF CQ!Goes, CircCounts
<1>5. c \notin Producers /\ c \in CQ!Users /\ Producers # Consumers
  BY HandOffAssumption DEF CQ!Users
<1>6. step'[c] = "advance" /\ \A u \in CQ!Users : u # c => step'[u] = step[u]
  BY <1>4, <1>5
<1>7. /\ Advancing(Producers, step') = Advancing(Producers, step)
      /\ Advancing(Consumers, step) = 0 /\ Advancing(Consumers, step') = 1
  BY <1>2, <1>5, AdvancingMoves
<1>8. /\ Left \in Nat /\ First = cSuffix /\ cSuffix \in 0 .. Slots - 1 /\ Level \in Nat
      /\ Slots \in Nat /\ Slots > 0 /\ Left >= Level
  BY <1>7, UnreadBounds, AdvancingIsInside, HandOffAssumption
<1>9. Left >= 1
  <2>1. Inside(Consumers, step) >= 1
    BY <1>4, SomebodyInside DEF Within
  <2>2. /\ Inside(Consumers, step) \in Nat /\ Posting(Producers, step) \in Nat
        /\ semData \in Nat
    BY CountsAreNumbers DEF CircCounts
  <2> QED BY <1>8, <2>1, <2>2 DEF Level
<1>10. /\ CQ!InQueue \in Seq(Pushable) /\ Len(CQ!InQueue) = Left
       /\ DOMAIN CQ!InQueue = 1 .. Left /\ 1 \in 1 .. Left
  BY <1>8, <1>9, InQueueIsSeq
<1>11. CQ!InQueue # <<>>
  BY <1>9, <1>10
<1>12. Head(CQ!InQueue) = y /\ y \in Unread /\ CQ!InQueue[1] = y
  <2>1. CQ!InQueue[1] = circularQueue[Round(First + 1 - 1)]
    BY <1>10, UnreadSlots
  <2>2. Round(First + 1 - 1) = cSuffix
    BY <1>8 DEF Round
  <2>3. CQ!InQueue[1] = y
    BY <1>1, <2>1, <2>2
  <2>4. Head(CQ!InQueue) = CQ!InQueue[1]
    BY <1>10, <1>11, HeadTailProperties
  <2>5. CQ!InQueue[1] \in Unread
    BY <1>10 DEF CircTasks
  <2> QED BY <2>3, <2>4, <2>5
<1>13. val[c] = <<>>
  <2>1. ~(step[c] \in {"advance", "post", "run"})
    BY <1>4
  <2> QED BY <2>1 DEF CircTasks
<1>14. /\ Typed(Queue, Lane(Tail(CQ!InQueue)), Consumers, val', Pushable)
       /\ Once(Queue, Lane(Tail(CQ!InQueue)), Consumers, val')
       /\ Held(val', Consumers) = Held(val, Consumers) \cup {y}
       /\ \A t \in Seen(Queue, Lane(Tail(CQ!InQueue)), Consumers, val', consumed) :
            t \in Seen(Queue, Lane(CQ!InQueue), Consumers, val, consumed)
  <2>1. PICK q : q = CQ!InQueue
    OBVIOUS
  <2>2. LET g == [val EXCEPT ![c] = <<Head(q)>>]
        IN  /\ Typed(Queue, Lane(Tail(q)), Consumers, g, Pushable)
            /\ Once(Queue, Lane(Tail(q)), Consumers, g)
            /\ Held(g, Consumers) = Held(val, Consumers) \cup {Head(q)}
            /\ \A t \in Seen(Queue, Lane(Tail(q)), Consumers, g, consumed) :
                 t \in Seen(Queue, Lane(q), Consumers, val, consumed)
    <3>1. /\ Typed(Queue, Lane(q), Consumers, val, Pushable)
          /\ Once(Queue, Lane(q), Consumers, val) /\ q # <<>>
      BY <1>11, <2>1 DEF CircTasks
    <3> QED BY <1>13, <3>1, QueueTaken, Zenon
  <2>3. Head(q) = y
    BY <1>12, <2>1
  <2> QED BY <1>2, <2>1, <2>2, <2>3
<1>15. Unread' = Unread \ {y}
  BY <1>2, <1>14 DEF Unread
<1>16. Left' = Left - 1
  BY <1>12, <1>15, UnreadIsFinite, FS_RemoveElement DEF Left
<1>17. First' = First + 1
  <2>1. First' = cSuffix + 1
    BY <1>2, <1>7 DEF First
  <2> QED BY <1>8, <2>1
<1>18. Shorter(CQ!InQueue', CQ!InQueue)
  <2>1. PICK r : r = CQ!InQueue'
    OBVIOUS
  <2>2. r = [k \in 1 .. Left - 1 |-> circularQueue[(First + 1 + k - 1) % Slots]]
    BY <1>2, <1>3, <1>16, <1>17, <2>1, InQueueThen
  <2>3. \A k \in 1 .. Left - 1 : r[k] = CQ!InQueue[k + 1]
    <3> SUFFICES ASSUME NEW k \in 1 .. Left - 1 PROVE r[k] = CQ!InQueue[k + 1]
      OBVIOUS
    <3>1. k + 1 \in 1 .. Left /\ First + (k + 1) - 1 = First + 1 + k - 1
      BY <1>8
    <3>2. CQ!InQueue[k + 1] = circularQueue[(First + (k + 1) - 1) % Slots]
      BY <3>1, InQueueIs
    <3> QED BY <2>2, <3>1, <3>2
  <2>4. r = [k \in 1 .. Left - 1 |-> r[k]]
    BY <2>2
  <2> QED BY <1>10, <2>1, <2>3, <2>4 DEF Shorter
<1>19. CQ!InQueue' = Tail(CQ!InQueue)
  BY <1>10, <1>11, <1>18, ShorterIsTail
<1>20. CircTasks'
  <2>1. \A p \in Producers : step'[p] \in {"lock", "copy"} => written'[p] < MaxPushes
    BY <1>2, <1>5, <1>6 DEF CircTasks, CQ!Users
  <2>2. \A d \in Consumers : val'[d] # <<>> <=> step'[d] \in {"advance", "post", "run"}
    <3>1. val'[c] = <<y>> /\ \A d \in Consumers : d # c => val'[d] = val[d]
      BY <1>2 DEF CircTasks, Typed
    <3> QED BY <1>6, <3>1 DEF CircTasks, CQ!Users
  <2>3. Left' + Advancing(Consumers, step') = Level' + Advancing(Producers, step')
    <3>1. Left + Advancing(Consumers, step) = Level + Advancing(Producers, step)
      BY DEF CircTasks
    <3>2. Level' = Level /\ Advancing(Producers, step) \in {0, 1}
      BY <1>3, <1>4, AdvancingIsInside
    <3> QED BY <1>7, <1>8, <1>16, <3>1, <3>2
  <2>4. \A k \in 1 .. Left' : CQ!InQueue'[k] \in Unread'
    <3>1. PICK r : r = CQ!InQueue'
      OBVIOUS
    <3>2. \A k \in 1 .. Left - 1 : r[k] = CQ!InQueue[k + 1]
      BY <1>10, <1>18, <3>1 DEF Shorter
    <3>3. \A k \in 1 .. Left - 1 : k + 1 \in 1 .. Left /\ k + 1 # 1
      BY <1>8
    <3>4. \A k \in 1 .. Left : k # 1 => CQ!InQueue[k] # y
      <4>1. PICK q : q = CQ!InQueue
        OBVIOUS
      <4>2. DOMAIN q = 1 .. Left /\ q[1] = y /\ 1 \in DOMAIN q
        BY <1>10, <1>12, <4>1
      <4>3. "queue" \in Queue /\ Lane(q)["queue"] = q
        BY LaneIs
      <4>4. Once(Queue, Lane(q), Consumers, val)
        BY <4>1 DEF CircTasks
      <4>5. \A l, m \in Queue : \A i \in DOMAIN Lane(q)[l], j \in DOMAIN Lane(q)[m] :
              Lane(q)[l][i] = Lane(q)[m][j] => l = m /\ i = j
        BY <4>4 DEF Once
      <4>6. \A i, j \in DOMAIN q : q[i] = q[j] => i = j
        BY <4>3, <4>5
      <4> QED BY <4>1, <4>2, <4>6
    <3> QED BY <1>15, <1>16, <3>1, <3>2, <3>3, <3>4 DEF CircTasks
  <2>5. \A t \in Seen(Queue, Lane(CQ!InQueue'), Consumers, val', consumed') :
          t \in Pushable /\ t[2] <= written'[t[1]]
    <3>1. \A t \in Seen(Queue, Lane(CQ!InQueue), Consumers, val, consumed) :
            t \in Pushable /\ t[2] <= written[t[1]]
      BY DEF CircTasks
    <3> QED BY <1>2, <1>14, <1>19, <3>1
  <2>6. /\ Typed(Queue, Lane(CQ!InQueue'), Consumers, val', Pushable)
        /\ Once(Queue, Lane(CQ!InQueue'), Consumers, val')
    BY <1>14, <1>19
  <2> QED BY <1>2, <2>1, <2>2, <2>3, <2>4, <2>5, <2>6 DEF CircTasks
<1>21. CQ!Work!Take
  <2>1. Held(val', Consumers) = Held(val, Consumers) \cup {Head(CQ!InQueue)}
    BY <1>12, <1>14
  <2> QED BY <1>2, <1>11, <1>19, <2>1 DEF CQ!Work!Take, Held
<1> QED BY <1>20, <1>21 DEF CQ!Work!Next

\* It begins empty.
LEMMA CircTasksInit == CQ!Init => CircTasks /\ CQ!Work!Init
<1> SUFFICES ASSUME CQ!Init PROVE CircTasks /\ CQ!Work!Init
  OBVIOUS
<1>1. /\ circularQueue = [s \in 0 .. Slots - 1 |-> <<>>]
      /\ step = [t \in CQ!Users |-> "idle"] /\ written = [p \in Producers |-> 0]
      /\ val = [c \in Consumers |-> <<>>] /\ consumed = {}
  BY DEF CQ!Init
<1>2. CircCounts
  BY CircCountsInit
<1>3. \A T \in {Producers, Consumers} : \A t \in T : step[t] = "idle"
  BY <1>1 DEF CQ!Users
<1>4. Advancing(Producers, step) = 0 /\ Advancing(Consumers, step) = 0
  BY <1>3 DEF Advancing
<1>5. Unread = {}
  BY <1>1 DEF Unread, Pushable
<1>6. Left = 0
  BY <1>5, FS_EmptySet DEF Left
<1>7. CQ!InQueue = <<>>
  BY <1>2, <1>6, InQueueIs
<1>8. Level = 0
  BY CircCountsInit
<1>9. Typed(Queue, Lane(CQ!InQueue), Consumers, val, Pushable)
  BY <1>1, <1>7, EmptySeq DEF Typed, Lane, AtMostOne
<1>10. Held(val, Consumers) = {} /\ InLanes(Lane(CQ!InQueue), Queue) = {}
  BY <1>1, <1>7 DEF Held, InLanes, Lane, Queue
<1>11. Once(Queue, Lane(CQ!InQueue), Consumers, val)
  BY <1>1, <1>7 DEF Once, Lane
<1>12. CQ!Work!Init
  BY <1>1, <1>7 DEF CQ!Work!Init
<1>13. CircTasks
  <2>1. /\ written \in [Producers -> 0 .. MaxPushes]
        /\ circularQueue \in [0 .. Slots - 1 -> {<<>>} \cup Pushable]
    BY <1>1, HandOffAssumption
  <2>2. /\ \A p \in Producers : step[p] \in {"lock", "copy"} => written[p] < MaxPushes
        /\ \A c \in Consumers : val[c] # <<>> <=> step[c] \in {"advance", "post", "run"}
    BY <1>1, <1>3
  <2> QED BY <1>1, <1>4, <1>6, <1>8, <1>9, <1>10, <1>11, <2>1, <2>2 DEF CircTasks, Seen
<1> QED BY <1>12, <1>13

\* Every step of the queue, and every step of another program, is one of HandOff.
LEMMA CircNext ==
  ASSUME CircCounts, CircTasks, [CQ!Next]_cqVars
  PROVE  CircTasks' /\ [CQ!Work!Next]_CQ!Work!vars
<1>1. CASE UNCHANGED cqVars
  <2>1. CircCounts'
    BY CircNextCounts
  <2>2. UNCHANGED <<circularQueue, cSuffix, semData, step, written, val, consumed>>
    BY <1>1 DEF cqVars
  <2>3. Level' = Level /\ Advancing(Producers, step') = Advancing(Producers, step)
        /\ Advancing(Consumers, step') = Advancing(Consumers, step)
    BY <2>2 DEF Level
  <2>4. /\ Left + Advancing(Consumers, step') = Level' + Advancing(Producers, step')
        /\ \A p \in Producers : step'[p] \in {"lock", "copy"} => written[p] < MaxPushes
        /\ \A c \in Consumers : val[c] # <<>> <=> step'[c] \in {"advance", "post", "run"}
    BY <2>2, <2>3 DEF CircTasks
  <2> QED BY <2>1, <2>2, <2>3, <2>4, CircQuiet
<1>2. ASSUME NEW p \in Producers, CQ!Push(p)
      PROVE  CircTasks' /\ [CQ!Work!Next]_CQ!Work!vars
  BY <1>2, CircPushQuiet, CircWrite
<1>3. ASSUME NEW c \in Consumers, CQ!Pop(c)
      PROVE  CircTasks' /\ [CQ!Work!Next]_CQ!Work!vars
  BY <1>3, CircPopQuiet, CircRead
<1> QED BY <1>1, <1>2, <1>3, CircRun DEF CQ!Next

-----------------------------------------------------------------------------
(* ThreadPool *)

Threaded == 1 .. Size
Enqueueable == Callers \X (1 .. Tasks)

\* Stop has been called.
Joining == \E c \in Callers : caller[c] = "join"

\* Where the callers and the threads are: one caller has made the pool and no other starts
\* or stops it, a thread runs while it has a task, and it exits after Stop when nothing is
\* queued.
PoolSteps ==
  /\ maker \in SUBSET Callers /\ (\A c, d \in maker : c = d)
  /\ tpPtr \in BOOLEAN /\ (tpPtr <=> maker # {})
  /\ caller \in [Callers -> {"get", "locking", "use", "init", "start", "join"}]
  /\ \A c \in Callers : caller[c] \in {"init", "start", "join"} => c \in maker
  /\ \A c \in Callers : caller[c] = "start" => isRunning
  /\ isRunning \in BOOLEAN /\ (Joining => ~isRunning)
  /\ ~isRunning /\ ~Joining => \A w \in Threaded : worker[w] = "none"
  /\ worker \in [Threaded -> {"none", "top", "wait", "run", "exited"}]
  /\ \A w \in Threaded : task[w] # <<>> <=> worker[w] = "run"
  /\ \A w \in Threaded : worker[w] = "exited" => Joining /\ tasksQueue = <<>>
  /\ stopped \in 0 .. Size /\ (\A w \in 1 .. stopped : worker[w] = "exited")

\* Every task is in one place, and each caller has enqueued its first ones.
PoolTasks ==
  /\ enqueued \in [Callers -> 0 .. Tasks]
  /\ task \in [Threaded -> AtMostOne(Enqueueable)]
  /\ Typed(Queue, Lane(tasksQueue), Threaded, task, Enqueueable)
  /\ Once(Queue, Lane(tasksQueue), Threaded, task)
  /\ \A t \in Seen(Queue, Lane(tasksQueue), Threaded, task, executed) :
       t \in Enqueueable /\ t[2] <= enqueued[t[1]]

\* HandOff's names.
LEMMA PoolKnown ==
  /\ TP!Work!Known = Seen(Queue, Lane(tasksQueue), Threaded, task, executed)
  /\ TP!Workers = Threaded
BY DEF TP!Work!Known, TP!Work!ToSet, TP!Workers, Seen, Held, InLanes, Lane, Queue, Threaded

\* No pool, no thread and no task at first.
LEMMA PoolInit == TP!Init => PoolSteps /\ PoolTasks /\ TP!Work!Init
<1> SUFFICES ASSUME TP!Init PROVE PoolSteps /\ PoolTasks /\ TP!Work!Init
  OBVIOUS
<1>1. /\ isRunning = FALSE /\ tasksQueue = <<>> /\ enqueued = [c \in Callers |-> 0]
      /\ worker = [w \in Threaded |-> "none"] /\ task = [w \in Threaded |-> <<>>]
      /\ stopped = 0 /\ executed = {}
  BY DEF TP!Init, TP!Workers, Threaded
<1>2. \/ \E c \in Callers :
           /\ tpPtr = TRUE /\ maker = {c}
           /\ caller = [d \in Callers |-> IF d = c THEN "init" ELSE "locking"]
      \/ tpPtr = FALSE /\ maker = {} /\ caller = [c \in Callers |-> "get"]
  BY DEF TP!Init
<1>3. ~Joining
  BY <1>2 DEF Joining
<1>4. PoolSteps
  <2>1. /\ maker \in SUBSET Callers /\ (\A c, d \in maker : c = d)
        /\ tpPtr \in BOOLEAN /\ (tpPtr <=> maker # {})
        /\ caller \in [Callers -> {"get", "locking", "use", "init", "start", "join"}]
        /\ \A c \in Callers : caller[c] \in {"init", "start", "join"} => c \in maker
        /\ \A c \in Callers : caller[c] # "start"
    BY <1>2
  <2>2. stopped \in 0 .. Size /\ 1 .. stopped = {}
    BY <1>1, HandOffAssumption
  <2>3. worker \in [Threaded -> {"none", "top", "wait", "run", "exited"}]
    BY <1>1
  <2> QED BY <1>1, <1>3, <2>1, <2>2, <2>3 DEF PoolSteps
<1>5. PoolTasks
  <2>1. enqueued \in [Callers -> 0 .. Tasks]
    BY <1>1, HandOffAssumption
  <2>2. Typed(Queue, Lane(tasksQueue), Threaded, task, Enqueueable)
    BY <1>1, EmptySeq DEF Typed, Lane, AtMostOne
  <2>3. Held(task, Threaded) = {} /\ InLanes(Lane(tasksQueue), Queue) = {}
    BY <1>1 DEF Held, InLanes, Lane, Queue
  <2>4. Once(Queue, Lane(tasksQueue), Threaded, task)
    BY <1>1 DEF Once, Lane
  <2> QED BY <1>1, <2>1, <2>2, <2>3, <2>4 DEF PoolTasks, Seen, Typed
<1>6. TP!Work!Init
  <2>1. {task[w][1] : w \in {v \in TP!Workers : task[v] # <<>>}} = {}
    BY <1>1 DEF TP!Workers, Threaded
  <2>2. stopped # Size
    BY <1>1, HandOffAssumption
  <2> QED BY <1>1, <1>3, <2>1, <2>2 DEF TP!Work!Init, Joining
<1> QED BY <1>4, <1>5, <1>6

\* A caller that gets the instance, or makes and starts it.
LEMMA PoolGet ==
  ASSUME PoolSteps, NEW c \in Callers, TP!GetSingleInstance(c)
  PROVE  PoolSteps' /\ (Joining' <=> Joining)
<1> USE DEF PoolSteps
<1>1. UNCHANGED <<tasksQueue, task, executed, enqueued, stopped>>
  BY DEF TP!GetSingleInstance, TP!Found, TP!LockSingle, TP!FoundLocked, TP!New, TP!InitPool,
         TP!StartThread
<1>2. CASE TP!Found(c) \/ TP!LockSingle(c) \/ TP!FoundLocked(c)
  <2>1. PICK s \in {"use", "locking"} : caller' = [caller EXCEPT ![c] = s]
    BY <1>2 DEF TP!Found, TP!LockSingle, TP!FoundLocked
  <2>2. /\ UNCHANGED <<tpPtr, maker, isRunning, worker>>
        /\ caller[c] \notin {"init", "start", "join"}
    BY <1>2 DEF TP!Found, TP!LockSingle, TP!FoundLocked
  <2>3. /\ caller' \in [Callers -> {"get", "locking", "use", "init", "start", "join"}]
        /\ \A d \in Callers : caller'[d] \in {"init", "start", "join"} =>
             caller'[d] = caller[d]
        /\ \A d \in Callers : caller[d] \in {"init", "start", "join"} =>
             caller'[d] = caller[d]
    BY <2>1, <2>2
  <2>4. Joining' <=> Joining
    BY <2>3 DEF Joining
  <2> QED BY <1>1, <2>2, <2>3, <2>4
<1>3. CASE TP!New(c)
  <2>1. /\ caller[c] = "locking" /\ ~tpPtr /\ tpPtr' = TRUE /\ maker' = {c}
        /\ caller' = [caller EXCEPT ![c] = "init"] /\ UNCHANGED <<isRunning, worker>>
    BY <1>3 DEF TP!New
  <2>2. \A d \in Callers : caller[d] \notin {"init", "start", "join"}
    BY <2>1
  <2>3. /\ caller' \in [Callers -> {"get", "locking", "use", "init", "start", "join"}]
        /\ \A d \in Callers : caller'[d] \in {"init", "start", "join"} =>
             d = c /\ caller'[d] = "init"
    BY <2>1, <2>2
  <2>4. ~Joining /\ ~Joining'
    BY <2>2, <2>3 DEF Joining
  <2> QED BY <1>1, <2>1, <2>3, <2>4
<1>4. CASE TP!InitPool(c)
  <2>1. /\ caller[c] = "init" /\ isRunning' = TRUE
        /\ caller' = [caller EXCEPT ![c] = "start"] /\ UNCHANGED <<tpPtr, maker, worker>>
    BY <1>4 DEF TP!InitPool
  <2>2. \A d \in Callers : caller[d] \in {"init", "start", "join"} => d = c
    BY <2>1
  <2>3. /\ caller' \in [Callers -> {"get", "locking", "use", "init", "start", "join"}]
        /\ \A d \in Callers : caller'[d] \in {"init", "start", "join"} =>
             d = c /\ caller'[d] = "start"
    BY <2>1, <2>2
  <2>4. ~Joining /\ ~Joining'
    BY <2>1, <2>2, <2>3 DEF Joining
  <2> QED BY <1>1, <2>1, <2>3, <2>4
<1>5. CASE TP!StartThread(c)
  <2>1. PICK w \in TP!Workers :
          /\ worker[w] = "none" /\ worker' = [worker EXCEPT ![w] = "top"]
          /\ caller' = IF w = Size THEN [caller EXCEPT ![c] = "use"] ELSE caller
    BY <1>5 DEF TP!StartThread
  <2>2. caller[c] = "start" /\ UNCHANGED <<tpPtr, maker, isRunning>> /\ w \in Threaded
    BY <1>5, PoolKnown DEF TP!StartThread
  <2>3. /\ caller' \in [Callers -> {"get", "locking", "use", "init", "start", "join"}]
        /\ \A d \in Callers : caller'[d] \in {"init", "start", "join"} =>
             caller'[d] = caller[d]
        /\ \A d \in Callers : caller'[d] = "join" <=> caller[d] = "join"
    BY <2>1, <2>2
  <2>4. Joining' <=> Joining
    BY <2>3 DEF Joining
  <2>5. isRunning
    BY <2>2
  <2>6. /\ worker' \in [Threaded -> {"none", "top", "wait", "run", "exited"}]
        /\ worker'[w] = "top" /\ \A v \in Threaded : v # w => worker'[v] = worker[v]
    BY <2>1, <2>2
  <2>7. \A v \in 1 .. stopped : v # w /\ v \in Threaded
    BY <2>1, HandOffAssumption DEF Threaded
  <2> QED BY <1>1, <2>1, <2>2, <2>3, <2>4, <2>5, <2>6, <2>7
<1> QED BY <1>2, <1>3, <1>4, <1>5 DEF TP!GetSingleInstance

\* A step that leaves the tasks where they are.
LEMMA PoolQuiet ==
  ASSUME PoolTasks, UNCHANGED <<tasksQueue, task, executed, enqueued>>
  PROVE  PoolTasks'
BY DEF PoolTasks, Typed, Once, Seen, Held, InLanes, Lane

\* Of these steps HandOff sees nothing.
LEMMA PoolGetUnseen ==
  ASSUME PoolSteps, NEW c \in Callers, TP!GetSingleInstance(c)
  PROVE  /\ UNCHANGED <<tasksQueue, task, executed, enqueued, stopped>>
         /\ UNCHANGED TP!Work!vars
<1>1. UNCHANGED <<tasksQueue, task, executed, enqueued, stopped>>
  BY DEF TP!GetSingleInstance, TP!Found, TP!LockSingle, TP!FoundLocked, TP!New, TP!InitPool,
         TP!StartThread
<1>2. (Joining' <=> Joining)
  BY PoolGet
<1> QED BY <1>1, <1>2 DEF TP!Work!vars, Joining, TP!Workers

\* A task is accepted while the pool runs, and goes to the end of the queue.
LEMMA PoolEnqueue ==
  ASSUME PoolSteps, PoolTasks, NEW c \in Callers, TP!Enqueue(c)
  PROVE  PoolSteps' /\ PoolTasks' /\ [TP!Work!Next]_TP!Work!vars
<1>1. /\ UNCHANGED <<tpPtr, maker, isRunning, caller, worker, task, stopped, executed>>
      /\ enqueued[c] < Tasks /\ enqueued' = [enqueued EXCEPT ![c] = @ + 1]
  BY DEF TP!Enqueue
<1>2. /\ enqueued \in [Callers -> 0 .. Tasks] /\ enqueued[c] \in Nat
      /\ enqueued[c] + 1 \in 1 .. Tasks
  BY <1>1, HandOffAssumption, SMT DEF PoolTasks
<1>3. /\ enqueued' \in [Callers -> 0 .. Tasks] /\ enqueued'[c] = enqueued[c] + 1
      /\ \A d \in Callers : enqueued[d] \in Nat /\ enqueued'[d] \in Nat
                              /\ enqueued[d] <= enqueued'[d]
  BY <1>1, <1>2, HandOffAssumption
<1>4. \A t \in Enqueueable : t[2] <= enqueued[t[1]] => t[2] <= enqueued'[t[1]]
  <2>1. \A t \in Enqueueable : t[1] \in Callers /\ t[2] \in Nat
    BY DEF Enqueueable
  <2> QED BY <1>3, <2>1
<1>5. CASE ~isRunning
  <2>1. tasksQueue' = tasksQueue
    BY <1>5 DEF TP!Enqueue
  <2>2. PoolSteps'
    BY <1>1, <2>1 DEF PoolSteps, Joining
  <2>3. PoolTasks'
    BY <1>1, <1>3, <1>4, <2>1 DEF PoolTasks, Typed, Once, Seen, Held, InLanes, Lane
  <2> QED BY <1>1, <2>1, <2>2, <2>3 DEF TP!Work!vars, TP!Workers
<1>6. CASE isRunning
  <2>1. PICK x : x = <<c, enqueued[c] + 1>>
    OBVIOUS
  <2>2. tasksQueue' = Append(tasksQueue, x)
    BY <1>6, <2>1 DEF TP!Enqueue
  <2>3. x \in Enqueueable /\ x[1] = c /\ x[2] = enqueued[c] + 1
    BY <1>2, <2>1 DEF Enqueueable
  <2>4. x \notin Seen(Queue, Lane(tasksQueue), Threaded, task, executed)
    BY <1>2, <2>3 DEF PoolTasks
  <2>5. /\ Typed(Queue, Lane(Append(tasksQueue, x)), Threaded, task, Enqueueable)
        /\ Once(Queue, Lane(Append(tasksQueue, x)), Threaded, task)
        /\ \A y \in Seen(Queue, Lane(Append(tasksQueue, x)), Threaded, task, executed) :
             y \in Seen(Queue, Lane(tasksQueue), Threaded, task, executed) \/ y = x
    <3>1. /\ Typed(Queue, Lane(tasksQueue), Threaded, task, Enqueueable)
          /\ Once(Queue, Lane(tasksQueue), Threaded, task)
      BY DEF PoolTasks
    <3> x \in Enqueueable
      BY <2>3
    <3> QED BY <2>4, <3>1, QueueSubmitted, Zenon
  <2>6. ~Joining /\ ~Joining'
    BY <1>1, <1>6 DEF PoolSteps, Joining
  <2>7. PoolSteps'
    BY <1>1, <1>6, <2>6 DEF PoolSteps
  <2>8. \A t \in Seen(Queue, Lane(tasksQueue), Threaded, task, executed) :
          t \in Enqueueable /\ t[2] <= enqueued'[t[1]]
    BY <1>4 DEF PoolTasks
  <2>9. \A t \in Seen(Queue, Lane(tasksQueue'), Threaded, task, executed) :
          t \in Enqueueable /\ t[2] <= enqueued'[t[1]]
    BY <1>2, <1>3, <2>2, <2>3, <2>5, <2>8
  <2>10. PoolTasks'
    BY <1>1, <1>3, <2>2, <2>5, <2>9 DEF PoolTasks
  <2>11. TP!Work!Submit
    BY <1>1, <2>2, <2>3, <2>4, <2>6, PoolKnown
       DEF TP!Work!Submit, Enqueueable, Joining, TP!Workers
  <2> QED BY <2>7, <2>10, <2>11 DEF TP!Work!Next
<1> QED BY <1>5, <1>6 DEF PoolSteps

\* Stop closes the work.
LEMMA PoolStop ==
  ASSUME PoolSteps, PoolTasks, NEW c \in Callers, TP!Stop(c)
  PROVE  PoolSteps' /\ PoolTasks' /\ [TP!Work!Next]_TP!Work!vars
<1>1. /\ UNCHANGED <<tpPtr, maker, tasksQueue, enqueued, worker, task, stopped, executed>>
      /\ caller[c] = "use" /\ maker = {c} /\ isRunning' = FALSE
      /\ caller' = [caller EXCEPT ![c] = "join"]
  BY DEF TP!Stop
<1>2. /\ caller' \in [Callers -> {"get", "locking", "use", "init", "start", "join"}]
      /\ caller'[c] = "join" /\ \A d \in Callers : d # c => caller'[d] = caller[d]
  BY <1>1 DEF PoolSteps
<1>3. Joining'
  BY <1>2 DEF Joining
<1>4. \A d \in Callers : caller[d] \notin {"init", "start", "join"}
  BY <1>1 DEF PoolSteps
<1>5. PoolSteps'
  <2>1. /\ maker' \in SUBSET Callers /\ (\A d, e \in maker' : d = e)
        /\ tpPtr' \in BOOLEAN /\ (tpPtr' <=> maker' # {})
    BY <1>1 DEF PoolSteps
  <2>2. \A d \in Callers : caller'[d] \in {"init", "start", "join"} => d = c /\ caller'[d] # "start"
    BY <1>2, <1>4
  <2>3. isRunning' \in BOOLEAN /\ ~isRunning'
    BY <1>1
  <2>4. /\ worker' \in [Threaded -> {"none", "top", "wait", "run", "exited"}]
        /\ \A w \in Threaded : task'[w] # <<>> <=> worker'[w] = "run"
        /\ \A w \in Threaded : worker'[w] = "exited" => tasksQueue' = <<>>
        /\ stopped' \in 0 .. Size /\ (\A w \in 1 .. stopped' : worker'[w] = "exited")
    BY <1>1 DEF PoolSteps
  <2> QED BY <1>1, <1>2, <1>3, <2>1, <2>2, <2>3, <2>4 DEF PoolSteps
<1>6. TP!Work!Close
  BY <1>1, <1>3 DEF TP!Work!Close, Joining, TP!Workers
<1> QED BY <1>1, <1>5, <1>6, PoolQuiet DEF TP!Work!Next

\* Stop joins a thread; after the last one, none has a task and none is queued.
LEMMA PoolJoin ==
  ASSUME PoolSteps, PoolTasks, NEW c \in Callers, TP!Join(c)
  PROVE  PoolSteps' /\ PoolTasks' /\ [TP!Work!Next]_TP!Work!vars
<1>1. /\ UNCHANGED <<tpPtr, maker, isRunning, tasksQueue, enqueued, caller, worker, task,
                     executed>>
      /\ caller[c] = "join" /\ stopped < Size /\ worker[stopped + 1] = "exited"
      /\ stopped' = stopped + 1
  BY DEF TP!Join
<1>2. Joining /\ Joining' /\ stopped \in 0 .. Size /\ Size \in Nat /\ Size > 0
  BY <1>1, HandOffAssumption DEF Joining, PoolSteps
<1>3. stopped' \in 0 .. Size /\ \A w \in 1 .. stopped' : worker[w] = "exited"
  <2>1. \A w \in 1 .. stopped' : w \in 1 .. stopped \/ w = stopped + 1
    BY <1>1, <1>2
  <2> QED BY <1>1, <1>2, <2>1 DEF PoolSteps
<1>4. PoolSteps'
  BY <1>1, <1>2, <1>3 DEF PoolSteps
<1>5. CASE stopped' # Size
  BY <1>1, <1>2, <1>4, <1>5, PoolQuiet DEF TP!Work!vars, Joining, TP!Workers
<1>6. CASE stopped' = Size
  <2>1. \A w \in Threaded : worker[w] = "exited"
    BY <1>3, <1>6 DEF Threaded
  <2>2. 1 \in Threaded
    BY <1>2 DEF Threaded
  <2>3. tasksQueue = <<>> /\ \A w \in Threaded : task[w] = <<>>
    BY <2>1, <2>2 DEF PoolSteps
  <2>4. {task[w][1] : w \in {v \in TP!Workers : task[v] # <<>>}} = {}
    BY <2>3, PoolKnown
  <2>5. TP!Work!End
    BY <1>1, <1>2, <1>6, <2>3, <2>4 DEF TP!Work!End, Joining, TP!Workers
  <2> QED BY <1>1, <1>4, <2>5, PoolQuiet DEF TP!Work!Next
<1> QED BY <1>5, <1>6

\* A thread goes to sleep, wakes up, or exits, and leaves the tasks where they are.
LEMMA PoolIdle ==
  ASSUME PoolSteps, PoolTasks,
         TP!SpuriousWakeUp \/ \E w \in TP!Workers : TP!Sleep(w) \/ TP!Exit(w)
  PROVE  PoolSteps' /\ PoolTasks' /\ [TP!Work!Next]_TP!Work!vars
<1>1. UNCHANGED <<tpPtr, maker, isRunning, tasksQueue, caller, enqueued, task, stopped, executed>>
  BY DEF TP!SpuriousWakeUp, TP!Sleep, TP!Exit
<1>2. Joining' <=> Joining
  BY <1>1 DEF Joining
<1>3. PoolSteps'
  <2>1. CASE TP!SpuriousWakeUp
    <3>1. worker' = worker
      BY <2>1 DEF TP!SpuriousWakeUp
    <3> QED BY <1>1, <1>2, <3>1 DEF PoolSteps
  <2>2. ASSUME NEW w \in TP!Workers, TP!Sleep(w)
        PROVE  PoolSteps'
    <3>1. /\ w \in Threaded /\ worker' = [worker EXCEPT ![w] = "wait"] /\ isRunning
          /\ worker[w] \in {"top", "wait"}
      BY <2>2, PoolKnown DEF TP!Sleep, TP!Awake
    <3>2. /\ worker' \in [Threaded -> {"none", "top", "wait", "run", "exited"}]
          /\ worker'[w] = "wait" /\ \A v \in Threaded : v # w => worker'[v] = worker[v]
      BY <3>1 DEF PoolSteps
    <3>3. \A v \in 1 .. stopped : v \in Threaded /\ v # w
      BY <3>1, HandOffAssumption DEF PoolSteps, Threaded
    <3> QED BY <1>1, <1>2, <3>1, <3>2, <3>3 DEF PoolSteps
  <2>3. ASSUME NEW w \in TP!Workers, TP!Exit(w)
        PROVE  PoolSteps'
    <3>1. /\ w \in Threaded /\ worker' = [worker EXCEPT ![w] = "exited"] /\ ~isRunning
          /\ worker[w] \in {"top", "wait"} /\ tasksQueue = <<>>
      BY <2>3, PoolKnown DEF TP!Exit, TP!Awake, TP!MayExit
    <3>2. /\ worker' \in [Threaded -> {"none", "top", "wait", "run", "exited"}]
          /\ worker'[w] = "exited" /\ \A v \in Threaded : v # w => worker'[v] = worker[v]
      BY <3>1 DEF PoolSteps
    <3>3. Joining
      BY <3>1 DEF PoolSteps
    <3>4. \A v \in 1 .. stopped : v \in Threaded
      BY HandOffAssumption DEF PoolSteps, Threaded
    <3> QED BY <1>1, <1>2, <3>1, <3>2, <3>3, <3>4 DEF PoolSteps
  <2> QED BY <2>1, <2>2, <2>3
<1>4. UNCHANGED TP!Work!vars
  BY <1>1 DEF TP!Work!vars, TP!Workers
<1> QED BY <1>1, <1>3, <1>4, PoolQuiet

\* A thread takes the oldest task.
LEMMA PoolTake ==
  ASSUME PoolSteps, PoolTasks, NEW w \in Threaded, TP!TakeTask(w)
  PROVE  PoolSteps' /\ PoolTasks' /\ [TP!Work!Next]_TP!Work!vars
<1>1. /\ UNCHANGED <<tpPtr, maker, isRunning, caller, enqueued, stopped, executed>>
      /\ worker[w] \in {"top", "wait"} /\ worker' = [worker EXCEPT ![w] = "run"]
      /\ tasksQueue # <<>> /\ tasksQueue' = Tail(tasksQueue)
      /\ task' = [task EXCEPT ![w] = <<Head(tasksQueue)>>]
  BY DEF TP!TakeTask, TP!Awake
<1>2. /\ worker' \in [Threaded -> {"none", "top", "wait", "run", "exited"}]
      /\ worker'[w] = "run" /\ \A v \in Threaded : v # w => worker'[v] = worker[v]
  BY <1>1 DEF PoolSteps
<1>3. task'[w] # <<>> /\ \A v \in Threaded : v # w => task'[v] = task[v]
  BY <1>1 DEF PoolTasks
<1>4. \A v \in Threaded : worker[v] # "exited"
  BY <1>1 DEF PoolSteps
<1>5. \A v \in 1 .. stopped : v \in Threaded
  BY HandOffAssumption DEF PoolSteps, Threaded
<1>6. isRunning \/ Joining
  BY <1>1 DEF PoolSteps
<1>7. Joining' <=> Joining
  BY <1>1 DEF Joining
<1>8. PoolSteps'
  <2>1. \A v \in Threaded : worker'[v] # "exited"
    BY <1>2, <1>4
  <2>2. \A v \in 1 .. stopped : FALSE
    BY <1>4, <1>5 DEF PoolSteps
  <2> QED BY <1>1, <1>2, <1>3, <1>6, <1>7, <2>1, <2>2 DEF PoolSteps
<1>9. LET g == [task EXCEPT ![w] = <<Head(tasksQueue)>>]
      IN  /\ Typed(Queue, Lane(Tail(tasksQueue)), Threaded, g, Enqueueable)
          /\ Once(Queue, Lane(Tail(tasksQueue)), Threaded, g)
          /\ Held(g, Threaded) = Held(task, Threaded) \cup {Head(tasksQueue)}
          /\ \A y \in Seen(Queue, Lane(Tail(tasksQueue)), Threaded, g, executed) :
               y \in Seen(Queue, Lane(tasksQueue), Threaded, task, executed)
  <2>1. /\ Typed(Queue, Lane(tasksQueue), Threaded, task, Enqueueable)
        /\ Once(Queue, Lane(tasksQueue), Threaded, task)
    BY DEF PoolTasks
  <2>2. tasksQueue # <<>> /\ task[w] = <<>>
    BY <1>1 DEF PoolSteps
  <2> QED BY <2>1, <2>2, QueueTaken, Zenon
<1>10. PoolTasks'
  <2>1. task' \in [Threaded -> AtMostOne(Enqueueable)]
    BY <1>1, <1>9 DEF Typed
  <2> QED BY <1>1, <1>9, <2>1 DEF PoolTasks
<1>11. TP!Work!Take
  <2>1. Held(task', Threaded) = Held(task, Threaded) \cup {Head(tasksQueue)}
    BY <1>1, <1>9
  <2>2. /\ {task[v][1] : v \in {u \in TP!Workers : task[u] # <<>>}} = Held(task, Threaded)
        /\ {task'[v][1] : v \in {u \in TP!Workers : task'[u] # <<>>}} = Held(task', Threaded)
    BY DEF Held, TP!Workers, Threaded
  <2> QED BY <1>1, <2>1, <2>2 DEF TP!Work!Take, TP!Workers, Joining
<1> QED BY <1>8, <1>10, <1>11 DEF TP!Work!Next

\* It runs the task.
LEMMA PoolRun ==
  ASSUME PoolSteps, PoolTasks, NEW w \in Threaded, TP!RunTask(w)
  PROVE  PoolSteps' /\ PoolTasks' /\ [TP!Work!Next]_TP!Work!vars
<1>1. /\ UNCHANGED <<tpPtr, maker, isRunning, tasksQueue, caller, enqueued, stopped>>
      /\ worker[w] = "run" /\ worker' = [worker EXCEPT ![w] = "top"]
      /\ task' = [task EXCEPT ![w] = <<>>] /\ executed' = executed \cup {task[w][1]}
  BY DEF TP!RunTask
<1>2. /\ worker' \in [Threaded -> {"none", "top", "wait", "run", "exited"}]
      /\ worker'[w] = "top" /\ \A v \in Threaded : v # w => worker'[v] = worker[v]
  BY <1>1 DEF PoolSteps
<1>3. task'[w] = <<>> /\ \A v \in Threaded : v # w => task'[v] = task[v]
  BY <1>1 DEF PoolTasks
<1>4. \A v \in 1 .. stopped : v \in Threaded /\ v # w
  BY <1>1, HandOffAssumption DEF PoolSteps, Threaded
<1>5. isRunning \/ Joining
  BY <1>1 DEF PoolSteps
<1>6. Joining' <=> Joining
  BY <1>1 DEF Joining
<1>7. PoolSteps'
  BY <1>1, <1>2, <1>3, <1>4, <1>5, <1>6 DEF PoolSteps
<1>8. task[w] # <<>>
  BY <1>1 DEF PoolSteps
<1>9. LET g == [task EXCEPT ![w] = <<>>]
      IN  /\ Typed(Queue, Lane(tasksQueue), Threaded, g, Enqueueable)
          /\ Once(Queue, Lane(tasksQueue), Threaded, g)
          /\ task[w][1] \in Held(task, Threaded)
          /\ \A y : y \in Held(g, Threaded) <=>
                    y \in Held(task, Threaded) /\ y # task[w][1]
  <2>1. /\ Typed(Queue, Lane(tasksQueue), Threaded, task, Enqueueable)
        /\ Once(Queue, Lane(tasksQueue), Threaded, task)
    BY DEF PoolTasks
  <2> QED BY <1>8, <2>1, Done, Zenon
<1>10. PoolTasks'
  <2>1. task' \in [Threaded -> AtMostOne(Enqueueable)]
    BY <1>1, <1>9 DEF Typed
  <2> QED BY <1>1, <1>9, <2>1 DEF PoolTasks, Seen
<1>11. TP!Work!Complete
  <2>1. /\ \A y : y \in Held(task', Threaded) <=>
                  y \in Held(task, Threaded) /\ y # task[w][1]
        /\ task[w][1] \in Held(task, Threaded)
    BY <1>1, <1>9
  <2>2. /\ {task[v][1] : v \in {u \in TP!Workers : task[u] # <<>>}} = Held(task, Threaded)
        /\ {task'[v][1] : v \in {u \in TP!Workers : task'[u] # <<>>}} = Held(task', Threaded)
    BY DEF Held, TP!Workers, Threaded
  <2>3. Held(task', Threaded) = Held(task, Threaded) \ {task[w][1]}
    BY <2>1
  <2> QED BY <1>1, <2>1, <2>2, <2>3 DEF TP!Work!Complete, TP!Workers, Joining
<1> QED BY <1>7, <1>10, <1>11 DEF TP!Work!Next

\* Every step of the pool, and every step of another program, is one of HandOff.
LEMMA PoolNext ==
  ASSUME PoolSteps, PoolTasks, [TP!Next]_tpVars
  PROVE  PoolSteps' /\ PoolTasks' /\ [TP!Work!Next]_TP!Work!vars
<1>1. CASE UNCHANGED tpVars
  <2>1. UNCHANGED <<tpPtr, maker, isRunning, tasksQueue, caller, enqueued, worker, task,
                    stopped, executed>>
    BY <1>1 DEF tpVars
  <2>2. Joining' <=> Joining
    BY <2>1 DEF Joining
  <2>3. PoolSteps'
    BY <2>1, <2>2 DEF PoolSteps
  <2>4. UNCHANGED TP!Work!vars
    BY <2>1 DEF TP!Work!vars, TP!Workers
  <2> QED BY <2>1, <2>3, <2>4, PoolQuiet
<1>2. ASSUME NEW c \in Callers, TP!CallerStep(c)
      PROVE  PoolSteps' /\ PoolTasks' /\ [TP!Work!Next]_TP!Work!vars
  <2>1. CASE TP!GetSingleInstance(c)
    BY <2>1, PoolGet, PoolGetUnseen, PoolQuiet
  <2> QED BY <1>2, <2>1, PoolEnqueue, PoolStop, PoolJoin DEF TP!CallerStep
<1>3. ASSUME NEW w \in TP!Workers, TP!HandlerTask(w)
      PROVE  PoolSteps' /\ PoolTasks' /\ [TP!Work!Next]_TP!Work!vars
  <2>1. w \in Threaded
    BY PoolKnown
  <2> QED BY <1>3, <2>1, PoolIdle, PoolTake, PoolRun DEF TP!HandlerTask
<1> QED BY <1>1, <1>2, <1>3, PoolIdle DEF TP!Next

-----------------------------------------------------------------------------
(* ProcessPool *)

Piped == 1 .. Children
Numbers == 1 .. MaxAllocs

\* Where the processes are: the parent holds the write ends of the pipes until it closes
\* them, a child executes while it has a task number, and it exits when its pipe is empty
\* and nobody can write to it any more.
ProcSteps ==
  /\ times \in Times /\ channel \in Piped /\ index \in Piped
  /\ parent \in {"create", "alloc", "close", "wait", "quit", "dead"}
  /\ writers \in [Piped -> SUBSET (0 .. Children)]
  /\ child \in [Piped -> {"none", "forked", "read", "excute", "exited"}]
  /\ \A c \in Piped : taskid[c] # <<>> <=> child[c] = "excute"
  /\ parent = "create" =>
       \A c \in Piped : (c < channel => 0 \in writers[c]) /\ (c >= channel => child[c] = "none")
  /\ parent = "alloc" => \A c \in Piped : 0 \in writers[c]
  /\ parent = "wait" => \A c \in Piped : c < channel => child[c] = "exited"
  /\ parent = "quit" => \A c \in Piped : child[c] = "exited"
  /\ \A c \in Piped : child[c] = "exited" =>
       parent \notin {"create", "alloc"} /\ pipes[c] = <<>>

\* Every number is in one place, and the first ones have been written.
ProcTasks ==
  /\ allocated \in 0 .. MaxAllocs
  /\ pipes \in [Piped -> Seq(Numbers)] /\ taskid \in [Piped -> AtMostOne(Numbers)]
  /\ Typed(Piped, pipes, Piped, taskid, Numbers)
  /\ Once(Piped, pipes, Piped, taskid)
  /\ \A t \in Seen(Piped, pipes, Piped, taskid, finished) : t \in Numbers /\ t <= allocated

\* HandOff's names.
LEMMA ProcKnown ==
  /\ PP!Work!Known = Seen(Piped, pipes, Piped, taskid, finished)
  /\ PP!Channels = Piped /\ PP!Parent = 0
BY DEF PP!Work!Known, PP!Work!ToSet, PP!Channels, PP!Parent, Seen, Held, InLanes, Piped

\* Neither children nor numbers at first.
LEMMA ProcInit == PP!Init => ProcSteps /\ ProcTasks /\ PP!Work!Init
<1> SUFFICES ASSUME PP!Init PROVE ProcSteps /\ ProcTasks /\ PP!Work!Init
  OBVIOUS
<1>1. /\ times \in Times /\ parent = "create" /\ channel = 1 /\ index = 1 /\ allocated = 0
      /\ pipes = [c \in Piped |-> <<>>] /\ writers = [c \in Piped |-> {}]
      /\ child = [c \in Piped |-> "none"] /\ taskid = [c \in Piped |-> <<>>]
      /\ finished = {}
  BY DEF PP!Init, PP!Channels, Piped
<1>2. 1 \in Piped /\ \A c \in Piped : ~(c < 1)
  BY HandOffAssumption DEF Piped
<1>3. ProcSteps
  <2>1. /\ writers \in [Piped -> SUBSET (0 .. Children)]
        /\ child \in [Piped -> {"none", "forked", "read", "excute", "exited"}]
    BY <1>1
  <2>2. \A c \in Piped : child[c] = "none" /\ taskid[c] = <<>>
    BY <1>1
  <2> QED BY <1>1, <1>2, <2>1, <2>2 DEF ProcSteps
<1>4. ProcTasks
  <2>1. /\ pipes \in [Piped -> Seq(Numbers)] /\ taskid \in [Piped -> AtMostOne(Numbers)]
        /\ Typed(Piped, pipes, Piped, taskid, Numbers)
    BY <1>1, EmptySeq DEF Typed, AtMostOne
  <2>2. Held(taskid, Piped) = {} /\ InLanes(pipes, Piped) = {}
    BY <1>1 DEF Held, InLanes
  <2>3. Once(Piped, pipes, Piped, taskid)
    BY <1>1 DEF Once
  <2>4. allocated \in 0 .. MaxAllocs
    BY <1>1, HandOffAssumption
  <2> QED BY <1>1, <2>1, <2>2, <2>3, <2>4 DEF ProcTasks, Seen
<1>5. PP!Work!Init
  <2>1. {taskid[c][1] : c \in {d \in PP!Channels : taskid[d] # <<>>}} = {}
    BY <1>1 DEF PP!Channels, Piped
  <2> QED BY <1>1, <2>1 DEF PP!Work!Init, PP!Channels, Piped
<1> QED BY <1>3, <1>4, <1>5

\* A step that leaves the numbers where they are.
LEMMA ProcQuiet ==
  ASSUME ProcTasks, UNCHANGED <<allocated, pipes, taskid, finished>>
  PROVE  ProcTasks'
BY DEF ProcTasks, Typed, Once, Seen, Held, InLanes

\* pipe() and fork(): HandOff sees nothing of it.
LEMMA ProcCreate ==
  ASSUME ProcSteps, ProcTasks, PP!CreateChannel
  PROVE  ProcSteps' /\ ProcTasks' /\ [PP!Work!Next]_PP!Work!vars
<1>1. /\ UNCHANGED <<times, index, allocated, pipes, taskid, finished>>
      /\ parent = "create" /\ child' = [child EXCEPT ![channel] = "forked"]
      /\ writers' = [c \in Piped |->
                       IF c < channel THEN writers[c] \cup {channel}
                       ELSE IF c = channel THEN {0, channel} ELSE {}]
      /\ IF channel = Children THEN parent' = "alloc" /\ channel' = 1
         ELSE channel' = channel + 1 /\ UNCHANGED parent
  BY ProcKnown DEF PP!CreateChannel
<1>2. /\ channel \in Piped /\ channel \in Nat /\ Children \in Nat /\ 1 \in Piped
      /\ \A c \in Piped : c \in Nat
      /\ (channel # Children => channel + 1 \in Piped)
      /\ channel \in 0 .. Children /\ 0 \in 0 .. Children
  BY HandOffAssumption DEF ProcSteps, Piped
<1>3. \A c \in Piped : child[c] # "exited"
  BY <1>1 DEF ProcSteps
<1>4. /\ child' \in [Piped -> {"none", "forked", "read", "excute", "exited"}]
      /\ child'[channel] = "forked" /\ \A c \in Piped : c # channel => child'[c] = child[c]
  BY <1>1, <1>2 DEF ProcSteps
<1>5. writers' \in [Piped -> SUBSET (0 .. Children)]
  BY <1>1, <1>2 DEF ProcSteps
<1>6. \A c \in Piped : c <= channel => 0 \in writers'[c]
  BY <1>1, <1>2 DEF ProcSteps
<1>7. \A c \in Piped : taskid[c] # <<>> <=> child'[c] = "excute"
  <2>1. child[channel] = "none"
    BY <1>1, <1>2 DEF ProcSteps
  <2> QED BY <1>4, <2>1 DEF ProcSteps
<1>8. \A c \in Piped : c > channel => child'[c] = "none"
  BY <1>1, <1>2, <1>4 DEF ProcSteps
<1>9. \A c \in Piped : child'[c] # "exited"
  BY <1>3, <1>4
<1>10. ProcSteps'
  <2>1. CASE channel = Children
    <3>1. \A c \in Piped : c <= channel
      BY <1>2, <2>1 DEF Piped
    <3>2. parent' = "alloc" /\ channel' = 1
      BY <1>1, <2>1
    <3> QED BY <1>1, <1>2, <1>4, <1>5, <1>6, <1>7, <1>9, <3>1, <3>2 DEF ProcSteps
  <2>2. CASE channel # Children
    <3>1. parent' = "create" /\ channel' = channel + 1
      BY <1>1, <2>2
    <3>2. \A c \in Piped : /\ c < channel' => c <= channel
                           /\ c >= channel' => c > channel
      BY <1>2, <3>1
    <3> QED BY <1>1, <1>2, <1>4, <1>5, <1>6, <1>7, <1>8, <1>9, <2>2, <3>1, <3>2 DEF ProcSteps
  <2> QED BY <2>1, <2>2
<1>11. UNCHANGED PP!Work!vars
  BY <1>1 DEF PP!Work!vars, PP!Channels
<1> QED BY <1>1, <1>10, <1>11, ProcQuiet

\* The parent writes the next number.
LEMMA ProcAlloc ==
  ASSUME ProcSteps, ProcTasks, PP!AllocTaskOnce
  PROVE  ProcSteps' /\ ProcTasks' /\ [PP!Work!Next]_PP!Work!vars
<1>1. /\ UNCHANGED <<times, parent, channel, writers, child, taskid, finished>>
      /\ parent = "alloc" /\ allocated' = allocated + 1 /\ index' = PP!NextIndex
      /\ allocated < IF times = 0 THEN MaxAllocs ELSE times
      /\ pipes' = [pipes EXCEPT ![index] = Append(@, allocated + 1)]
  BY DEF PP!AllocTaskOnce
<1>2. index \in Piped /\ index' \in Piped
  <2>1. index \in Piped
    BY DEF ProcSteps
  <2> QED BY <1>1, <2>1, HandOffAssumption DEF PP!NextIndex, Piped
<1>3. times \in 0 .. MaxAllocs /\ MaxAllocs \in Nat /\ allocated \in 0 .. MaxAllocs
  BY HandOffAssumption DEF ProcSteps, ProcTasks
<1>4. PICK x : x = allocated + 1
  OBVIOUS
<1>5. x \in Numbers /\ x = allocated + 1 /\ allocated' \in 0 .. MaxAllocs
  BY <1>1, <1>3, <1>4 DEF Numbers
<1>6. x \notin Seen(Piped, pipes, Piped, taskid, finished)
  BY <1>3, <1>5 DEF ProcTasks
<1>7. LET r == [pipes EXCEPT ![index] = Append(@, x)]
      IN  /\ Typed(Piped, r, Piped, taskid, Numbers) /\ Once(Piped, r, Piped, taskid)
          /\ \A y \in Seen(Piped, r, Piped, taskid, finished) :
               y \in Seen(Piped, pipes, Piped, taskid, finished) \/ y = x
  <2>1. Typed(Piped, pipes, Piped, taskid, Numbers) /\ Once(Piped, pipes, Piped, taskid)
    BY DEF ProcTasks
  <2> x \in Numbers /\ index \in Piped
    BY <1>2, <1>5
  <2> QED BY <1>6, <2>1, Submitted, Zenon
<1>8. pipes' = [pipes EXCEPT ![index] = Append(@, x)]
  BY <1>1, <1>5
<1>9. ProcTasks'
  <2>1. /\ Typed(Piped, pipes', Piped, taskid, Numbers) /\ Once(Piped, pipes', Piped, taskid)
        /\ \A y \in Seen(Piped, pipes', Piped, taskid, finished) :
             y \in Seen(Piped, pipes, Piped, taskid, finished) \/ y = x
    BY <1>7, <1>8
  <2>2. \A t \in Seen(Piped, pipes, Piped, taskid, finished) : t \in Numbers /\ t <= allocated
    BY DEF ProcTasks
  <2>3. \A t \in Seen(Piped, pipes', Piped, taskid, finished) : t \in Numbers /\ t <= allocated'
    <3>1. \A t \in Numbers : t <= allocated => t <= allocated'
      BY <1>1, <1>3 DEF Numbers
    <3>2. x \in Numbers /\ x <= allocated'
      BY <1>1, <1>3, <1>5
    <3> QED BY <2>1, <2>2, <3>1, <3>2, Zenon
  <2>4. pipes' \in [Piped -> Seq(Numbers)]
    BY <2>1 DEF Typed
  <2> QED BY <1>1, <1>5, <2>1, <2>3, <2>4 DEF ProcTasks
<1>10. ProcSteps'
  <2>1. \A c \in Piped : child[c] # "exited"
    BY <1>1 DEF ProcSteps
  <2> QED BY <1>1, <1>2, <2>1 DEF ProcSteps
<1>11. PP!Work!Submit
  BY <1>1, <1>2, <1>5, <1>6, <1>8, ProcKnown, ZenonT(60) DEF PP!Work!Submit, Numbers
<1> QED BY <1>9, <1>10, <1>11 DEF PP!Work!Next

\* AllocTask returns, or the parent is killed: the work is closed.
LEMMA ProcClose ==
  ASSUME ProcSteps, ProcTasks, PP!AllocTaskReturns \/ PP!ParentDies
  PROVE  ProcSteps' /\ ProcTasks' /\ [PP!Work!Next]_PP!Work!vars
<1>1. /\ UNCHANGED <<times, channel, index, allocated, pipes, child, taskid, finished>>
      /\ parent # "quit" /\ parent' \in {"close", "dead"}
  BY DEF PP!AllocTaskReturns, PP!ParentDies
<1>2. writers' \in [Piped -> SUBSET (0 .. Children)]
  <2>1. CASE PP!AllocTaskReturns
    BY <2>1 DEF PP!AllocTaskReturns, ProcSteps
  <2>2. CASE PP!ParentDies
    <3>1. writers' = [c \in Piped |-> writers[c] \ {0}]
      BY <2>2, ProcKnown DEF PP!ParentDies
    <3> QED BY <3>1 DEF ProcSteps
  <2> QED BY <2>1, <2>2
<1>3. ProcSteps'
  BY <1>1, <1>2 DEF ProcSteps
<1>4. PP!Work!Close
  BY <1>1 DEF PP!Work!Close, PP!Channels
<1> QED BY <1>1, <1>3, <1>4, ProcQuiet DEF PP!Work!Next

\* CompleteAndQuit closes the pipes, of which HandOff sees nothing.
LEMMA ProcCloseWfd ==
  ASSUME ProcSteps, ProcTasks, PP!CloseWfd
  PROVE  ProcSteps' /\ ProcTasks' /\ [PP!Work!Next]_PP!Work!vars
<1>1. /\ UNCHANGED <<times, index, allocated, pipes, child, taskid, finished>>
      /\ parent = "close" /\ writers' = [writers EXCEPT ![channel] = @ \ {0}]
      /\ IF channel = Children THEN parent' = "wait" /\ channel' = 1
         ELSE channel' = channel + 1 /\ UNCHANGED parent
  BY ProcKnown DEF PP!CloseWfd
<1>2. /\ channel \in Piped /\ Children \in Nat /\ 1 \in Piped
      /\ (channel # Children => channel + 1 \in Piped) /\ \A c \in Piped : ~(c < 1)
  BY HandOffAssumption DEF ProcSteps, Piped
<1>3. channel' \in Piped /\ parent' \in {"close", "wait"}
      /\ (parent' = "wait" => channel' = 1)
  BY <1>1, <1>2
<1>4. writers' \in [Piped -> SUBSET (0 .. Children)]
  BY <1>1, <1>2 DEF ProcSteps
<1>5. ProcSteps'
  BY <1>1, <1>2, <1>3, <1>4 DEF ProcSteps
<1>6. UNCHANGED PP!Work!vars
  BY <1>1, <1>3 DEF PP!Work!vars, PP!Channels
<1> QED BY <1>1, <1>5, <1>6, ProcQuiet

\* It waits for the children; after the last one nothing is left.
LEMMA ProcWait ==
  ASSUME ProcSteps, ProcTasks, PP!WaitChild
  PROVE  ProcSteps' /\ ProcTasks' /\ [PP!Work!Next]_PP!Work!vars
<1>1. /\ UNCHANGED <<times, index, allocated, pipes, writers, child, taskid, finished>>
      /\ parent = "wait" /\ child[channel] = "exited"
      /\ IF channel = Children THEN parent' = "quit" /\ UNCHANGED channel
         ELSE channel' = channel + 1 /\ UNCHANGED parent
  BY DEF PP!WaitChild
<1>2. /\ channel \in Piped /\ Children \in Nat /\ (channel # Children => channel + 1 \in Piped)
      /\ \A c \in Piped : c \in Nat
  BY HandOffAssumption DEF ProcSteps, Piped
<1>3. \A c \in Piped : c <= channel => child[c] = "exited"
  BY <1>1, <1>2 DEF ProcSteps
<1>4. CASE channel # Children
  <2>1. channel' = channel + 1 /\ parent' = "wait"
    BY <1>1, <1>4
  <2>2. \A c \in Piped : c < channel' => c <= channel
    BY <1>2, <2>1
  <2>3. ProcSteps'
    BY <1>1, <1>2, <1>3, <1>4, <2>1, <2>2 DEF ProcSteps
  <2>4. UNCHANGED PP!Work!vars
    BY <1>1, <2>1 DEF PP!Work!vars, PP!Channels
  <2> QED BY <1>1, <2>3, <2>4, ProcQuiet
<1>5. CASE channel = Children
  <2>1. \A c \in Piped : c <= channel
    BY <1>2, <1>5 DEF Piped
  <2>2. \A c \in Piped : child[c] = "exited"
    BY <1>3, <2>1
  <2>3. \A c \in Piped : pipes[c] = <<>> /\ taskid[c] = <<>>
    BY <2>2 DEF ProcSteps
  <2>4. parent' = "quit" /\ channel' = channel
    BY <1>1, <1>5
  <2>5. ProcSteps'
    BY <1>1, <2>2, <2>4 DEF ProcSteps
  <2>6. {taskid[c][1] : c \in {d \in PP!Channels : taskid[d] # <<>>}} = {}
    BY <2>3, ProcKnown
  <2>7. PP!Work!End
    BY <1>1, <2>3, <2>4, <2>6, ProcKnown DEF PP!Work!End
  <2> QED BY <1>1, <2>5, <2>7, ProcQuiet DEF PP!Work!Next
<1> QED BY <1>4, <1>5

\* A child closes its own write end, or exits at the end of its pipe.
LEMMA ProcIdle ==
  ASSUME ProcSteps, ProcTasks, NEW c \in Piped, PP!CloseInChild(c) \/ PP!ExitAtEnd(c)
  PROVE  ProcSteps' /\ ProcTasks' /\ [PP!Work!Next]_PP!Work!vars
<1>1. UNCHANGED <<times, parent, channel, index, allocated, pipes, taskid, finished>>
  BY DEF PP!CloseInChild, PP!ExitAtEnd
<1>2. c # 0 /\ \A d \in Piped : d # 0
  BY HandOffAssumption DEF Piped
<1>3. ASSUME PP!CloseInChild(c) PROVE ProcSteps'
  <2>1. /\ child[c] = "forked" /\ child' = [child EXCEPT ![c] = "read"]
        /\ writers' = [writers EXCEPT ![c] = @ \ {c}]
    BY <1>3 DEF PP!CloseInChild
  <2>2. /\ child' \in [Piped -> {"none", "forked", "read", "excute", "exited"}]
        /\ child'[c] = "read" /\ \A d \in Piped : d # c => child'[d] = child[d]
    BY <2>1 DEF ProcSteps
  <2>3. /\ writers' \in [Piped -> SUBSET (0 .. Children)]
        /\ \A d \in Piped : 0 \in writers[d] => 0 \in writers'[d]
    BY <1>2, <2>1 DEF ProcSteps
  <2> QED BY <1>1, <2>1, <2>2, <2>3 DEF ProcSteps
<1>4. ASSUME PP!ExitAtEnd(c) PROVE ProcSteps'
  <2>1. /\ child[c] = "read" /\ child' = [child EXCEPT ![c] = "exited"]
        /\ writers' = [d \in Piped |-> writers[d] \ {c}]
        /\ pipes[c] = <<>> /\ writers[c] = {}
    BY <1>4, ProcKnown DEF PP!ExitAtEnd
  <2>2. /\ child' \in [Piped -> {"none", "forked", "read", "excute", "exited"}]
        /\ child'[c] = "exited" /\ \A d \in Piped : d # c => child'[d] = child[d]
    BY <2>1 DEF ProcSteps
  <2>3. /\ writers' \in [Piped -> SUBSET (0 .. Children)]
        /\ \A d \in Piped : 0 \in writers[d] => 0 \in writers'[d]
    BY <1>2, <2>1 DEF ProcSteps
  <2>4. parent \notin {"create", "alloc"}
    <3>1. channel \in Nat /\ c \in Nat
      BY DEF ProcSteps, Piped
    <3>2. c < channel \/ c >= channel
      BY <3>1
    <3> QED BY <2>1, <3>2 DEF ProcSteps
  <2> QED BY <1>1, <2>1, <2>2, <2>3, <2>4 DEF ProcSteps
<1>5. UNCHANGED PP!Work!vars
  BY <1>1 DEF PP!Work!vars, PP!Channels
<1> QED BY <1>1, <1>3, <1>4, <1>5, ProcQuiet

\* A child reads the oldest number of its pipe.
LEMMA ProcRead ==
  ASSUME ProcSteps, ProcTasks, NEW c \in Piped, PP!ReadTask(c)
  PROVE  ProcSteps' /\ ProcTasks' /\ [PP!Work!Next]_PP!Work!vars
<1>1. /\ UNCHANGED <<times, parent, channel, index, allocated, writers, finished>>
      /\ child[c] = "read" /\ child' = [child EXCEPT ![c] = "excute"]
      /\ pipes[c] # <<>> /\ pipes' = [pipes EXCEPT ![c] = Tail(@)]
      /\ taskid' = [taskid EXCEPT ![c] = <<Head(pipes[c])>>]
  BY DEF PP!ReadTask
<1>2. LET r == [pipes EXCEPT ![c] = Tail(@)]
          g == [taskid EXCEPT ![c] = <<Head(pipes[c])>>]
      IN  /\ Typed(Piped, r, Piped, g, Numbers) /\ Once(Piped, r, Piped, g)
          /\ Held(g, Piped) = Held(taskid, Piped) \cup {Head(pipes[c])}
          /\ \A y \in Seen(Piped, r, Piped, g, finished) :
               y \in Seen(Piped, pipes, Piped, taskid, finished)
  <2>1. Typed(Piped, pipes, Piped, taskid, Numbers) /\ Once(Piped, pipes, Piped, taskid)
    BY DEF ProcTasks
  <2>2. pipes[c] # <<>> /\ taskid[c] = <<>>
    BY <1>1 DEF ProcSteps
  <2> QED BY <2>1, <2>2, Taken, Zenon
<1>3. ProcTasks'
  <2>1. pipes' \in [Piped -> Seq(Numbers)] /\ taskid' \in [Piped -> AtMostOne(Numbers)]
    BY <1>1, <1>2 DEF Typed
  <2> QED BY <1>1, <1>2, <2>1 DEF ProcTasks
<1>4. ProcSteps'
  <2>1. /\ child' \in [Piped -> {"none", "forked", "read", "excute", "exited"}]
        /\ child'[c] = "excute" /\ \A d \in Piped : d # c => child'[d] = child[d]
    BY <1>1 DEF ProcSteps
  <2>2. taskid'[c] # <<>> /\ \A d \in Piped : d # c => taskid'[d] = taskid[d]
    BY <1>1 DEF ProcTasks
  <2>3. \A d \in Piped : d # c => pipes'[d] = pipes[d]
    BY <1>1 DEF ProcTasks
  <2> QED BY <1>1, <2>1, <2>2, <2>3 DEF ProcSteps
<1>5. PP!Work!Take
  <2>1. Held(taskid', Piped) = Held(taskid, Piped) \cup {Head(pipes[c])}
    BY <1>1, <1>2
  <2>2. /\ {taskid[d][1] : d \in {e \in PP!Channels : taskid[e] # <<>>}} = Held(taskid, Piped)
        /\ {taskid'[d][1] : d \in {e \in PP!Channels : taskid'[e] # <<>>}}
             = Held(taskid', Piped)
    BY DEF Held, PP!Channels, Piped
  <2>3. c \in PP!Channels
    BY ProcKnown
  <2> QED BY <1>1, <2>1, <2>2, <2>3 DEF PP!Work!Take
<1> QED BY <1>3, <1>4, <1>5 DEF PP!Work!Next

\* It executes the task.
LEMMA ProcExcute ==
  ASSUME ProcSteps, ProcTasks, NEW c \in Piped, PP!ExcuteTask(c)
  PROVE  ProcSteps' /\ ProcTasks' /\ [PP!Work!Next]_PP!Work!vars
<1>1. /\ UNCHANGED <<times, parent, channel, index, allocated, pipes, writers>>
      /\ child[c] = "excute" /\ child' = [child EXCEPT ![c] = "read"]
      /\ taskid' = [taskid EXCEPT ![c] = <<>>] /\ finished' = finished \cup {taskid[c][1]}
  BY DEF PP!ExcuteTask
<1>2. taskid[c] # <<>>
  BY <1>1 DEF ProcSteps
<1>3. LET g == [taskid EXCEPT ![c] = <<>>]
      IN  /\ Typed(Piped, pipes, Piped, g, Numbers) /\ Once(Piped, pipes, Piped, g)
          /\ taskid[c][1] \in Held(taskid, Piped)
          /\ \A y : y \in Held(g, Piped) <=> y \in Held(taskid, Piped) /\ y # taskid[c][1]
  <2>1. Typed(Piped, pipes, Piped, taskid, Numbers) /\ Once(Piped, pipes, Piped, taskid)
    BY DEF ProcTasks
  <2> QED BY <1>2, <2>1, Done, Zenon
<1>4. ProcTasks'
  <2>1. taskid' \in [Piped -> AtMostOne(Numbers)]
    BY <1>1, <1>3 DEF Typed
  <2> QED BY <1>1, <1>3, <2>1 DEF ProcTasks, Seen
<1>5. ProcSteps'
  <2>1. /\ child' \in [Piped -> {"none", "forked", "read", "excute", "exited"}]
        /\ child'[c] = "read" /\ \A d \in Piped : d # c => child'[d] = child[d]
    BY <1>1 DEF ProcSteps
  <2>2. taskid'[c] = <<>> /\ \A d \in Piped : d # c => taskid'[d] = taskid[d]
    BY <1>1 DEF ProcTasks
  <2> QED BY <1>1, <2>1, <2>2 DEF ProcSteps
<1>6. PP!Work!Complete
  <2>1. /\ \A y : y \in Held(taskid', Piped) <=>
                  y \in Held(taskid, Piped) /\ y # taskid[c][1]
        /\ taskid[c][1] \in Held(taskid, Piped)
    BY <1>1, <1>3
  <2>2. /\ {taskid[d][1] : d \in {e \in PP!Channels : taskid[e] # <<>>}} = Held(taskid, Piped)
        /\ {taskid'[d][1] : d \in {e \in PP!Channels : taskid'[e] # <<>>}}
             = Held(taskid', Piped)
    BY DEF Held, PP!Channels, Piped
  <2>3. Held(taskid', Piped) = Held(taskid, Piped) \ {taskid[c][1]}
    BY <2>1
  <2> QED BY <1>1, <2>1, <2>2, <2>3 DEF PP!Work!Complete
<1> QED BY <1>4, <1>5, <1>6 DEF PP!Work!Next

\* Every step of the pool, and every step of another program, is one of HandOff.
LEMMA ProcNext ==
  ASSUME ProcSteps, ProcTasks, [PP!Next]_ppVars
  PROVE  ProcSteps' /\ ProcTasks' /\ [PP!Work!Next]_PP!Work!vars
<1>1. CASE UNCHANGED ppVars
  <2>1. UNCHANGED <<times, parent, channel, index, allocated, pipes, writers, child, taskid,
                    finished>>
    BY <1>1 DEF ppVars
  <2>2. ProcSteps'
    BY <2>1 DEF ProcSteps
  <2>3. UNCHANGED PP!Work!vars
    BY <2>1 DEF PP!Work!vars, PP!Channels
  <2> QED BY <2>1, <2>2, <2>3, ProcQuiet
<1>2. ASSUME NEW c \in PP!Channels, PP!ChildStep(c)
      PROVE  ProcSteps' /\ ProcTasks' /\ [PP!Work!Next]_PP!Work!vars
  <2>1. c \in Piped
    BY ProcKnown
  <2> QED BY <1>2, <2>1, ProcIdle, ProcRead, ProcExcute DEF PP!ChildStep
<1> QED BY <1>1, <1>2, ProcCreate, ProcAlloc, ProcClose, ProcCloseWfd, ProcWait
        DEF PP!Next, PP!ParentStep

-----------------------------------------------------------------------------
(* The programs, one after the other *)

\* A step is one of the program that runs, and leaves the others alone.
LEMMA OneRuns ==
  ASSUME [MCNext]_mcVars
  PROVE  [BQ!Next]_bqVars /\ [CQ!Next]_cqVars /\ [TP!Next]_tpVars /\ [PP!Next]_ppVars
BY DEF MCNext, mcVars

\* A producer and a consumer of a CircularQueue are never in one slot, whatever the numbers
\* of threads, tasks and slots: the two semaphores alone keep them apart (Push and Pop).
THEOREM SlotsStayApart == MCSpec => []SlotsApart
<1>1. MCInit => CircCounts
  BY CircCountsInit DEF MCInit
<1>2. CircCounts /\ [MCNext]_mcVars => CircCounts'
  BY OneRuns, CircNextCounts
<1>3. CircCounts => SlotsApart
  BY CountsKeepApart DEF SlotsApart
<1> QED BY <1>1, <1>2, <1>3, PTL DEF MCSpec

\* Of all queues and pools: what is known of their steps, and of where their tasks are.
HandOffInv ==
  /\ BlockInv
  /\ CircCounts /\ CircTasks
  /\ PoolSteps /\ PoolTasks
  /\ ProcSteps /\ ProcTasks

\* What each of them promises, step by step.
HandOffInits == BQ!Work!Init /\ CQ!Work!Init /\ TP!Work!Init /\ PP!Work!Init
HandOffSteps ==
  /\ [BQ!Work!Next]_BQ!Work!vars /\ [CQ!Work!Next]_CQ!Work!vars
  /\ [TP!Work!Next]_TP!Work!vars /\ [PP!Work!Next]_PP!Work!vars

\* BlockQueue, CircularQueue, ThreadPool and ProcessPool keep the promise of HandOff,
\* whatever the numbers of threads, children, tasks and slots: each task that is handed
\* over (Push, Enqueue, the parent's write) is taken by one worker, in the order of its
\* queue or pipe, and done once; and Stop and CompleteAndQuit come to their end when no task
\* is left.
THEOREM QueuesAndPoolsHandOver == MCSpec => ImplementHandOff
<1>1. MCInit => HandOffInv /\ HandOffInits
  BY BlockInit, CircCountsInit, CircTasksInit, PoolInit, ProcInit
  DEF MCInit, HandOffInv, HandOffInits
<1>2. HandOffInv /\ [MCNext]_mcVars => HandOffInv' /\ HandOffSteps
  <2> SUFFICES ASSUME HandOffInv, [MCNext]_mcVars PROVE HandOffInv' /\ HandOffSteps
    OBVIOUS
  <2>1. [BQ!Next]_bqVars /\ [CQ!Next]_cqVars /\ [TP!Next]_tpVars /\ [PP!Next]_ppVars
    BY OneRuns
  <2>2. BlockInv' /\ [BQ!Work!Next]_BQ!Work!vars
    BY <2>1, BlockNext DEF HandOffInv
  <2>3. CircCounts' /\ CircTasks' /\ [CQ!Work!Next]_CQ!Work!vars
    BY <2>1, CircNextCounts, CircNext DEF HandOffInv
  <2>4. PoolSteps' /\ PoolTasks' /\ [TP!Work!Next]_TP!Work!vars
    BY <2>1, PoolNext DEF HandOffInv
  <2>5. ProcSteps' /\ ProcTasks' /\ [PP!Work!Next]_PP!Work!vars
    BY <2>1, ProcNext DEF HandOffInv
  <2> QED BY <2>2, <2>3, <2>4, <2>5 DEF HandOffInv, HandOffSteps
<1> QED BY <1>1, <1>2, PTL
  DEF MCSpec, ImplementHandOff, HandOffInits, HandOffSteps,
      BQ!ImplementsHandOff, BQ!Work!Spec, CQ!ImplementsHandOff, CQ!Work!Spec,
      TP!ImplementsHandOff, TP!Work!Spec, PP!ImplementsHandOff, PP!Work!Spec
=============================================================================
