--------------------------- MODULE CircularQueue ---------------------------
(***************************************************************************)
(* The bounded queue with two semaphores and a mutex for each side:        *)
(* CircularQueue of src/Test_11_28_ThreadPool_Semph/semph/Semaphore_CP.hpp.*)
(* No lock keeps a producer and a consumer apart: that they are never in   *)
(* one slot is up to the semaphores.  A step is one call or one statement. *)
(***************************************************************************)
EXTENDS Naturals, Sequences, FiniteSets

CONSTANTS
  Producers, Consumers,   \* the threads
  MaxPushes,              \* bound: each producer pushes so many tasks
  Slots                   \* _max_capacity

VARIABLES
  circularQueue,    \* _circular_queue: by slot the last task written, or <<>>
  semSpace,         \* _sem_space
  semData,          \* _sem_data
  pSuffix,          \* _p_suffix
  cSuffix,          \* _c_suffix
  pMutex,           \* the producers that hold _p_mutex: none or one
  cMutex,           \* the consumers that hold _c_mutex
  step,             \* by thread, where it is
  written,          \* how many tasks each producer has written
  val,              \* by consumer, what it has read: a sequence of at most one
  consumed          \* the tasks that were run (history)

cqVars == <<circularQueue, semSpace, semData, pSuffix, cSuffix, pMutex, cMutex, step,
            written, val, consumed>>

Users == Producers \cup Consumers

Init ==
  /\ circularQueue = [s \in 0 .. Slots - 1 |-> <<>>]
  /\ semSpace = Slots
  /\ semData = 0
  /\ pSuffix = 0
  /\ cSuffix = 0
  /\ pMutex = {}
  /\ cMutex = {}
  /\ step = [t \in Users |-> "idle"]
  /\ written = [p \in Producers |-> 0]
  /\ val = [c \in Consumers |-> <<>>]
  /\ consumed = {}

Goes(t, from, to) == step[t] = from /\ step' = [step EXCEPT ![t] = to]

-----------------------------------------------------------------------------
(* Push *)

\* P(_sem_space)
PSpace(p) ==
  /\ written[p] < MaxPushes /\ semSpace > 0
  /\ Goes(p, "idle", "lock")
  /\ semSpace' = semSpace - 1
  /\ UNCHANGED <<circularQueue, semData, pSuffix, cSuffix, pMutex, cMutex, written, val, consumed>>

LockP(p) ==
  /\ pMutex = {}
  /\ Goes(p, "lock", "copy")
  /\ pMutex' = {p}
  /\ UNCHANGED <<circularQueue, semSpace, semData, pSuffix, cSuffix, cMutex, written, val, consumed>>

Write(p) ==
  /\ Goes(p, "copy", "advance")
  /\ circularQueue' = [circularQueue EXCEPT ![pSuffix] = <<p, written[p] + 1>>]
  /\ written' = [written EXCEPT ![p] = @ + 1]
  /\ UNCHANGED <<semSpace, semData, pSuffix, cSuffix, pMutex, cMutex, val, consumed>>

AdvanceP(p) ==
  /\ Goes(p, "advance", "post")
  /\ pSuffix' = (pSuffix + 1) % Slots
  /\ pMutex' = {}
  /\ UNCHANGED <<circularQueue, semSpace, semData, cSuffix, cMutex, written, val, consumed>>

\* V(_sem_data)
VData(p) ==
  /\ Goes(p, "post", "idle")
  /\ semData' = semData + 1
  /\ UNCHANGED <<circularQueue, semSpace, pSuffix, cSuffix, pMutex, cMutex, written, val, consumed>>

-----------------------------------------------------------------------------
(* Pop, and what Consume does with the task *)

\* P(_sem_data)
PData(c) ==
  /\ semData > 0
  /\ Goes(c, "idle", "lock")
  /\ semData' = semData - 1
  /\ UNCHANGED <<circularQueue, semSpace, pSuffix, cSuffix, pMutex, cMutex, written, val, consumed>>

LockC(c) ==
  /\ cMutex = {}
  /\ Goes(c, "lock", "copy")
  /\ cMutex' = {c}
  /\ UNCHANGED <<circularQueue, semSpace, semData, pSuffix, cSuffix, pMutex, written, val, consumed>>

Read(c) ==
  /\ Goes(c, "copy", "advance")
  /\ val' = [val EXCEPT ![c] = <<circularQueue[cSuffix]>>]
  /\ UNCHANGED <<circularQueue, semSpace, semData, pSuffix, cSuffix, pMutex, cMutex, written, consumed>>

AdvanceC(c) ==
  /\ Goes(c, "advance", "post")
  /\ cSuffix' = (cSuffix + 1) % Slots
  /\ cMutex' = {}
  /\ UNCHANGED <<circularQueue, semSpace, semData, pSuffix, pMutex, written, val, consumed>>

\* V(_sem_space)
VSpace(c) ==
  /\ Goes(c, "post", "run")
  /\ semSpace' = semSpace + 1
  /\ UNCHANGED <<circularQueue, semData, pSuffix, cSuffix, pMutex, cMutex, written, val, consumed>>

\* Mutant of Pop: the space is given back before the task is copied.
PopGivingBackFirst(c) ==
  \/ PData(c)
  \/ /\ cMutex = {}
     /\ Goes(c, "lock", "copy")
     /\ cMutex' = {c}
     /\ semSpace' = semSpace + 1
     /\ UNCHANGED <<circularQueue, semData, pSuffix, cSuffix, pMutex, written, val, consumed>>
  \/ Read(c)
  \/ /\ Goes(c, "advance", "run")
     /\ cSuffix' = (cSuffix + 1) % Slots
     /\ cMutex' = {}
     /\ UNCHANGED <<circularQueue, semSpace, semData, pSuffix, pMutex, written, val, consumed>>

Pop(c) == PData(c) \/ LockC(c) \/ Read(c) \/ AdvanceC(c) \/ VSpace(c)

Push(p) == PSpace(p) \/ LockP(p) \/ Write(p) \/ AdvanceP(p) \/ VData(p)

RunTask(c) ==
  /\ Goes(c, "run", "idle")
  /\ consumed' = consumed \cup {val[c][1]}
  /\ val' = [val EXCEPT ![c] = <<>>]
  /\ UNCHANGED <<circularQueue, semSpace, semData, pSuffix, cSuffix, pMutex, cMutex, written>>

Next ==
  \/ \E p \in Producers : Push(p)
  \/ \E c \in Consumers : Pop(c) \/ RunTask(c)

Spec == Init /\ [][Next]_cqVars

-----------------------------------------------------------------------------
(* Properties *)

\* A producer that writes and a consumer that reads are in different slots, although
\* nothing but the two counts keeps them apart.  (Push and Pop, outside of a common lock)
SlotsApart ==
  \A p \in Producers, c \in Consumers :
    step[p] = "copy" /\ step[c] = "copy" => pSuffix # cSuffix

\* The tasks in the queue, oldest first: those written and not yet read.  A consumer at
\* "advance" has read the task in the slot that _c_suffix still names.
InQueue ==
  LET read == consumed \cup {val[c][1] : c \in {d \in Consumers : val[d] # <<>>}}
      tasks == {t \in Producers \X (1 .. MaxPushes) : t[2] <= written[t[1]]} \ read
      first == IF \E c \in Consumers : step[c] = "advance" THEN cSuffix + 1 ELSE cSuffix
  IN  [k \in 1 .. Cardinality(tasks) |-> circularQueue[(first + k - 1) % Slots]]

\* Every task written is read by one consumer and run once, in the order of the slots:
\* none is overwritten before it is read, none is read twice.  (Push, Pop)
Work == INSTANCE HandOff WITH
  Lane <- {"queue"}, Item <- Producers \X (1 .. MaxPushes),
  waiting <- [l \in {"queue"} |-> InQueue],
  doing <- {val[c][1] : c \in {d \in Consumers : val[d] # <<>>}},
  done <- consumed, open <- TRUE, ended <- FALSE
ImplementsHandOff == Work!Spec

\* Nobody waits for ever on a count that another has given back: all tasks get through.
AllConsumed == <>(consumed = Producers \X (1 .. MaxPushes))
=============================================================================
