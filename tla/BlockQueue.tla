----------------------------- MODULE BlockQueue -----------------------------
(***************************************************************************)
(* The bounded queue with a mutex and two condition variables: BlockQueue  *)
(* of src/Test_11_27_Block_CP, and of src/os/thread/BlockingQueue.h, which *)
(* is the same.                                                            *)
(*                                                                         *)
(* The code holds _mutex from the test of the loop to the wait or to the   *)
(* unlock, so a step is what happens in between.  pthread_cond_wait may    *)
(* return without a signal.                                                *)
(***************************************************************************)
EXTENDS Naturals, Sequences

CONSTANTS
  Producers, Consumers,   \* the threads
  MaxPushes,              \* bound: each producer pushes so many tasks
  Capacity                \* _max_capacity

VARIABLES
  blockQueue,   \* _block_queue
  condP,        \* who waits on _cond_p
  condC,        \* who waits on _cond_c
  pushes,       \* how many tasks each producer has pushed
  popped,       \* by consumer, the task it has popped and runs: a sequence of at most one
  run           \* the tasks that were run (history)

bqVars == <<blockQueue, condP, condC, pushes, popped, run>>

Init ==
  /\ blockQueue = <<>>
  /\ condP = {}
  /\ condC = {}
  /\ pushes = [p \in Producers |-> 0]
  /\ popped = [c \in Consumers |-> <<>>]
  /\ run = {}

IsFull == Len(blockQueue) = Capacity
IsEmpty == blockQueue = <<>>

\* pthread_cond_signal: one of the waiters, if there is one, goes on.
Signalled(cond) == IF cond = {} THEN {cond} ELSE {cond \ {t} : t \in cond}

Push(p) ==
  /\ p \notin condP /\ pushes[p] < MaxPushes
  /\ IF IsFull
     THEN condP' = condP \cup {p} /\ UNCHANGED <<blockQueue, condC, pushes>>
     ELSE /\ blockQueue' = Append(blockQueue, <<p, pushes[p] + 1>>)
          /\ pushes' = [pushes EXCEPT ![p] = @ + 1]
          /\ condC' \in Signalled(condC)
          /\ UNCHANGED condP
  /\ UNCHANGED <<popped, run>>

\* Mutant of Pop: the producers are told only when the queue was full.
PopTellingWhenFull(c) ==
  /\ c \notin condC /\ popped[c] = <<>>
  /\ IF IsEmpty
     THEN condC' = condC \cup {c} /\ UNCHANGED <<blockQueue, condP, popped>>
     ELSE /\ popped' = [popped EXCEPT ![c] = <<Head(blockQueue)>>]
          /\ blockQueue' = Tail(blockQueue)
          /\ condP' \in IF IsFull THEN Signalled(condP) ELSE {condP}
          /\ UNCHANGED condC
  /\ UNCHANGED <<pushes, run>>

Pop(c) ==
  /\ c \notin condC /\ popped[c] = <<>>
  /\ IF IsEmpty
     THEN condC' = condC \cup {c} /\ UNCHANGED <<blockQueue, condP, popped>>
     ELSE /\ popped' = [popped EXCEPT ![c] = <<Head(blockQueue)>>]
          /\ blockQueue' = Tail(blockQueue)
          /\ condP' \in Signalled(condP)
          /\ UNCHANGED condC
  /\ UNCHANGED <<pushes, run>>

\* Consume runs the task it has popped.
RunPopped(c) ==
  /\ popped[c] # <<>>
  /\ run' = run \cup {popped[c][1]}
  /\ popped' = [popped EXCEPT ![c] = <<>>]
  /\ UNCHANGED <<blockQueue, condP, condC, pushes>>

SpuriousWakeUp ==
  /\ \/ \E p \in condP : condP' = condP \ {p} /\ UNCHANGED condC
     \/ \E c \in condC : condC' = condC \ {c} /\ UNCHANGED condP
  /\ UNCHANGED <<blockQueue, pushes, popped, run>>

Next ==
  \/ \E p \in Producers : Push(p)
  \/ \E c \in Consumers : Pop(c) \/ RunPopped(c)
  \/ SpuriousWakeUp

Spec == Init /\ [][Next]_bqVars

-----------------------------------------------------------------------------
(* Properties *)

\* Every pushed task is popped by one consumer and run once, oldest first.  (Push, Pop)
Work == INSTANCE HandOff WITH
  Lane <- {"queue"}, Item <- Producers \X (1 .. MaxPushes),
  waiting <- [l \in {"queue"} |-> blockQueue],
  doing <- {popped[c][1] : c \in {d \in Consumers : popped[d] # <<>>}},
  done <- run, open <- TRUE, ended <- FALSE
ImplementsHandOff == Work!Spec

\* A signal for each push and each pop is enough, although a signalled thread has yet to
\* get the mutex and another may be there before it: every producer gets all its tasks
\* into the queue, and they are run.
AllRun == <>(run = Producers \X (1 .. MaxPushes))
=============================================================================
