------------------------------ MODULE Mailbox ------------------------------
(***************************************************************************)
(* What the users of EventLoop::RunInLoop rely on (src/muduo/server.hpp):  *)
(* a task handed over by another thread runs once, in the loop's thread,   *)
(* and the tasks of the loop run in the order in which they were queued.   *)
(* TcpServer needs that order: a connection is established before its      *)
(* inactivity timer is armed, and both before anything is sent on it.      *)
(***************************************************************************)
EXTENDS Naturals, Sequences

CONSTANT Tasks  \* the tasks

VARIABLES
  queue,   \* the tasks handed over and not yet run
  ran      \* the tasks run, in order

Init == queue = <<>> /\ ran = <<>>

Queue(t) == queue' = Append(queue, t) /\ UNCHANGED ran

\* The oldest task runs; while it does it may queue one more.
Run ==
  /\ queue # <<>>
  /\ ran' = Append(ran, Head(queue))
  /\ \/ queue' = Tail(queue)
     \/ \E t \in Tasks : queue' = Append(Tail(queue), t)

Next == Run \/ \E t \in Tasks : Queue(t)

Spec == Init /\ [][Next]_<<queue, ran>>
=============================================================================
