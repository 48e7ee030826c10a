---------------------------- MODULE ProcessPool ----------------------------
(***************************************************************************)
(* A parent that hands task numbers to children through a pipe for each,   *)
(* in turn, closes the pipes and waits for the children:                   *)
(* src/Test_11_14_proc_pool.  fork() gives a child the parent's            *)
(* descriptors, and with them the write ends of all earlier pipes, so that *)
(* a pipe reports its end only when the later children are gone, too.      *)
(***************************************************************************)
EXTENDS Naturals, Sequences

CONSTANTS
  Children,   \* pipenum
  Times,      \* what AllocTask is called with; 0 stands for -1, without an end
  MaxAllocs,   \* bound: without an end, the parent writes so many tasks
  PipeSize    \* how many task numbers fit into a pipe

Parent == 0
Channels == 1 .. Children

VARIABLES
  times,      \* the argument of AllocTask
  parent,     \* where the parent is
  channel,    \* the channel it creates, closes or waits for
  index,      \* the static index of AllocTaskOnce
  allocated,  \* how many tasks it has written
  pipes,      \* by channel, what is in the pipe
  writers,    \* by channel, the processes that hold its write end
  child,      \* by channel, where its child is
  taskid,     \* by channel, what its child executes: a sequence of at most one
  finished    \* the tasks that were executed (history)

ppVars == <<times, parent, channel, index, allocated, pipes, writers, child, taskid, finished>>

Init ==
  /\ times \in Times
  /\ parent = "create"
  /\ channel = 1
  /\ index = 1
  /\ allocated = 0
  /\ pipes = [c \in Channels |-> <<>>]
  /\ writers = [c \in Channels |-> {}]
  /\ child = [c \in Channels |-> "none"]
  /\ taskid = [c \in Channels |-> <<>>]
  /\ finished = {}

\* pipe() and fork(): the child gets all write ends there are, its own included.
CreateChannel ==
  /\ parent = "create"
  /\ writers' = [c \in Channels |->
                   IF c < channel THEN writers[c] \cup {channel}
                   ELSE IF c = channel THEN {Parent, channel} ELSE {}]
  /\ child' = [child EXCEPT ![channel] = "forked"]
  /\ IF channel = Children THEN parent' = "alloc" /\ channel' = 1
     ELSE channel' = channel + 1 /\ UNCHANGED parent
  /\ UNCHANGED <<times, index, allocated, pipes, taskid, finished>>

\* The child closes its own write end, and no other.
CloseInChild(c) ==
  /\ child[c] = "forked"
  /\ writers' = [writers EXCEPT ![c] = @ \ {c}]
  /\ child' = [child EXCEPT ![c] = "read"]
  /\ UNCHANGED <<times, parent, channel, index, allocated, pipes, taskid, finished>>

NextIndex == IF index = Children THEN 1 ELSE index + 1

\* write() waits while the pipe is full.
AllocTaskOnce ==
  /\ parent = "alloc"
  /\ allocated < IF times = 0 THEN MaxAllocs ELSE times
  /\ Len(pipes[index]) < PipeSize
  /\ pipes' = [pipes EXCEPT ![index] = Append(@, allocated + 1)]
  /\ allocated' = allocated + 1
  /\ index' = NextIndex
  /\ UNCHANGED <<times, parent, channel, writers, child, taskid, finished>>

AllocTaskReturns ==
  /\ parent = "alloc" /\ times > 0 /\ allocated = times
  /\ parent' = "close"
  /\ UNCHANGED <<times, channel, index, allocated, pipes, writers, child, taskid, finished>>

\* Mutant of CloseWfd: each child is waited for as soon as its pipe is closed.
CloseAndWait ==
  /\ parent = "close"
  /\ writers' = [writers EXCEPT ![channel] = @ \ {Parent}]
  /\ parent' = "wait"
  /\ UNCHANGED <<times, channel, index, allocated, pipes, child, taskid, finished>>

\* The first loop of CompleteAndQuit.
CloseWfd ==
  /\ parent = "close"
  /\ writers' = [writers EXCEPT ![channel] = @ \ {Parent}]
  /\ IF channel = Children THEN parent' = "wait" /\ channel' = 1
     ELSE channel' = channel + 1 /\ UNCHANGED parent
  /\ UNCHANGED <<times, index, allocated, pipes, child, taskid, finished>>

\* The second one: waitpid.
WaitChild ==
  /\ parent = "wait" /\ child[channel] = "exited"
  /\ IF channel = Children THEN parent' = "quit" /\ UNCHANGED channel
     ELSE channel' = channel + 1 /\ UNCHANGED parent
  /\ UNCHANGED <<times, index, allocated, pipes, writers, child, taskid, finished>>

\* The parent is killed: the only end of an AllocTask without one.
ParentDies ==
  /\ parent \notin {"quit", "dead"}
  /\ parent' = "dead"
  /\ writers' = [c \in Channels |-> writers[c] \ {Parent}]
  /\ UNCHANGED <<times, channel, index, allocated, pipes, child, taskid, finished>>

\* GetFuncIdAndExcute: read() takes a task number, waits, or reports the end.
ReadTask(c) ==
  /\ child[c] = "read" /\ pipes[c] # <<>>
  /\ taskid' = [taskid EXCEPT ![c] = <<Head(pipes[c])>>]
  /\ pipes' = [pipes EXCEPT ![c] = Tail(@)]
  /\ child' = [child EXCEPT ![c] = "excute"]
  /\ UNCHANGED <<times, parent, channel, index, allocated, writers, finished>>

ExcuteTask(c) ==
  /\ child[c] = "excute"
  /\ finished' = finished \cup {taskid[c][1]}
  /\ taskid' = [taskid EXCEPT ![c] = <<>>]
  /\ child' = [child EXCEPT ![c] = "read"]
  /\ UNCHANGED <<times, parent, channel, index, allocated, pipes, writers>>

\* exit(0) closes what the child still holds.
ExitAtEnd(c) ==
  /\ child[c] = "read" /\ pipes[c] = <<>> /\ writers[c] = {}
  /\ child' = [child EXCEPT ![c] = "exited"]
  /\ writers' = [d \in Channels |-> writers[d] \ {c}]
  /\ UNCHANGED <<times, parent, channel, index, allocated, pipes, taskid, finished>>

ParentStep ==
  CreateChannel \/ AllocTaskOnce \/ AllocTaskReturns \/ CloseWfd \/ WaitChild

ChildStep(c) == CloseInChild(c) \/ ReadTask(c) \/ ExcuteTask(c) \/ ExitAtEnd(c)

Next == ParentStep \/ ParentDies \/ \E c \in Channels : ChildStep(c)

Spec == Init /\ [][Next]_ppVars

-----------------------------------------------------------------------------
(* Properties *)

\* Every task number written is read by the channel's child and executed once, in the
\* order in which it was written; and when the parent quits, all have been.
\* (AllocTaskOnce, GetFuncIdAndExcute, CompleteAndQuit)
Work == INSTANCE HandOff WITH
  Lane <- Channels, Item <- 1 .. MaxAllocs,
  waiting <- pipes,
  doing <- {taskid[c][1] : c \in {d \in Channels : taskid[d] # <<>>}},
  done <- finished,
  open <- parent \in {"create", "alloc"}, ended <- parent = "quit"
ImplementsHandOff == Work!Spec

\* CompleteAndQuit comes to its end, although the first child sees the end of its pipe
\* last: it closes all pipes before it waits for anybody.  And when the parent is killed,
\* at whatever point, its children do not stay behind: the last one sees the end of its
\* pipe, and with each that exits the one before it does.
NobodyStays ==
  /\ parent = "close" ~> parent \in {"quit", "dead"}
  /\ parent = "dead" ~> \A c \in Channels : child[c] \in {"none", "exited"}
=============================================================================
