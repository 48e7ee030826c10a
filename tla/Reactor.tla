------------------------------ MODULE Reactor ------------------------------
(***************************************************************************)
(* Connection, Channel, Poll, Acceptor, LoopThreadPool and TcpServer of    *)
(* src/muduo/server.hpp, put together: one main loop that accepts, sub     *)
(* loops that own the connections, and clients that send, close, reset     *)
(* and read slowly.                                                        *)
(*                                                                         *)
(* Each loop's thread repeats: epoll_wait, the handlers of the ready       *)
(* channels, the tasks queued until then.  A handler or a task touches     *)
(* only what its thread owns and is one step; AcceptCallback, which hands  *)
(* over two tasks before it stores the connection, is three.  What other   *)
(* threads see of the task queue is EventLoop's Mailbox.  Timers are those *)
(* of Timers: `timer` is the number of ticks left.                         *)
(*                                                                         *)
(* Buffers are counts of bytes; a reply of the application is one byte.    *)
(* A handler is an operator from the connection it is called on to the     *)
(* set of what it may become: the nondeterminism is the application's and  *)
(* the kernel's.                                                           *)
(***************************************************************************)
EXTENDS Naturals, FiniteSets, SequencesExt

CONSTANTS
  Conns,     \* the connections clients may open
  Main,      \* _main_loop
  SubLoops,  \* the loops of the pool, a sequence
  Scenarios, \* how the server is set up and used, see Scenario
  NoConn     \* no connection is being accepted

\* What main() sets up before Start, and what clients and other threads do then.
Scenario == [
  app     : {"echo", "http"},      \* whose message callback: EchoServer's, HttpServer's
  threads : 0 .. Len(SubLoops),    \* _threads_size; 0 leaves all in the main loop
  timeout : Nat,                   \* of EnableInactiveRelease, in ticks; 0 for no call
  sends   : Nat,                   \* bytes a client sends (a bound)
  faults  : SUBSET {"fin", "rst", "slow"},  \* clients close, reset, read slowly
  calls   : SUBSET {"Send", "ShutDown"}]    \* what other threads call, once each

Loops == {Main} \cup ToSet(SubLoops)

ASSUME ReactorAssumption ==
  /\ IsFiniteSet(Conns) /\ Conns \cap {"listen", "timer"} = {}
  /\ NoConn \notin {"EnableInactiveRelease", "Insert"} \X Conns
  /\ SubLoops \in Seq(ToSet(SubLoops)) /\ Main \notin ToSet(SubLoops)
  /\ Scenarios \subseteq Scenario

VARIABLES
  config,     \* the scenario
  conn,       \* the Connection objects with their Channel, Socket and peer
  loopOf,     \* _loop of each connection
  turn,       \* _thread_index
  conns,      \* _conns of the server
  accepting,  \* NoConn, or what AcceptCallback has still to do, and for which
  active,     \* per loop, _active_channel: the channels not yet handled
  tasks,      \* per loop, the tasks queued and not yet run
  batch,      \* per loop, how many of them this DoPendingTask will run
  expired,    \* per loop, whether its timerfd is readable
  called,     \* the calls other threads have made (a bound: once each)
  down        \* "up", or how the process ended

vars == <<config, conn, loopOf, turn, conns, accepting, active, tasks, batch, expired, called,
          down>>

Statuses == {"NEW", "BACKLOG", "CONNECTING", "CONNECTED", "DISCONNECTING", "DISCONNECTED"}

Fates == {"up", "exit", "abort", "killed", "dangling"}

Connection == [
  status : Statuses,                \* _status; "NEW" and "BACKLOG" before accept
  in     : Nat,                     \* _in_buffer
  out    : Nat,                     \* _out_buffer
  ev     : SUBSET {"IN", "OUT"},    \* _channel._events
  rev    : SUBSET {"IN", "OUT", "HUP"}, \* _channel._revents, until handled
  reg    : BOOLEAN,                 \* in _care_fd and in the epoll
  open   : BOOLEAN,                 \* _socket is not closed
  inact  : BOOLEAN,                 \* _enable_inactive_release
  timer  : Nat,                     \* the ticks left of _timer_id, 0 for no timer
  closed : 0 .. 2,                  \* calls of _closed_cb (two stands for more)
  told   : BOOLEAN,                 \* _server_close_cb was called in this handler
  fate   : Fates,                   \* the process ended in this handler
  sent   : Nat,                     \* what the client has sent
  recvq  : Nat,                     \* of it, what the kernel has for the server
  got    : Nat,                     \* what the client was sent
  lost   : BOOLEAN,                 \* bytes were popped and not sent
  fin    : BOOLEAN,                 \* the client has shut down its side
  rst    : BOOLEAN,                 \* the client has reset the connection
  room   : BOOLEAN]                 \* the kernel takes more bytes to send

\* No client has connected yet.
NoClient ==
  [status |-> "NEW", in |-> 0, out |-> 0, ev |-> {}, rev |-> {}, reg |-> FALSE,
   open |-> FALSE, inact |-> FALSE, timer |-> 0, closed |-> 0, told |-> FALSE,
   fate |-> "up", sent |-> 0, recvq |-> 0, got |-> 0, lost |-> FALSE,
   fin |-> FALSE, rst |-> FALSE, room |-> TRUE]

TaskOf(op, c) == [op |-> op, conn |-> c]

Task ==
  [op : {"Established", "EnableInactiveRelease", "Send", "ShutDown", "Remove"},
   conn : Conns]

TypeOK ==
  /\ config \in Scenarios
  /\ conn \in [Conns -> Connection]
  /\ \A c \in Conns :
       /\ conn[c].timer <= config.timeout
       /\ conn[c].in <= conn[c].sent /\ conn[c].sent <= config.sends
  /\ loopOf \in [Conns -> Loops]
  /\ turn \in 0 .. Len(SubLoops)
  /\ conns \subseteq Conns
  /\ accepting \in {NoConn} \cup ({"EnableInactiveRelease", "Insert"} \X Conns)
  /\ active \in [Loops -> SUBSET (Conns \cup {"listen", "timer"})]
  /\ \A l \in Loops : tasks[l] \in Seq(Task) /\ batch[l] \in 0 .. Len(tasks[l])
  /\ expired \in [Loops -> BOOLEAN]
  /\ called \subseteq Conns \X config.calls
  /\ down \in Fates

Init ==
  /\ config \in Scenarios
  /\ conn = [c \in Conns |-> NoClient]
  /\ loopOf = [c \in Conns |-> Main]
  /\ turn = 0
  /\ conns = {}
  /\ accepting = NoConn
  /\ active = [l \in Loops |-> {}]
  /\ tasks = [l \in Loops |-> <<>>]
  /\ batch = [l \in Loops |-> 0]
  /\ expired = [l \in Loops |-> FALSE]
  /\ called = {}
  /\ down = "up"

-----------------------------------------------------------------------------
(* Channel and Poll. *)

\* epoll_ctl fails on a closed descriptor, and UpdateMonitor then exits.  (Unless
\* another connection got the same number meanwhile, which is not modelled.)
UpdateEvent(k) ==
  IF k.open THEN [k EXCEPT !.reg = TRUE] ELSE [k EXCEPT !.fate = "exit"]

EnableRead(k) == UpdateEvent([k EXCEPT !.ev = @ \cup {"IN"}])

EnableWrite(k) == UpdateEvent([k EXCEPT !.ev = @ \cup {"OUT"}])

DisableWrite(k) == UpdateEvent([k EXCEPT !.ev = @ \ {"OUT"}])

-----------------------------------------------------------------------------
(* Connection: the handlers and the tasks that run in its loop. *)

\* Mutants of ReleaseInLoop: without Remove, Close, the cancelled timer, or
\* _server_close_cb.
ReleaseWithoutRemove(k) ==
  [k EXCEPT !.status = "DISCONNECTED", !.open = FALSE, !.inact = FALSE, !.timer = 0,
            !.closed = IF @ < 2 THEN @ + 1 ELSE @, !.told = TRUE]

ReleaseWithoutClose(k) ==
  [k EXCEPT !.status = "DISCONNECTED", !.ev = {}, !.reg = FALSE, !.inact = FALSE,
            !.timer = 0, !.closed = IF @ < 2 THEN @ + 1 ELSE @, !.told = TRUE]

ReleaseWithoutCancel(k) ==
  [k EXCEPT !.status = "DISCONNECTED", !.ev = {}, !.reg = FALSE, !.open = FALSE,
            !.recvq = 0, !.closed = IF @ < 2 THEN @ + 1 ELSE @, !.told = TRUE]

ReleaseUntold(k) ==
  [k EXCEPT !.status = "DISCONNECTED", !.ev = {}, !.reg = FALSE, !.open = FALSE,
            !.recvq = 0, !.inact = FALSE, !.timer = 0,
            !.closed = IF @ < 2 THEN @ + 1 ELSE @]

\* Channel::Remove, Close, CancelInactiveReleaseInLoop if there is a timer,
\* _closed_cb and _server_close_cb.
ReleaseInLoop(k) ==
  [k EXCEPT !.status = "DISCONNECTED",
            !.ev = {}, !.reg = FALSE,
            !.open = FALSE, !.recvq = 0,
            !.inact = @ /\ k.timer = 0, !.timer = 0,
            !.closed = IF @ < 2 THEN @ + 1 ELSE @,
            !.told = TRUE]

\* Mutant of SendInLoop: EPOLLOUT is not enabled.
SendUnwatched(k, n) ==
  IF k.status = "DISCONNECTED" THEN k ELSE [k EXCEPT !.out = @ + n]

SendInLoop(k, n) ==
  IF k.status = "DISCONNECTED" THEN k
  ELSE LET j == [k EXCEPT !.out = @ + n]
       IN  IF "OUT" \in j.ev THEN j ELSE EnableWrite(j)

\* Mutant of FlushOrRelease: _out_buffer is not looked at.
ReleaseUnflushed(k) == ReleaseInLoop(k)

\* ShutDownInLoop behind its call of the message callback.
FlushOrRelease(k) ==
  IF k.out = 0 THEN ReleaseInLoop(k)
  ELSE IF "OUT" \in k.ev THEN k ELSE EnableWrite(k)

\* EchoServer pops everything and sends it.  HttpServer consumes lines of an
\* incomplete request, or answers and goes on, or answers and shuts down.  (The
\* callback that this ShutDown runs on what is left only consumes and answers
\* more; a reply stands for all of them.)
MessCb(k) ==
  IF config.app = "echo" THEN {SendInLoop([k EXCEPT !.in = 0], k.in)}
  ELSE LET answered == {SendInLoop([k EXCEPT !.in = n], 1) : n \in 0 .. k.in - 1}
       IN  {[k EXCEPT !.in = n] : n \in 0 .. k.in}
           \cup answered
           \cup {FlushOrRelease([j EXCEPT !.status = "DISCONNECTING"]) : j \in answered}

HandleBuffered(k) == IF k.in > 0 THEN MessCb(k) ELSE {k}

ShutDownInLoop(k) ==
  {FlushOrRelease(j) : j \in HandleBuffered([k EXCEPT !.status = "DISCONNECTING"])}

\* Mutant of HandleRead: the bytes are left in the kernel (MSG_PEEK).
HandleReadPeeking(k) ==
  IF k.status = "DISCONNECTED" THEN {k}
  ELSE IF k.recvq > 0 THEN MessCb([k EXCEPT !.in = @ + k.recvq])
  ELSE IF k.rst \/ k.fin THEN ShutDownInLoop(k)
  ELSE {k}

HandleRead(k) ==
  IF k.status = "DISCONNECTED" THEN {k}
  ELSE IF k.recvq > 0 THEN MessCb([k EXCEPT !.in = @ + k.recvq, !.recvq = 0])
  ELSE IF k.rst \/ k.fin THEN ShutDownInLoop(k)
  ELSE {k}

HandleClose(k) == {ReleaseInLoop(j) : j \in HandleBuffered(k)}

\* Mutants of WriteDone: EPOLLOUT stays enabled; DISCONNECTING is not looked at.
WriteDoneWatching(k) ==
  IF k.out = 0 /\ k.status = "DISCONNECTING" THEN ReleaseInLoop(k) ELSE k

WriteDoneStaying(k) == IF k.out > 0 THEN k ELSE DisableWrite(k)

\* The end of HandleWrite.
WriteDone(k) ==
  IF k.out > 0 THEN k
  ELSE LET j == DisableWrite(k)
       IN  IF j.fate = "up" /\ j.status = "DISCONNECTING" THEN ReleaseInLoop(j) ELSE j

\* The kernel takes m of the n bytes that were popped.
Taken(k, m, n, room) == [k EXCEPT !.got = @ + m, !.lost = @ \/ m < n, !.room = room]

\* One send(): it takes all of them, or, of a client that reads slowly, some.
Sent(k, n) ==
  {Taken(k, n, n, TRUE)}
  \cup (IF "slow" \in config.faults THEN {Taken(k, m, n, FALSE) : m \in 1 .. n} ELSE {})

\* Mutant of HandleWrite: ReadString for ReadStringAndPop.
HandleWriteUnpopped(k) == {WriteDone(j) : j \in Sent(k, k.out)}

\* A send() to a reset socket fails, or raises SIGPIPE, which nothing handles.
\* ReadStringAndPop asserts that there is something to pop.
HandleWrite(k) ==
  LET popped == [k EXCEPT !.out = 0]
  IN  IF k.out = 0 THEN {[k EXCEPT !.fate = "abort"]}
      ELSE IF k.open /\ ~k.rst THEN {WriteDone(j) : j \in Sent(popped, k.out)}
      ELSE {WriteDone(ReleaseInLoop(j)) : j \in HandleBuffered(popped)}
           \cup (IF k.open THEN {[popped EXCEPT !.fate = "killed"]} ELSE {})

HandleAnyEvent(k) == IF k.inact /\ k.timer > 0 THEN [k EXCEPT !.timer = config.timeout] ELSE k

\* Mutants of HandleEvents: EPOLLHUP is not handled; the handlers do not return.
HandleEventsWithoutHup(k) ==
  LET j == HandleAnyEvent(k)
  IN  IF "IN" \in k.rev THEN HandleRead(j)
      ELSE IF "OUT" \in k.rev THEN HandleWrite(j)
      ELSE {j}

HandleEventsFallingThrough(k) ==
  LET j == HandleAnyEvent(k)
      ups == IF "HUP" \in k.rev THEN HandleClose(j) ELSE {j}
      ins == IF "IN" \in k.rev THEN UNION {HandleRead(u) : u \in ups} ELSE ups
  IN  IF "OUT" \in k.rev THEN UNION {HandleWrite(i) : i \in ins} ELSE ins

HandleEvents(k) ==
  LET j == HandleAnyEvent(k)
  IN  IF "HUP" \in k.rev THEN HandleClose(j)
      ELSE IF "IN" \in k.rev THEN HandleRead(j)
      ELSE IF "OUT" \in k.rev THEN HandleWrite(j)
      ELSE {j}

EstablishedInLoop(k) ==
  IF k.status # "CONNECTING" THEN [k EXCEPT !.fate = "abort"]
  ELSE EnableRead([k EXCEPT !.status = "CONNECTED"])

\* Mutant of EnableInactiveReleaseInLoop: the flag is set, the timer is not.
EnableWithoutTimer(k) == [k EXCEPT !.inact = TRUE]

EnableInactiveReleaseInLoop(k) == [k EXCEPT !.inact = TRUE, !.timer = config.timeout]

-----------------------------------------------------------------------------
(* The loops. *)

\* There is a Connection object ...
Made(c) == conn[c].status \notin {"NEW", "BACKLOG"}

Queued(c) == \E l \in Loops : \E i \in DOMAIN tasks[l] : tasks[l][i].conn = c

\* ... until nothing holds a shared_ptr to it: _conns, AcceptCallback's `conn`,
\* or the `self` of a task.  (The timer's function holds a weak_ptr.)
Freed(c) ==
  /\ Made(c)
  /\ c \notin conns
  /\ accepting = NoConn \/ accepting[2] # c
  /\ ~Queued(c)

\* The connection as the handler leaves it.
Settled(k) == [k EXCEPT !.told = FALSE, !.rev = {}]

RemoveTasks(cs) == {[i \in DOMAIN q |-> TaskOf("Remove", q[i])] : q \in SetToSeqs(cs)}

\* RemoveFromServer for the released connections, from loop l: at once in the main
\* loop, otherwise as tasks of it.  `rest` is what is left in the task queues.
RemoveFromServer(l, released, rest) ==
  IF l = Main
  THEN conns' = conns \ released /\ tasks' = rest
  ELSE /\ \E q \in RemoveTasks(released) : tasks' = [rest EXCEPT ![Main] = @ \o q]
       /\ UNCHANGED conns

Become(c, k, rest) ==
  /\ conn' = [conn EXCEPT ![c] = Settled(k)]
  /\ down' = k.fate
  /\ RemoveFromServer(loopOf[c], IF k.told THEN {c} ELSE {}, rest)

\* The main loop is inside AcceptCallback.
Busy(l) == l = Main /\ accepting # NoConn

\* A channel has been handled; after the last one comes DoPendingTask's swap.
Handled(l, ch) ==
  LET rest == active[l] \ {ch}
  IN  /\ active' = [active EXCEPT ![l] = rest]
      /\ batch' = IF rest = {} THEN [batch EXCEPT ![l] = Len(tasks[l])] ELSE batch

\* What epoll reports of a connection.  A reset is reported asked for or not.
Revents(k) ==
  {e \in k.ev : \/ e = "IN" /\ (k.recvq > 0 \/ k.fin \/ k.rst)
                \/ e = "OUT" /\ (k.room \/ k.rst)}
  \cup {e \in {"HUP"} : k.rst}

Ready(l) ==
  {c \in Conns : loopOf[c] = l /\ conn[c].reg /\ Revents(conn[c]) # {}}
  \cup {ch \in {"timer"} : expired[l]}
  \cup {ch \in {"listen"} : l = Main /\ \E c \in Conns : conn[c].status = "BACKLOG"}

\* epoll_wait returns what is ready, or for the eventfd when a task is queued.
Polling(l) ==
  /\ active[l] = {} /\ batch[l] = 0 /\ ~Busy(l)
  /\ Ready(l) # {} \/ tasks[l] # <<>>
  /\ active' = [active EXCEPT ![l] = Ready(l)]
  /\ conn' = [c \in Conns |-> IF c \in Ready(l)
                              THEN [conn[c] EXCEPT !.rev = Revents(conn[c])]
                              ELSE conn[c]]
  /\ batch' = IF Ready(l) = {} THEN [batch EXCEPT ![l] = Len(tasks[l])] ELSE batch
  /\ UNCHANGED <<config, loopOf, turn, conns, accepting, tasks, expired, called, down>>

\* Channel::HandleEvents through the pointer in _active_channel.
HandleChannel(l, c) ==
  /\ c \in active[l] /\ ~Busy(l)
  /\ IF Freed(c)
     THEN down' = "dangling" /\ UNCHANGED <<conn, conns, tasks>>
     ELSE \E k \in HandleEvents(conn[c]) : Become(c, k, tasks)
  /\ Handled(l, c)
  /\ UNCHANGED <<config, loopOf, turn, accepting, expired, called>>

\* TimerReadCb: one tick for every timer of the loop; a timer that runs out
\* releases its connection if the weak_ptr can still be locked.
TimerReadCb(l) ==
  LET due == {c \in Conns : loopOf[c] = l /\ conn[c].timer = 1 /\ ~Freed(c)}
      running == {c \in Conns : loopOf[c] = l /\ conn[c].timer > 0}
      Released(k) == [ReleaseInLoop(k) EXCEPT !.told = FALSE]
  IN  /\ "timer" \in active[l] /\ ~Busy(l)
      /\ expired' = [expired EXCEPT ![l] = FALSE]
      /\ conn' = [c \in Conns |->
                    IF c \in due THEN Released(conn[c])
                    ELSE IF c \in running THEN [conn[c] EXCEPT !.timer = @ - 1]
                    ELSE conn[c]]
      /\ RemoveFromServer(l, due, tasks)
      /\ Handled(l, "timer")
      /\ UNCHANGED <<config, loopOf, turn, accepting, called, down>>

\* The next task of the batch.
RunTask(l) ==
  LET t == Head(tasks[l])
      c == t.conn
      k == conn[c]
      rest == [tasks EXCEPT ![l] = Tail(@)]
  IN  /\ active[l] = {} /\ batch[l] > 0
      /\ batch' = [batch EXCEPT ![l] = @ - 1]
      /\ CASE t.op = "Established" -> Become(c, EstablishedInLoop(k), rest)
           [] t.op = "EnableInactiveRelease" -> Become(c, EnableInactiveReleaseInLoop(k), rest)
           [] t.op = "Send" -> Become(c, SendInLoop(k, 1), rest)
           [] t.op = "ShutDown" -> \E j \in ShutDownInLoop(k) : Become(c, j, rest)
           [] t.op = "Remove" -> /\ conns' = conns \ {c}
                                 /\ tasks' = rest
                                 /\ UNCHANGED <<conn, down>>
      /\ UNCHANGED <<config, loopOf, turn, accepting, active, expired, called>>

-----------------------------------------------------------------------------
(* Acceptor and TcpServer. *)

NextTurn == IF config.threads = 0 THEN turn ELSE (turn + 1) % config.threads

GetNextLoopThread == IF config.threads = 0 THEN Main ELSE SubLoops[NextTurn + 1]

\* RunInLoop(task) by the main loop's thread for a connection of loop l.
RunInLoop(l, op, c, k) ==
  IF l = Main
  THEN conn' = [conn EXCEPT ![c] = k] /\ down' = k.fate /\ UNCHANGED tasks
  ELSE /\ tasks' = [tasks EXCEPT ![l] = Append(@, TaskOf(op, c))]
       /\ UNCHANGED down

\* HandleListenRead and AcceptCallback up to Established().
HandleListenRead(c) ==
  LET l == GetNextLoopThread
      k == [conn[c] EXCEPT !.status = "CONNECTING", !.open = TRUE]
  IN  /\ "listen" \in active[Main] /\ accepting = NoConn
      /\ conn[c].status = "BACKLOG"
      /\ turn' = NextTurn
      /\ loopOf' = [loopOf EXCEPT ![c] = l]
      /\ RunInLoop(l, "Established", c, EstablishedInLoop(k))
      /\ l # Main => conn' = [conn EXCEPT ![c] = k]
      /\ accepting' = <<IF config.timeout > 0 THEN "EnableInactiveRelease" ELSE "Insert", c>>
      /\ UNCHANGED <<config, conns, active, batch, expired, called>>

AcceptEnable ==
  /\ accepting # NoConn /\ accepting[1] = "EnableInactiveRelease"
  /\ LET c == accepting[2]
     IN  /\ RunInLoop(loopOf[c], "EnableInactiveRelease", c,
                      EnableInactiveReleaseInLoop(conn[c]))
         /\ loopOf[c] # Main => UNCHANGED conn
         /\ accepting' = <<"Insert", c>>
  /\ UNCHANGED <<config, loopOf, turn, conns, active, batch, expired, called>>

\* _conns[_conn_id] = conn
AcceptInsert ==
  /\ accepting # NoConn /\ accepting[1] = "Insert"
  /\ conns' = conns \cup {accepting[2]}
  /\ accepting' = NoConn
  /\ Handled(Main, "listen")
  /\ UNCHANGED <<config, conn, loopOf, turn, tasks, expired, called, down>>

-----------------------------------------------------------------------------
(* The clients, the clock, and other threads of the server. *)

\* A client does something to its end of the connection.
Client(c, k) ==
  /\ conn' = [conn EXCEPT ![c] = k]
  /\ UNCHANGED <<config, loopOf, turn, conns, accepting, active, tasks, batch, expired,
                 called, down>>

Reachable(k) == (k.status = "BACKLOG" \/ k.open) /\ ~k.rst

Connect(c) ==
  conn[c].status = "NEW" /\ Client(c, [conn[c] EXCEPT !.status = "BACKLOG"])

ClientSend(c) ==
  LET k == conn[c]
  IN  /\ Reachable(k) /\ ~k.fin /\ k.sent < config.sends
      /\ Client(c, [k EXCEPT !.sent = @ + 1, !.recvq = @ + 1])

\* shutdown(SHUT_WR), or close() as far as the server can tell.
ClientFin(c) ==
  LET k == conn[c]
  IN  /\ "fin" \in config.faults /\ Reachable(k) /\ ~k.fin
      /\ Client(c, [k EXCEPT !.fin = TRUE])

ClientReset(c) ==
  LET k == conn[c]
  IN  /\ "rst" \in config.faults /\ Reachable(k)
      /\ Client(c, [k EXCEPT !.rst = TRUE])

ClientRead(c) ==
  LET k == conn[c]
  IN  /\ Reachable(k) /\ ~k.room
      /\ Client(c, [k EXCEPT !.room = TRUE])

TimerExpires(l) ==
  /\ config.timeout > 0
  /\ expired' = [expired EXCEPT ![l] = TRUE]
  /\ UNCHANGED <<config, conn, loopOf, turn, conns, accepting, active, tasks, batch, called,
                 down>>

\* Connection::Send or ShutDown by a thread that is not a loop's: it has got the
\* pointer from _conn_cb, and keeps it for the call only.
CallFromThread(c, op) ==
  /\ op \in config.calls /\ <<c, op>> \notin called
  /\ Made(c) /\ conn[c].status # "CONNECTING" /\ ~Freed(c)
  /\ called' = called \cup {<<c, op>>}
  /\ tasks' = [tasks EXCEPT ![loopOf[c]] = Append(@, TaskOf(op, c))]
  /\ UNCHANGED <<config, conn, loopOf, turn, conns, accepting, active, batch, expired, down>>

-----------------------------------------------------------------------------

LoopStep(l) ==
  /\ down = "up"
  /\ \/ Polling(l)
     \/ \E c \in Conns : HandleChannel(l, c)
     \/ TimerReadCb(l)
     \/ RunTask(l)
     \/ l = Main /\ ((\E c \in Conns : HandleListenRead(c)) \/ AcceptEnable \/ AcceptInsert)

Next ==
  \/ \E l \in Loops : LoopStep(l)
  \/ /\ down = "up"
     /\ \/ \E c \in Conns : \/ Connect(c) \/ ClientSend(c) \/ ClientFin(c)
                            \/ ClientReset(c) \/ ClientRead(c)
                            \/ \E op \in config.calls : CallFromThread(c, op)
        \/ \E l \in Loops : TimerExpires(l)

Spec == Init /\ [][Next]_vars

\* The threads run, clients go on reading, and the clock goes on.
FairSpec ==
  /\ Spec
  /\ \A l \in Loops : WF_vars(LoopStep(l))
  /\ \A c \in Conns : WF_vars(down = "up" /\ ClientRead(c))
  /\ \A l \in Loops : WF_vars(down = "up" /\ TimerExpires(l))

-----------------------------------------------------------------------------

(***************************************************************************)
(* EPOLLOUT is asked for exactly while there is something to send.  With a *)
(* missing EPOLLOUT the bytes would never leave; with a superfluous one    *)
(* HandleWrite would pop nothing, which MoveReadOffset asserts against.    *)
(***************************************************************************)
OutWatched ==
  down = "up" => \A c \in Conns : conn[c].reg => ("OUT" \in conn[c].ev <=> conn[c].out > 0)

(***************************************************************************)
(* A connection that is neither established nor released is in no epoll,   *)
(* and one that is in an epoll has an open socket: _care_fd never holds a  *)
(* channel for a descriptor number that may be somebody else's.            *)
(***************************************************************************)
WatchedWhileConnected ==
  down = "up" => \A c \in Conns :
    conn[c].reg <=> conn[c].open /\ conn[c].status \in {"CONNECTED", "DISCONNECTING"}

(***************************************************************************)
(* When the last shared_ptr to a Connection goes, its socket is closed     *)
(* (~Socket does not close it), its channel is in no epoll, and no pointer *)
(* to the channel is left in an _active_channel.  (With inactivity timers  *)
(* there may be one, and the loop goes on to call its HandleEvents.)       *)
(***************************************************************************)
FreedIsUnused ==
  \A c \in Conns :
    Freed(c) => /\ ~conn[c].open /\ ~conn[c].reg
                /\ config.timeout = 0 => \A l \in Loops : c \notin active[l]

(***************************************************************************)
(* _closed_cb is called at most once for a connection, whatever its client *)
(* does.  (It is called again by a ShutDown that another thread queued     *)
(* before the release, for ShutDownInLoop, server.hpp:1241, does not look  *)
(* at _status; and by the EPOLLOUT of a batch in which the inactivity      *)
(* timer has released the connection, for HandleWrite does not either.)    *)
(***************************************************************************)
ClosedOnce == config.timeout = 0 => \A c \in Conns : conn[c].closed <= 1

(***************************************************************************)
(* Every byte a client of the EchoServer has sent is in one place: in the  *)
(* kernel, in a buffer, or back at the client.  (Unless the client has     *)
(* reset.  And except that HandleWrite, which sends once what it has       *)
(* popped, throws away what a client that reads slowly has no room for.)   *)
(***************************************************************************)
BytesConserved ==
  config.app = "echo" => \A c \in Conns : conn[c].open /\ ~conn[c].rst /\ ~conn[c].lost =>
    conn[c].sent = conn[c].recvq + conn[c].in + conn[c].out + conn[c].got

(***************************************************************************)
(* Without sub loops a released connection has no timer left to release it *)
(* once more.  (With them, AcceptCallback's EnableInactiveRelease is a task *)
(* that may run after the release, and arms a timer all the same.)         *)
(***************************************************************************)
ReleasedHasNoTimer ==
  config.threads = 0 => \A c \in Conns : conn[c].status = "DISCONNECTED" => conn[c].timer = 0

\* What epoll watches and what the wheel holds is what the connection's state says: see
\* its parts.  (EstablishedInLoop, SendInLoop, HandleWrite, ReleaseInLoop)
ChannelsSound == TypeOK /\ OutWatched /\ WatchedWhileConnected /\ ReleasedHasNoTimer

(***************************************************************************)
(* Clients that send, read and close as they like, but do not reset,       *)
(* cannot bring the server down: no assertion fails and no epoll_ctl meets *)
(* a closed descriptor.  (A reset can, see WriteErrorCloses.  An inactivity *)
(* timer that falls due in the batch of its connection's EPOLLOUT leads    *)
(* there as well or, when the main loop has dropped the connection, to     *)
(* what ActiveChannelsExist is about.)                                     *)
(***************************************************************************)
ServerStays ==
  config.timeout = 0 /\ (\A c \in Conns : ~conn[c].rst) =>
    down \notin {"exit", "abort", "killed"}

(***************************************************************************)
(* A write error closes the connection ("写错误，先处理接收缓冲区中的数据，  *)
(* 然后关闭连接", server.hpp:1172), and not the whole server.              *)
(***************************************************************************)
WriteErrorCloses == down # "exit"

(***************************************************************************)
(* _active_channel holds channels that have events ("有事件发生的 channel",  *)
(* server.hpp:983): each still exists when its turn comes.                 *)
(***************************************************************************)
ActiveChannelsExist == down # "dangling"

(***************************************************************************)
(* A released connection leaves _conns (otherwise it would never be freed).*)
(***************************************************************************)
ReleasedIsForgotten ==
  \A c \in Conns : conn[c].status = "DISCONNECTED" ~> c \notin conns \/ down # "up"

(***************************************************************************)
(* The connection of a client that is gone is released.                    *)
(***************************************************************************)
ResetIsReleased ==
  \A c \in Conns : conn[c].rst ~> conn[c].status = "DISCONNECTED" \/ down # "up"

(***************************************************************************)
(* What is put into _out_buffer is sent, unless the client closes first or *)
(* the inactivity timer may release the connection.                        *)
(***************************************************************************)
OutIsSent ==
  config.timeout = 0 => \A c \in Conns :
    conn[c].out > 0 ~> conn[c].out = 0 \/ conn[c].fin \/ conn[c].rst \/ down # "up"

(***************************************************************************)
(* EnableInactiveRelease: the connection of a client that falls silent is  *)
(* released, unless the client has closed its side.  (A client sends       *)
(* a bounded number of bytes, so each falls silent.)                       *)
(***************************************************************************)
IdleIsReleased ==
  config.timeout > 0 => \A c \in Conns :
    Made(c) ~> conn[c].status = "DISCONNECTED" \/ conn[c].fin \/ down # "up"

(***************************************************************************)
(* ShutDown ends in a closed connection, unless the client has closed its  *)
(* side (ShutDownCompletes is what the code says without that condition).  *)
(***************************************************************************)
OrderlyShutDownCompletes ==
  \A c \in Conns :
    conn[c].status = "DISCONNECTING" ~>
      conn[c].status = "DISCONNECTED" \/ conn[c].fin \/ down # "up"

(***************************************************************************)
(* ShutDown "处理完，在关闭" (server.hpp:1358): once the buffers are dealt   *)
(* with, the connection is closed.                                         *)
(***************************************************************************)
ShutDownCompletes ==
  \A c \in Conns : conn[c].status = "DISCONNECTING" ~> conn[c].status = "DISCONNECTED" \/ down # "up"

(***************************************************************************)
(* No connection is released with something in its _out_buffer             *)
(* (server.hpp:1358), unless the client has reset it or its inactivity     *)
(* timer is due.                                                           *)
(***************************************************************************)
ReleasedWhenFlushed ==
  [][\A c \in Conns :
       conn[c].status # "DISCONNECTED" /\ conn'[c].status = "DISCONNECTED" =>
         conn[c].rst \/ conn[c].timer = 1 \/ conn'[c].out = 0]_vars
=============================================================================
