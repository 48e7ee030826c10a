--------------------------- MODULE ReactorProofs ---------------------------
(***************************************************************************)
(* Proofs about Reactor, for any set of connections, any number of loops   *)
(* and any scenarios.  First what each handler makes of one connection;    *)
(* then the invariant IInv, which each action keeps; then the properties   *)
(* that follow from it.                                                    *)
(***************************************************************************)
EXTENDS Reactor, FiniteSetTheorems, SequenceTheorems, TLAPS

\* The connection has been established, at least once.
Started(k) == k.status \in {"CONNECTED", "DISCONNECTING", "DISCONNECTED"}

\* What is true of a connection in scenario s, whatever becomes of the process.
Sane(s, k) ==
  /\ k \in Connection
  /\ k.reg => k.open
  /\ k.status = "DISCONNECTED" => ~k.open
  /\ k.told => ~k.open
  /\ k.in + k.recvq <= k.sent /\ k.sent <= s.sends
  /\ k.timer <= s.timeout
  /\ s.threads = 0 => (k.status = "DISCONNECTED" => k.timer = 0)

\* The phases of a connection between two steps: not accepted yet, accepted and not
\* yet established, in the epoll, released.
Waiting(k) ==
  /\ k.status \in {"NEW", "BACKLOG"} /\ ~k.open /\ ~k.reg /\ k.ev = {}
  /\ k.in = 0 /\ k.out = 0 /\ k.got = 0 /\ k.closed = 0 /\ k.timer = 0

Accepted(k) ==
  /\ k.status = "CONNECTING" /\ k.open /\ ~k.reg /\ k.ev = {}
  /\ k.in = 0 /\ k.out = 0 /\ k.closed = 0

Live(k) ==
  /\ k.status \in {"CONNECTED", "DISCONNECTING"} /\ k.open /\ k.reg
  /\ "OUT" \in k.ev <=> k.out > 0

Released(k) ==
  k.status = "DISCONNECTED" /\ ~k.open /\ ~k.reg /\ k.ev = {} /\ k.recvq = 0

InPhase(k) == Waiting(k) \/ Accepted(k) \/ Live(k) \/ Released(k)

-----------------------------------------------------------------------------
(* What the handlers make of a connection. *)

\* What neither the application's callback nor what it sends changes.
Alike(k, j) ==
  /\ j.open = k.open /\ j.recvq = k.recvq /\ j.sent = k.sent /\ j.got = k.got
  /\ j.lost = k.lost /\ j.fin = k.fin /\ j.rst = k.rst /\ j.rev = k.rev
  /\ j.timer = k.timer /\ j.closed = k.closed /\ j.told = k.told

\* EPOLLOUT is asked for, which ends the process when the descriptor is closed.
Watched(k, j) ==
  /\ "OUT" \in j.ev
  /\ "OUT" \in k.ev => j.ev = k.ev /\ j.reg = k.reg /\ j.fate = k.fate
  /\ "OUT" \notin k.ev /\ k.open => j.reg /\ j.fate = k.fate
  /\ "OUT" \notin k.ev /\ ~k.open => j.reg = k.reg /\ j.fate = "exit"

\* n bytes more are to be sent.
Queueing(k, j, n) ==
  /\ j \in Connection /\ Alike(k, j) /\ Watched(k, j)
  /\ j.status = k.status /\ j.in = k.in /\ j.out = k.out + n

\* EPOLLOUT is not asked for any more.
Unwatched(k, j) ==
  /\ j \in Connection /\ Alike(k, j)
  /\ j.status = k.status /\ j.in = k.in /\ j.out = k.out /\ "OUT" \notin j.ev
  /\ k.open => j.reg /\ j.fate = k.fate
  /\ ~k.open => j.reg = k.reg /\ j.fate = "exit"

\* The connection is released.
Gone(k, j) ==
  /\ j \in Connection
  /\ j.status = "DISCONNECTED" /\ ~j.open /\ ~j.reg /\ j.ev = {} /\ j.timer = 0
  /\ j.told /\ j.recvq = 0
  /\ j.in = k.in /\ j.out = k.out /\ j.rev = k.rev /\ j.fate = k.fate
  /\ j.sent = k.sent /\ j.got = k.got /\ j.lost = k.lost /\ j.fin = k.fin /\ j.rst = k.rst
  /\ j.closed = IF k.closed < 2 THEN k.closed + 1 ELSE k.closed

(***************************************************************************)
(* ReleaseInLoop closes the descriptor and takes the channel out of epoll. *)
(***************************************************************************)
LEMMA ReleaseGone ==
  ASSUME NEW k \in Connection
  PROVE  Gone(k, ReleaseInLoop(k))
<1> DEFINE a == k.inact /\ k.timer = 0
           n == IF k.closed < 2 THEN k.closed + 1 ELSE k.closed
           j == [k EXCEPT !.status = "DISCONNECTED", !.ev = {}, !.reg = FALSE,
                          !.open = FALSE, !.recvq = 0, !.inact = a, !.timer = 0,
                          !.closed = n, !.told = TRUE]
<1>1. ReleaseInLoop(k) = j
  BY Zenon DEF ReleaseInLoop
<1>2. j \in Connection
  <2>1. a \in BOOLEAN
    OBVIOUS
  <2>2. n \in 0 .. 2
    BY SMT DEF Connection
  <2>3. 0 \in Nat /\ "DISCONNECTED" \in Statuses
    BY DEF Statuses
  <2> HIDE DEF a, n
  <2> QED BY <2>1, <2>2, <2>3, Zenon DEF Connection
<1>3. /\ j.status = "DISCONNECTED" /\ ~j.open /\ ~j.reg /\ j.ev = {} /\ j.timer = 0
      /\ j.told /\ j.recvq = 0
      /\ j.in = k.in /\ j.out = k.out /\ j.rev = k.rev /\ j.fate = k.fate
      /\ j.sent = k.sent /\ j.got = k.got /\ j.lost = k.lost /\ j.fin = k.fin
      /\ j.rst = k.rst /\ j.closed = n
  <2> HIDE DEF a, n
  <2> QED BY SMT DEF Connection
<1> HIDE DEF j
<1> QED BY <1>1, <1>2, <1>3, Zenon DEF Gone

\* UpdateEvent registers the channel, or ends the process.
LEMMA UpdateEventFields ==
  ASSUME NEW k \in Connection, NEW e \in SUBSET {"IN", "OUT"},
         NEW j, j = UpdateEvent([k EXCEPT !.ev = e])
  PROVE  /\ j \in Connection /\ Alike(k, j)
         /\ j.status = k.status /\ j.in = k.in /\ j.out = k.out /\ j.ev = e
         /\ k.open => j.reg /\ j.fate = k.fate
         /\ ~k.open => j.reg = k.reg /\ j.fate = "exit"
<1> DEFINE i == [k EXCEPT !.ev = e]
           up == [i EXCEPT !.reg = TRUE]
           failed == [i EXCEPT !.fate = "exit"]
<1>1. j = IF k.open THEN up ELSE failed
  <2>1. i.open = k.open
    BY SMT DEF Connection
  <2> QED BY <2>1, Zenon DEF UpdateEvent
<1>2. up \in Connection /\ failed \in Connection
  <2>1. "exit" \in Fates
    BY DEF Fates
  <2> QED BY <2>1, Zenon DEF Connection
<1>3. /\ Alike(k, up) /\ up.status = k.status /\ up.in = k.in /\ up.out = k.out
      /\ up.ev = e /\ up.fate = k.fate /\ up.reg = TRUE
  BY SMT DEF Connection, Alike
<1>4. /\ Alike(k, failed) /\ failed.status = k.status /\ failed.in = k.in
      /\ failed.out = k.out /\ failed.ev = e /\ failed.fate = "exit" /\ failed.reg = k.reg
  BY SMT DEF Connection, Alike
<1> HIDE DEF up, failed
<1> QED BY <1>1, <1>2, <1>3, <1>4, Zenon

\* EnableWrite, where it is called.
LEMMA EnableWriteWatches ==
  ASSUME NEW k \in Connection, "OUT" \notin k.ev
  PROVE  Queueing(k, EnableWrite(k), 0)
<1> DEFINE e == k.ev \cup {"OUT"}  j == EnableWrite(k)
<1>1. e \in SUBSET {"IN", "OUT"} /\ j = UpdateEvent([k EXCEPT !.ev = e])
  BY DEF EnableWrite, Connection
<1>2. k.out + 0 = k.out /\ "OUT" \in e
  BY SMT DEF Connection
<1> HIDE DEF e, j
<1>3. Queueing(k, j, 0)
  <2>1. /\ j \in Connection /\ Alike(k, j)
        /\ j.status = k.status /\ j.in = k.in /\ j.out = k.out /\ j.ev = e
        /\ k.open => j.reg /\ j.fate = k.fate
        /\ ~k.open => j.reg = k.reg /\ j.fate = "exit"
    BY <1>1, UpdateEventFields
  <2> QED BY <1>2, <2>1, Zenon DEF Queueing, Watched
<1> QED BY <1>3 DEF j

\* DisableWrite takes EPOLLOUT away, and registers a channel that was not in the epoll.
LEMMA DisableWriteUnwatches ==
  ASSUME NEW k \in Connection
  PROVE  Unwatched(k, DisableWrite(k))
<1> DEFINE e == k.ev \ {"OUT"}  j == DisableWrite(k)
<1>1. e \in SUBSET {"IN", "OUT"} /\ j = UpdateEvent([k EXCEPT !.ev = e])
  BY DEF DisableWrite, Connection
<1>2. "OUT" \notin e
  OBVIOUS
<1> HIDE DEF e, j
<1>3. Unwatched(k, j)
  <2>1. /\ j \in Connection /\ Alike(k, j)
        /\ j.status = k.status /\ j.in = k.in /\ j.out = k.out /\ j.ev = e
        /\ k.open => j.reg /\ j.fate = k.fate
        /\ ~k.open => j.reg = k.reg /\ j.fate = "exit"
    BY <1>1, UpdateEventFields
  <2> QED BY <1>2, <2>1, Zenon DEF Unwatched
<1> QED BY <1>3 DEF j

(***************************************************************************)
(* SendInLoop leaves EPOLLOUT asked for.                                   *)
(***************************************************************************)
LEMMA SendQueues ==
  ASSUME NEW k \in Connection, NEW n \in Nat, k.status # "DISCONNECTED"
  PROVE  Queueing(k, SendInLoop(k, n), n)
<1> DEFINE m == k.out + n
           i == [k EXCEPT !.out = m]
<1>1. m \in Nat
  BY SMT DEF Connection
<1>2. i \in Connection
  <2> HIDE DEF m
  <2> QED BY <1>1, Zenon DEF Connection
<1>3. /\ Alike(k, i) /\ i.status = k.status /\ i.in = k.in /\ i.out = m
      /\ i.ev = k.ev /\ i.reg = k.reg /\ i.fate = k.fate
  <2> HIDE DEF m
  <2> QED BY SMT DEF Connection, Alike
<1>4. SendInLoop(k, n) = IF "OUT" \in i.ev THEN i ELSE EnableWrite(i)
  BY Zenon DEF SendInLoop
<1> HIDE DEF i
<1>5. CASE "OUT" \in k.ev
  BY <1>2, <1>3, <1>4, <1>5, Zenon DEF Queueing, Watched
<1>6. CASE "OUT" \notin k.ev
  <2> DEFINE j == EnableWrite(i)
  <2>1. SendInLoop(k, n) = j
    BY <1>3, <1>4, <1>6
  <2>2. Queueing(i, j, 0)
    BY <1>2, <1>3, <1>6, EnableWriteWatches
  <2>3. j.out = m
    <3>1. j.out = i.out + 0 BY <2>2 DEF Queueing
    <3> HIDE DEF j, m
    <3> QED BY <3>1, <1>1, <1>3, SMT
  <2> HIDE DEF j, m
  <2>4. Queueing(k, j, n)
    BY <1>3, <2>2, <2>3, <1>6, Zenon DEF Queueing, Watched, Alike, m
  <2> QED BY <2>1, <2>4
<1> QED BY <1>5, <1>6

(***************************************************************************)
(* FlushOrRelease releases if there is nothing to send, and otherwise      *)
(* leaves EPOLLOUT asked for.                                              *)
(***************************************************************************)
LEMMA FlushCases ==
  ASSUME NEW k \in Connection, NEW j, j = FlushOrRelease(k)
  PROVE  (k.out = 0 /\ Gone(k, j)) \/ (k.out # 0 /\ Queueing(k, j, 0))
<1>1. CASE k.out = 0
  BY <1>1, ReleaseGone DEF FlushOrRelease
<1>2. CASE k.out # 0 /\ "OUT" \in k.ev
  <2>1. j = k /\ k.out + 0 = k.out
    BY <1>2, SMT DEF FlushOrRelease, Connection
  <2> QED BY <1>2, <2>1, Zenon DEF Queueing, Watched, Alike
<1>3. CASE k.out # 0 /\ "OUT" \notin k.ev
  BY <1>3, EnableWriteWatches DEF FlushOrRelease
<1> QED BY <1>1, <1>2, <1>3

\* What follows in the same handler: what is over stays so.
Sequel(k, j) ==
  /\ j \in Connection
  /\ j.open => k.open
  /\ j.sent = k.sent /\ j.fin = k.fin /\ j.rst = k.rst /\ j.rev = k.rev
  /\ j.in + j.recvq <= k.in + k.recvq
  /\ Started(k) => Started(j)
  /\ (k.reg => k.open) => (j.reg => j.open)
  /\ (k.told => ~k.open) => (j.told => ~j.open)
  /\ (k.status = "DISCONNECTED" => ~k.open) => (j.status = "DISCONNECTED" => ~j.open)
  /\ (k.status = "DISCONNECTED" => k.timer = 0) => (j.status = "DISCONNECTED" => j.timer = 0)
  /\ k.timer <= config.timeout => j.timer <= config.timeout

\* config.timeout is a number, which TypeOK says.
LEMMA SequelTransitive ==
  ASSUME NEW i \in Connection, NEW k, NEW j, Sequel(i, k), Sequel(k, j)
  PROVE  Sequel(i, j)
<1>1. j.in + j.recvq <= i.in + i.recvq
  BY SMT DEF Sequel, Connection
<1> QED BY <1>1, Zenon DEF Sequel

\* A connection that is left alone keeps all of it.
LEMMA SequelReflexive ==
  ASSUME NEW k \in Connection PROVE Sequel(k, k)
<1>1. k.in + k.recvq <= k.in + k.recvq
  BY SMT DEF Connection
<1> QED BY <1>1, Zenon DEF Sequel

\* So does one that only queues, consumes or changes what it watches.
LEMMA AlikeSequel ==
  ASSUME NEW k \in Connection, NEW j \in Connection, Alike(k, j), j.in <= k.in,
         j.status = k.status \/ j.status = "DISCONNECTING", j.reg => k.reg \/ k.open
  PROVE  Sequel(k, j)
<1>1. j.in + j.recvq <= k.in + k.recvq
  <2>1. j.recvq = k.recvq
    BY DEF Alike
  <2> QED BY <2>1, SMT DEF Connection
<1> QED BY <1>1, Zenon DEF Sequel, Alike, Started

\* Sending and releasing are such.
LEMMA QueueingSequel ==
  ASSUME NEW k \in Connection, NEW j, NEW n, Queueing(k, j, n) \/ Unwatched(k, j)
  PROVE  Sequel(k, j)
<1>1. /\ j \in Connection /\ Alike(k, j) /\ j.status = k.status /\ j.in = k.in
      /\ j.reg => k.reg \/ k.open
  BY Zenon DEF Queueing, Unwatched, Watched
<1>2. j.in <= k.in
  BY <1>1, SMT DEF Connection
<1> QED BY <1>1, <1>2, AlikeSequel

\* So does ReleaseInLoop.
LEMMA GoneSequel ==
  ASSUME NEW k \in Connection, NEW j, Gone(k, j), config.timeout \in Nat
  PROVE  Sequel(k, j)
<1>1. j.in + j.recvq <= k.in + k.recvq
  <2>1. j.in = k.in /\ j.recvq = 0
    BY DEF Gone
  <2> QED BY <2>1, SMT DEF Connection
<1>2. j.timer <= config.timeout
  BY SMT DEF Gone
<1> QED BY <1>1, <1>2, Zenon DEF Sequel, Gone, Started

\* So does SendInLoop.
LEMMA SendSequel ==
  ASSUME NEW k \in Connection, NEW n \in Nat
  PROVE  Sequel(k, SendInLoop(k, n))
<1>1. CASE k.status = "DISCONNECTED"
  BY <1>1, SequelReflexive DEF SendInLoop
<1>2. CASE k.status # "DISCONNECTED"
  BY <1>2, SendQueues, QueueingSequel
<1> QED BY <1>1, <1>2

\* So does the end of ShutDownInLoop.
LEMMA FlushSequel ==
  ASSUME NEW k \in Connection, config.timeout \in Nat
  PROVE  Sequel(k, FlushOrRelease(k))
BY FlushCases, GoneSequel, QueueingSequel

\* Reading and consuming only move or drop bytes.
LEMMA InLowered ==
  ASSUME NEW k \in Connection, NEW n \in Nat, n <= k.in
  PROVE  LET j == [k EXCEPT !.in = n]
         IN  /\ j \in Connection /\ Alike(k, j) /\ j.status = k.status /\ j.in = n
             /\ j.out = k.out /\ j.ev = k.ev /\ j.reg = k.reg /\ j.fate = k.fate
             /\ Sequel(k, j)
<1> DEFINE j == [k EXCEPT !.in = n]
<1>1. j \in Connection
  BY Zenon DEF Connection
<1>2. /\ Alike(k, j) /\ j.status = k.status /\ j.in = n
      /\ j.out = k.out /\ j.ev = k.ev /\ j.reg = k.reg /\ j.fate = k.fate
  BY SMT DEF Connection, Alike
<1>3. Sequel(k, j)
  <2> HIDE DEF j
  <2>1. j.in <= k.in
    BY <1>2, SMT DEF Connection
  <2> QED BY <1>1, <1>2, <2>1, AlikeSequel
<1> QED BY <1>1, <1>2, <1>3

\* ShutDownInLoop's first assignment, _status = DISCONNECTING.
LEMMA MarkedDisconnecting ==
  ASSUME NEW k \in Connection
  PROVE  LET j == [k EXCEPT !.status = "DISCONNECTING"]
         IN  /\ j \in Connection /\ Alike(k, j) /\ j.status = "DISCONNECTING" /\ j.in = k.in
             /\ j.out = k.out /\ j.ev = k.ev /\ j.reg = k.reg /\ j.fate = k.fate
             /\ Sequel(k, j)
<1> DEFINE j == [k EXCEPT !.status = "DISCONNECTING"]
<1>1. j \in Connection
  <2>1. "DISCONNECTING" \in Statuses
    BY DEF Statuses
  <2> QED BY <2>1, Zenon DEF Connection
<1>2. /\ Alike(k, j) /\ j.status = "DISCONNECTING" /\ j.in = k.in
      /\ j.out = k.out /\ j.ev = k.ev /\ j.reg = k.reg /\ j.fate = k.fate
  BY SMT DEF Connection, Alike
<1>3. Sequel(k, j)
  <2> HIDE DEF j
  <2>1. j.in <= k.in
    BY <1>2, SMT DEF Connection
  <2> QED BY <1>1, <1>2, <2>1, AlikeSequel
<1> QED BY <1>1, <1>2, <1>3

(***************************************************************************)
(* The application's callback: EchoServer's and HttpServer's.              *)
(***************************************************************************)
LEMMA MessCbSequel ==
  ASSUME NEW k \in Connection, config.timeout \in Nat, NEW j \in MessCb(k)
  PROVE  Sequel(k, j)
<1>1. CASE config.app = "echo"
  <2> DEFINE i == [k EXCEPT !.in = 0]
  <2>1. j = SendInLoop(i, k.in)
    BY <1>1, Zenon DEF MessCb
  <2>2. i \in Connection /\ Sequel(k, i)
    <3>1. 0 <= k.in
      BY SMT DEF Connection
    <3> QED BY <3>1, InLowered
  <2>3. k.in \in Nat
    BY DEF Connection
  <2> HIDE DEF i
  <2>4. Sequel(i, j)
    BY <2>1, <2>2, <2>3, SendSequel
  <2> QED BY <2>2, <2>4, SequelTransitive
<1>2. CASE config.app # "echo"
  <2>1. ASSUME NEW n \in 0 .. k.in, j = [k EXCEPT !.in = n] PROVE Sequel(k, j)
    <3>1. n \in Nat /\ n <= k.in
      BY SMT DEF Connection
    <3> QED BY <2>1, <3>1, InLowered
  <2>2. ASSUME NEW n \in 0 .. k.in - 1
        PROVE  LET s == SendInLoop([k EXCEPT !.in = n], 1)
               IN  s \in Connection /\ Sequel(k, s)
    <3> DEFINE i == [k EXCEPT !.in = n]
               s == SendInLoop(i, 1)
    <3>1. n \in Nat /\ n <= k.in
      BY SMT DEF Connection
    <3>2. i \in Connection /\ Sequel(k, i)
      BY <3>1, InLowered
    <3> HIDE DEF i
    <3>3. Sequel(i, s)
      BY <3>2, SendSequel
    <3>4. s \in Connection /\ Sequel(k, s)
      BY <3>2, <3>3, SequelTransitive DEF Sequel
    <3> QED BY <3>4 DEF i
  <2>3. ASSUME NEW n \in 0 .. k.in - 1,
               j = FlushOrRelease([SendInLoop([k EXCEPT !.in = n], 1)
                                     EXCEPT !.status = "DISCONNECTING"])
        PROVE  Sequel(k, j)
    <3> DEFINE s == SendInLoop([k EXCEPT !.in = n], 1)
               d == [s EXCEPT !.status = "DISCONNECTING"]
    <3>1. s \in Connection /\ Sequel(k, s)
      BY <2>2
    <3>2. j = FlushOrRelease(d)
      BY <2>3
    <3> HIDE DEF s
    <3>3. d \in Connection /\ Sequel(s, d)
      BY <3>1, MarkedDisconnecting
    <3> HIDE DEF d
    <3>4. Sequel(d, j)
      BY <3>2, <3>3, FlushSequel
    <3>5. Sequel(k, d)
      BY <3>1, <3>3, SequelTransitive
    <3> QED BY <3>4, <3>5, SequelTransitive
  <2>4. \/ \E n \in 0 .. k.in : j = [k EXCEPT !.in = n]
        \/ \E n \in 0 .. k.in - 1 : j = SendInLoop([k EXCEPT !.in = n], 1)
        \/ \E n \in 0 .. k.in - 1 :
             j = FlushOrRelease([SendInLoop([k EXCEPT !.in = n], 1)
                                   EXCEPT !.status = "DISCONNECTING"])
    BY <1>2, Zenon DEF MessCb
  <2> QED BY <2>1, <2>2, <2>3, <2>4
<1> QED BY <1>1, <1>2

\* The callback that HandleClose and ShutDownInLoop call when bytes are left.
LEMMA BufferedSequel ==
  ASSUME NEW k \in Connection, config.timeout \in Nat, NEW j \in HandleBuffered(k)
  PROVE  Sequel(k, j)
<1>1. j = k \/ j \in MessCb(k)
  BY DEF HandleBuffered
<1> QED BY <1>1, MessCbSequel, SequelReflexive

\* ShutDownInLoop.
LEMMA ShutDownSequel ==
  ASSUME NEW k \in Connection, config.timeout \in Nat, NEW j \in ShutDownInLoop(k)
  PROVE  Sequel(k, j)
<1> DEFINE d == [k EXCEPT !.status = "DISCONNECTING"]
<1>1. PICK b \in HandleBuffered(d) : j = FlushOrRelease(b)
  BY Zenon DEF ShutDownInLoop
<1>2. d \in Connection /\ Sequel(k, d)
  BY MarkedDisconnecting
<1> HIDE DEF d
<1>3. Sequel(d, b)
  BY <1>2, BufferedSequel
<1>4. b \in Connection /\ Sequel(k, b)
  BY <1>2, <1>3, SequelTransitive DEF Sequel
<1> QED BY <1>1, <1>4, FlushSequel, SequelTransitive

\* HandleRead: a chunk or the end of the stream, then the callback.
LEMMA ReadSequel ==
  ASSUME NEW k \in Connection, config.timeout \in Nat, NEW j \in HandleRead(k)
  PROVE  Sequel(k, j)
<1>1. CASE j = k
  BY <1>1, SequelReflexive
<1>2. CASE j \in ShutDownInLoop(k)
  BY <1>2, ShutDownSequel
<1>3. CASE j \in MessCb([k EXCEPT !.in = @ + k.recvq, !.recvq = 0])
  <2> DEFINE n == k.in + k.recvq
             i == [k EXCEPT !.in = n, !.recvq = 0]
  <2>1. n \in Nat /\ 0 \in Nat
    BY SMT DEF Connection
  <2>2. j \in MessCb(i)
    BY <1>3
  <2> HIDE DEF n
  <2>3. i \in Connection
    BY <2>1, Zenon DEF Connection
  <2>4. /\ i.in = n /\ i.recvq = 0 /\ i.open = k.open /\ i.sent = k.sent /\ i.fin = k.fin
        /\ i.rst = k.rst /\ i.rev = k.rev /\ i.status = k.status /\ i.reg = k.reg
        /\ i.told = k.told /\ i.timer = k.timer
    BY <2>1, SMT DEF Connection
  <2> HIDE DEF i
  <2>5. i.in + i.recvq <= k.in + k.recvq
    BY <2>1, <2>4, SMT DEF n
  <2>6. Sequel(k, i)
    BY <2>3, <2>4, <2>5, Zenon DEF Sequel, Started
  <2>7. Sequel(i, j)
    BY <2>2, <2>3, MessCbSequel
  <2> QED BY <2>6, <2>7, SequelTransitive
<1> QED BY <1>1, <1>2, <1>3, Zenon DEF HandleRead

\* HandleClose: the callback on what is left, then the release.
LEMMA CloseSequel ==
  ASSUME NEW k \in Connection, config.timeout \in Nat, NEW j \in HandleClose(k)
  PROVE  Sequel(k, j)
<1>1. PICK b \in HandleBuffered(k) : j = ReleaseInLoop(b)
  BY Zenon DEF HandleClose
<1>2. b \in Connection /\ Sequel(k, b)
  BY BufferedSequel DEF Sequel
<1>3. Sequel(b, j)
  BY <1>1, <1>2, ReleaseGone, GoneSequel
<1> QED BY <1>2, <1>3, SequelTransitive

\* The end of HandleWrite, when everything was sent.
LEMMA WriteDoneSequel ==
  ASSUME NEW k \in Connection, config.timeout \in Nat
  PROVE  Sequel(k, WriteDone(k))
<1> DEFINE d == DisableWrite(k)
<1>1. d \in Connection /\ Sequel(k, d)
  BY DisableWriteUnwatches, QueueingSequel DEF Unwatched
<1>2. Sequel(k, ReleaseInLoop(d))
  <2> HIDE DEF d
  <2>1. Sequel(d, ReleaseInLoop(d))
    BY <1>1, ReleaseGone, GoneSequel
  <2> QED BY <1>1, <2>1, SequelTransitive
<1>3. WriteDone(k) \in {k, d, ReleaseInLoop(d)}
  BY Zenon DEF WriteDone
<1> QED BY <1>1, <1>2, <1>3, SequelReflexive

\* The fields that HandleWrite's pop and its send() change.
LEMMA Popped ==
  ASSUME NEW k \in Connection
  PROVE  LET j == [k EXCEPT !.out = 0]
         IN  /\ j \in Connection /\ Alike(k, j) /\ j.status = k.status /\ j.in = k.in
             /\ j.out = 0 /\ j.ev = k.ev /\ j.reg = k.reg /\ j.fate = k.fate
             /\ Sequel(k, j)
<1> DEFINE j == [k EXCEPT !.out = 0]
<1>1. j \in Connection
  BY Zenon DEF Connection
<1>2. /\ Alike(k, j) /\ j.status = k.status /\ j.in = k.in
      /\ j.out = 0 /\ j.ev = k.ev /\ j.reg = k.reg /\ j.fate = k.fate
  BY SMT DEF Connection, Alike
<1>3. Sequel(k, j)
  <2> HIDE DEF j
  <2>1. j.in <= k.in
    BY <1>2, SMT DEF Connection
  <2> QED BY <1>1, <1>2, <2>1, AlikeSequel
<1> QED BY <1>1, <1>2, <1>3

\* Of n bytes, m are sent: the others are lost.
Accounted(k, j, m, n) ==
  /\ j \in Connection
  /\ j.open = k.open /\ j.recvq = k.recvq /\ j.sent = k.sent /\ j.fin = k.fin
  /\ j.rst = k.rst /\ j.rev = k.rev /\ j.timer = k.timer /\ j.closed = k.closed
  /\ j.told = k.told /\ j.status = k.status /\ j.in = k.in /\ j.out = k.out
  /\ j.ev = k.ev /\ j.reg = k.reg /\ j.fate = k.fate
  /\ j.got = k.got + m /\ (~j.lost => ~k.lost /\ ~(m < n))

\* The result of send(): what the kernel took has left the buffer, and a short write
\* loses the rest.
LEMMA TakenFields ==
  ASSUME NEW k \in Connection, NEW m \in Nat, NEW n \in Nat, NEW r \in BOOLEAN,
         NEW j, j = Taken(k, m, n, r)
  PROVE  Accounted(k, j, m, n) /\ Sequel(k, j)
<1> DEFINE g == k.got + m
           lo == k.lost \/ m < n
           t == [k EXCEPT !.got = g, !.lost = lo, !.room = r]
<1>1. j = t
  BY Zenon DEF Taken
<1>2. g \in Nat
  BY SMT DEF Connection
<1>3. lo \in BOOLEAN
  OBVIOUS
<1>4. t \in Connection
  <2> HIDE DEF g, lo
  <2> QED BY <1>2, <1>3, Zenon DEF Connection
<1>5. /\ t.open = k.open /\ t.recvq = k.recvq /\ t.sent = k.sent
      /\ t.fin = k.fin /\ t.rst = k.rst /\ t.rev = k.rev
      /\ t.timer = k.timer /\ t.closed = k.closed /\ t.told = k.told
      /\ t.status = k.status /\ t.in = k.in
      /\ t.out = k.out /\ t.ev = k.ev /\ t.reg = k.reg /\ t.fate = k.fate
      /\ t.got = g /\ t.lost = lo
  <2> HIDE DEF g, lo
  <2> QED BY SMT DEF Connection
<1> HIDE DEF t
<1>6. Sequel(k, j)
  <2>1. j.in + j.recvq <= k.in + k.recvq
    BY <1>1, <1>5, SMT DEF Connection
  <2> QED BY <1>1, <1>4, <1>5, <2>1, Zenon DEF Sequel, Started
<1> QED BY <1>1, <1>4, <1>5, <1>6, Zenon DEF Accounted

\* The process ends in a handler: nothing else of the connection changes.
LEMMA FateFields ==
  ASSUME NEW k \in Connection, NEW f \in Fates
  PROVE  LET j == [k EXCEPT !.fate = f]
         IN  /\ j \in Connection /\ Alike(k, j) /\ j.status = k.status /\ j.in = k.in
             /\ j.out = k.out /\ j.ev = k.ev /\ j.reg = k.reg /\ j.fate = f
             /\ Sequel(k, j)
<1> DEFINE j == [k EXCEPT !.fate = f]
<1>1. j \in Connection
  BY Zenon DEF Connection
<1>2. /\ Alike(k, j) /\ j.status = k.status /\ j.in = k.in
      /\ j.out = k.out /\ j.ev = k.ev /\ j.reg = k.reg /\ j.fate = f
  BY SMT DEF Connection, Alike
<1>3. Sequel(k, j)
  <2> HIDE DEF j
  <2>1. j.in <= k.in
    BY <1>2, SMT DEF Connection
  <2> QED BY <1>1, <1>2, <2>1, AlikeSequel
<1> QED BY <1>1, <1>2, <1>3

\* Each outcome of send() takes some number of bytes, at most those offered.
LEMMA SentIsTaken ==
  ASSUME NEW k \in Connection, NEW n \in Nat, NEW j \in Sent(k, n)
  PROVE  \E m \in Nat, r \in BOOLEAN : m <= n /\ j = Taken(k, m, n, r)
<1>1. j = Taken(k, n, n, TRUE) \/ \E m \in 1 .. n : j = Taken(k, m, n, FALSE)
  BY Zenon DEF Sent
<1>2. n <= n
  BY SMT
<1>3. \A m \in 1 .. n : m \in Nat /\ m <= n
  BY SMT
<1> QED BY <1>1, <1>2, <1>3, Zenon

\* What HandleWrite makes of k, when p is k with nothing left to send.
Written(k, p, j) ==
  \/ k.out = 0 /\ j = [k EXCEPT !.fate = "abort"]
  \/ /\ k.out # 0 /\ k.open /\ ~k.rst
     /\ \E m \in Nat, r \in BOOLEAN : m <= k.out /\ j = WriteDone(Taken(p, m, k.out, r))
  \/ /\ k.out # 0 /\ ~(k.open /\ ~k.rst)
     /\ \E b \in HandleBuffered(p) : j = WriteDone(ReleaseInLoop(b))
  \/ k.out # 0 /\ k.open /\ k.rst /\ j = [p EXCEPT !.fate = "killed"]

\* HandleWrite's ways out.
LEMMA WriteCases ==
  ASSUME NEW k \in Connection, NEW j \in HandleWrite(k), NEW p, p = [k EXCEPT !.out = 0]
  PROVE  Written(k, p, j)
<1>1. CASE k.out = 0
  BY <1>1, Zenon DEF HandleWrite, Written
<1>2. CASE k.out # 0 /\ k.open /\ ~k.rst
  <2>1. PICK t \in Sent(p, k.out) : j = WriteDone(t)
    BY <1>2, Zenon DEF HandleWrite
  <2>2. p \in Connection /\ k.out \in Nat
    BY Popped DEF Connection
  <2> QED BY <1>2, <2>1, <2>2, SentIsTaken DEF Written
<1>3. CASE k.out # 0 /\ ~(k.open /\ ~k.rst)
  <2>1. \/ \E b \in HandleBuffered(p) : j = WriteDone(ReleaseInLoop(b))
        \/ k.open /\ j = [p EXCEPT !.fate = "killed"]
    BY <1>3, Zenon DEF HandleWrite
  <2> QED BY <1>3, <2>1, Zenon DEF Written
<1> QED BY <1>1, <1>2, <1>3, Zenon

\* HandleWrite.
LEMMA WriteSequel ==
  ASSUME NEW k \in Connection, config.timeout \in Nat, NEW j \in HandleWrite(k)
  PROVE  Sequel(k, j)
<1> PICK p : p = [k EXCEPT !.out = 0]
  OBVIOUS
<1>1. p \in Connection /\ Sequel(k, p)
  BY Popped
<1>2. "abort" \in Fates /\ "killed" \in Fates
  BY DEF Fates
<1>3. CASE j = [k EXCEPT !.fate = "abort"]
  BY <1>2, <1>3, FateFields
<1>4. CASE j = [p EXCEPT !.fate = "killed"]
  <2>1. Sequel(p, j)
    BY <1>1, <1>2, <1>4, FateFields
  <2> QED BY <1>1, <2>1, SequelTransitive
<1>5. ASSUME NEW m \in Nat, NEW r \in BOOLEAN, j = WriteDone(Taken(p, m, k.out, r))
      PROVE  Sequel(k, j)
  <2> DEFINE t == Taken(p, m, k.out, r)
  <2>1. k.out \in Nat
    BY DEF Connection
  <2>2. t \in Connection /\ Sequel(p, t)
    BY <1>1, <2>1, TakenFields DEF Accounted
  <2>3. j = WriteDone(t)
    BY <1>5
  <2> HIDE DEF t
  <2>4. Sequel(t, j)
    BY <2>2, <2>3, WriteDoneSequel
  <2>5. Sequel(p, j)
    BY <1>1, <2>2, <2>4, SequelTransitive
  <2> QED BY <1>1, <2>5, SequelTransitive
<1>6. ASSUME NEW b \in HandleBuffered(p), j = WriteDone(ReleaseInLoop(b))
      PROVE  Sequel(k, j)
  <2> DEFINE g == ReleaseInLoop(b)
  <2>1. b \in Connection /\ Sequel(p, b)
    BY <1>1, <1>6, BufferedSequel, ZenonT(60) DEF Sequel
  <2>2. g \in Connection /\ Sequel(b, g)
    BY <2>1, ReleaseGone, GoneSequel DEF Gone
  <2>3. j = WriteDone(g)
    BY <1>6
  <2> HIDE DEF g
  <2>4. Sequel(g, j)
    BY <2>2, <2>3, WriteDoneSequel
  <2>5. Sequel(k, b)
    BY <1>1, <2>1, SequelTransitive
  <2>6. Sequel(k, g)
    BY <2>2, <2>5, SequelTransitive
  <2> QED BY <2>4, <2>6, SequelTransitive
<1>7. Written(k, p, j)
  BY WriteCases
<1> QED BY <1>3, <1>4, <1>5, <1>6, <1>7, Zenon DEF Written

\* A channel event refreshes the inactivity timer, if there is one.
LEMMA AnyEventFields ==
  ASSUME NEW k \in Connection, config.timeout \in Nat
  PROVE  LET j == HandleAnyEvent(k)
         IN  /\ j \in Connection
             /\ j.open = k.open /\ j.recvq = k.recvq /\ j.sent = k.sent /\ j.got = k.got
             /\ j.lost = k.lost /\ j.fin = k.fin /\ j.rst = k.rst /\ j.rev = k.rev
             /\ j.closed = k.closed /\ j.told = k.told /\ j.status = k.status
             /\ j.in = k.in /\ j.out = k.out /\ j.ev = k.ev /\ j.reg = k.reg
             /\ j.fate = k.fate
             /\ Sequel(k, j)
<1> DEFINE j == [k EXCEPT !.timer = config.timeout]
<1>1. CASE HandleAnyEvent(k) = k
  BY <1>1, SequelReflexive
<1>2. CASE HandleAnyEvent(k) = j /\ k.timer > 0
  <2>1. j \in Connection
    BY Zenon DEF Connection
  <2>2. /\ j.open = k.open /\ j.recvq = k.recvq /\ j.sent = k.sent /\ j.got = k.got
        /\ j.lost = k.lost /\ j.fin = k.fin /\ j.rst = k.rst /\ j.rev = k.rev
        /\ j.closed = k.closed /\ j.told = k.told /\ j.status = k.status
        /\ j.in = k.in /\ j.out = k.out /\ j.ev = k.ev /\ j.reg = k.reg
        /\ j.fate = k.fate /\ j.timer = config.timeout
    BY SMT DEF Connection
  <2> HIDE DEF j
  <2>3. j.in + j.recvq <= k.in + k.recvq
    BY <2>2, SMT DEF Connection
  <2>4. config.timeout <= config.timeout /\ k.timer # 0
    BY <1>2, SMT DEF Connection
  <2>5. Sequel(k, j)
    BY <2>1, <2>2, <2>3, <2>4, Zenon DEF Sequel, Started
  <2> QED BY <1>2, <2>1, <2>2, <2>5, Zenon
<1>3. HandleAnyEvent(k) = k \/ (HandleAnyEvent(k) = j /\ k.timer > 0)
  BY Zenon DEF HandleAnyEvent
<1> QED BY <1>1, <1>2, <1>3

(***************************************************************************)
(* Whatever the events of a channel, its handlers close what they close    *)
(* for good.                                                               *)
(***************************************************************************)
LEMMA HandlersSequel ==
  ASSUME NEW k \in Connection, config.timeout \in Nat, NEW j \in HandleEvents(k)
  PROVE  Sequel(k, j)
<1> DEFINE a == HandleAnyEvent(k)
<1>1. a \in Connection /\ Sequel(k, a)
  BY AnyEventFields
<1>2. j \in HandleClose(a) \/ j \in HandleRead(a) \/ j \in HandleWrite(a) \/ j = a
  BY DEF HandleEvents
<1> HIDE DEF a
<1>3. Sequel(a, j)
  BY <1>1, <1>2, CloseSequel, ReadSequel, WriteSequel, SequelReflexive
<1> QED BY <1>1, <1>3, SequelTransitive

\* Established for a connection that is accepted, and for any other.
LEMMA EstablishedFields ==
  ASSUME NEW k \in Connection, NEW j, j = EstablishedInLoop(k)
  PROVE  /\ j \in Connection /\ Alike(k, j) /\ j.in = k.in /\ j.out = k.out
         /\ k.status # "CONNECTING" =>
              j.status = k.status /\ j.ev = k.ev /\ j.reg = k.reg /\ j.fate = "abort"
         /\ k.status = "CONNECTING" =>
              /\ j.status = "CONNECTED" /\ j.ev = k.ev \cup {"IN"}
              /\ k.open => j.reg /\ j.fate = k.fate
              /\ ~k.open => j.reg = k.reg /\ j.fate = "exit"
<1>1. CASE k.status # "CONNECTING"
  <2>1. j = [k EXCEPT !.fate = "abort"] /\ "abort" \in Fates
    BY <1>1 DEF EstablishedInLoop, Fates
  <2> QED BY <1>1, <2>1, FateFields
<1>2. CASE k.status = "CONNECTING"
  <2> DEFINE i == [k EXCEPT !.status = "CONNECTED"]
             e == i.ev \cup {"IN"}
  <2>1. i \in Connection
    <3>1. "CONNECTED" \in Statuses
      BY DEF Statuses
    <3> QED BY <3>1, Zenon DEF Connection
  <2>2. /\ Alike(k, i) /\ i.status = "CONNECTED" /\ i.in = k.in /\ i.out = k.out
        /\ i.ev = k.ev /\ i.reg = k.reg /\ i.fate = k.fate
    BY SMT DEF Connection, Alike
  <2>3. j = EnableRead(i)
    BY <1>2 DEF EstablishedInLoop
  <2> HIDE DEF i
  <2>4. e \in SUBSET {"IN", "OUT"} /\ j = UpdateEvent([i EXCEPT !.ev = e])
    BY <2>1, <2>3 DEF EnableRead, Connection
  <2>5. e = k.ev \cup {"IN"}
    BY <2>2
  <2> HIDE DEF e
  <2>6. /\ j \in Connection /\ Alike(i, j)
        /\ j.status = i.status /\ j.in = i.in /\ j.out = i.out /\ j.ev = e
        /\ i.open => j.reg /\ j.fate = i.fate
        /\ ~i.open => j.reg = i.reg /\ j.fate = "exit"
    BY <2>1, <2>4, UpdateEventFields
  <2> QED BY <1>2, <2>2, <2>5, <2>6, ZenonT(60) DEF Alike
<1> QED BY <1>1, <1>2

-----------------------------------------------------------------------------
(* What the handlers make of a connection that is in the epoll. *)

\* The application's callback on a connection that is not released: it leaves what is
\* to be sent as it is, or adds to it.
Consumed(k, j) ==
  /\ j \in Connection /\ Alike(k, j)
  /\ j.status = k.status \/ j.status = "DISCONNECTING"
  /\ \/ j.out = k.out /\ j.ev = k.ev /\ j.reg = k.reg /\ j.fate = k.fate
     \/ j.out > k.out /\ Watched(k, j)
  /\ config.app = "echo" => j.in = 0 /\ j.out = k.out + k.in

\* EchoServer's OnMessage echoes and clears the buffer; HttpServer's answers, and may
\* ask for a shutdown.
LEMMA MessCbConsumes ==
  ASSUME NEW k \in Connection, k.status # "DISCONNECTED", k.in > 0, NEW j \in MessCb(k)
  PROVE  Consumed(k, j)
<1>1. k.in \in Nat /\ k.out \in Nat
  BY DEF Connection
<1>2. CASE config.app = "echo"
  <2> PICK i : i = [k EXCEPT !.in = 0]
    OBVIOUS
  <2>1. j = SendInLoop(i, k.in)
    BY <1>2, Zenon DEF MessCb
  <2>2. /\ i \in Connection /\ Alike(k, i) /\ i.status = k.status /\ i.in = 0
        /\ i.out = k.out /\ i.ev = k.ev /\ i.reg = k.reg /\ i.fate = k.fate
    BY <1>1, InLowered
  <2>3. Queueing(i, j, k.in)
    BY <1>1, <2>1, <2>2, SendQueues
  <2>4. j.out > k.out /\ j.out = k.out + k.in
    <3>1. j.out = i.out + k.in
      BY <2>3 DEF Queueing
    <3> QED BY <3>1, <1>1, <2>2, SMT
  <2> QED BY <2>2, <2>3, <2>4, ZenonT(60) DEF Consumed, Queueing, Alike, Watched
<1>3. CASE config.app # "echo"
  <2>1. ASSUME NEW n \in 0 .. k.in, j = [k EXCEPT !.in = n] PROVE Consumed(k, j)
    <3>1. n \in Nat /\ n <= k.in
      BY <1>1, SMT
    <3>2. /\ j \in Connection /\ Alike(k, j) /\ j.status = k.status
          /\ j.out = k.out /\ j.ev = k.ev /\ j.reg = k.reg /\ j.fate = k.fate
      BY <2>1, <3>1, InLowered
    <3> QED BY <1>3, <3>2, Zenon DEF Consumed
  <2>2. ASSUME NEW n \in 0 .. k.in - 1
        PROVE  LET s == SendInLoop([k EXCEPT !.in = n], 1)
               IN  /\ s \in Connection /\ Alike(k, s) /\ s.status = k.status
                   /\ s.out > k.out /\ Watched(k, s)
    <3> PICK i : i = [k EXCEPT !.in = n]
      OBVIOUS
    <3> DEFINE s == SendInLoop(i, 1)
    <3>1. n \in Nat /\ n <= k.in
      BY <1>1, SMT
    <3>2. /\ i \in Connection /\ Alike(k, i) /\ i.status = k.status
          /\ i.out = k.out /\ i.ev = k.ev /\ i.reg = k.reg /\ i.fate = k.fate
      BY <3>1, InLowered
    <3>3. Queueing(i, s, 1)
      BY <3>2, SendQueues
    <3>4. s.out > k.out
      <4>1. s.out = i.out + 1
        BY <3>3 DEF Queueing
      <4> HIDE DEF s
      <4> QED BY <4>1, <3>2, <1>1, SMT
    <3>5. s \in Connection /\ Alike(k, s) /\ s.status = k.status /\ Watched(k, s)
      <4> HIDE DEF s
      <4> QED BY <3>2, <3>3, Zenon DEF Queueing, Alike, Watched
    <3> QED BY <3>4, <3>5
  <2>3. ASSUME NEW n \in 0 .. k.in - 1,
               j = FlushOrRelease([SendInLoop([k EXCEPT !.in = n], 1)
                                     EXCEPT !.status = "DISCONNECTING"])
        PROVE  Consumed(k, j)
    <3> PICK s : s = SendInLoop([k EXCEPT !.in = n], 1)
      OBVIOUS
    <3> PICK d : d = [s EXCEPT !.status = "DISCONNECTING"]
      OBVIOUS
    <3>1. /\ s \in Connection /\ Alike(k, s) /\ s.status = k.status
          /\ s.out > k.out /\ Watched(k, s)
      BY <2>2
    <3>2. j = FlushOrRelease(d)
      BY <2>3
    <3>3. /\ d \in Connection /\ Alike(s, d) /\ d.status = "DISCONNECTING"
          /\ d.out = s.out /\ d.ev = s.ev /\ d.reg = s.reg /\ d.fate = s.fate
      BY <3>1, MarkedDisconnecting
    <3>4. d.out # 0 /\ d.out + 0 = d.out
      BY <3>1, <3>3, <1>1, SMT DEF Connection
    <3>5. Queueing(d, j, 0)
      BY <3>2, <3>3, <3>4, FlushCases
    <3>6. j.out > k.out
      BY <3>1, <3>3, <3>4, <3>5, Zenon DEF Queueing
    <3>7. Watched(k, j)
      BY <3>1, <3>3, <3>5, ZenonT(60) DEF Queueing, Watched, Alike
    <3>8. Alike(k, j)
      BY <3>1, <3>3, <3>5, Zenon DEF Queueing, Alike
    <3> QED BY <1>3, <3>3, <3>5, <3>6, <3>7, <3>8, Zenon DEF Consumed, Queueing
  <2>4. \/ \E n \in 0 .. k.in : j = [k EXCEPT !.in = n]
        \/ \E n \in 0 .. k.in - 1 : j = SendInLoop([k EXCEPT !.in = n], 1)
        \/ \E n \in 0 .. k.in - 1 :
             j = FlushOrRelease([SendInLoop([k EXCEPT !.in = n], 1)
                                   EXCEPT !.status = "DISCONNECTING"])
    BY <1>3, Zenon DEF MessCb
  <2>5. ASSUME NEW n \in 0 .. k.in - 1, j = SendInLoop([k EXCEPT !.in = n], 1)
        PROVE  Consumed(k, j)
    BY <1>3, <2>2, <2>5, Zenon DEF Consumed
  <2> QED BY <2>1, <2>3, <2>4, <2>5
<1> QED BY <1>2, <1>3

\* The same where there may be nothing to consume.
LEMMA BufferedConsumes ==
  ASSUME NEW k \in Connection, k.status # "DISCONNECTED", NEW j \in HandleBuffered(k)
  PROVE  Consumed(k, j)
<1>1. k.in \in Nat /\ k.out \in Nat
  BY DEF Connection
<1>2. CASE k.in > 0
  BY <1>2, MessCbConsumes DEF HandleBuffered
<1>3. CASE ~(k.in > 0)
  <2>1. k.in = 0 /\ k.out = k.out + k.in
    BY <1>1, <1>3, SMT
  <2>2. j = k
    BY <1>3 DEF HandleBuffered
  <2> QED BY <2>1, <2>2, Zenon DEF Consumed, Alike
<1> QED BY <1>2, <1>3

\* The bytes a client of the EchoServer has sent, wherever they are.
Conserved(k) ==
  (k.open \/ k.status \in {"NEW", "BACKLOG"}) /\ ~k.rst /\ ~k.lost =>
    k.sent = k.recvq + k.in + k.out + k.got

\* What becomes of a connection in the epoll: it stays there or is released, with
\* nothing left to send and without harm to the process unless the client has reset
\* it (or EPOLLOUT was reported with nothing to send).
Outcome(k, j) ==
  /\ j \in Connection
  /\ j.fate = "up" => Live(j) \/ Released(j)
  /\ j.status = "DISCONNECTED" => j.closed = k.closed \/ j.closed = k.closed + 1
  /\ j.status # "DISCONNECTED" => j.closed = k.closed
  /\ config.app = "echo" /\ k.in = 0 => j.in = 0 /\ (Conserved(k) => Conserved(j))
  /\ ~k.rst /\ "HUP" \notin k.rev =>
       /\ j.status = "DISCONNECTED" => j.out = 0
       /\ ("OUT" \in k.rev => k.out > 0) => j.fate = k.fate

\* The connection stays in the epoll.
Stays(k, j) ==
  /\ j \in Connection /\ Live(j) /\ j.fate = k.fate /\ j.closed = k.closed /\ j.rst = k.rst
  /\ config.app = "echo" => (k.in = 0 => j.in = 0) /\ (Conserved(k) => Conserved(j))

\* A callback leaves the connection in the epoll.
LEMMA ConsumedStays ==
  ASSUME NEW k \in Connection, Live(k), NEW j, Consumed(k, j)
  PROVE  Stays(k, j) /\ (config.app = "echo" => j.in = 0)
<1>1. j.out > 0 <=> "OUT" \in j.ev
  <2>1. CASE j.out = k.out /\ j.ev = k.ev
    BY <2>1 DEF Live
  <2>2. CASE j.out > k.out /\ Watched(k, j)
    <3>1. j.out > 0
      BY <2>2, SMT DEF Connection, Consumed
    <3> QED BY <3>1, <2>2 DEF Watched
  <2> QED BY <2>1, <2>2 DEF Consumed
<1>2. j.reg /\ j.open /\ j.fate = k.fate /\ j.status \in {"CONNECTED", "DISCONNECTING"}
  BY Zenon DEF Consumed, Watched, Live, Alike
<1>3. Live(j)
  BY <1>1, <1>2, Zenon DEF Live
<1>4. config.app = "echo" => j.in = 0 /\ (Conserved(k) => Conserved(j))
  <2> SUFFICES ASSUME config.app = "echo", Conserved(k), j.open, ~j.rst, ~j.lost
               PROVE  j.in = 0 /\ j.sent = j.recvq + j.in + j.out + j.got
    BY <1>2, Zenon DEF Conserved, Consumed
  <2>1. k.open /\ ~k.rst /\ ~k.lost
    BY Zenon DEF Consumed, Alike, Live
  <2>2. k.sent = k.recvq + k.in + k.out + k.got
    BY <2>1, Zenon DEF Conserved
  <2>3. /\ j.in = 0 /\ j.out = k.out + k.in /\ j.recvq = k.recvq /\ j.got = k.got
        /\ j.sent = k.sent
    BY Zenon DEF Consumed, Alike
  <2> QED BY <2>2, <2>3, SMT DEF Connection
<1> QED BY <1>2, <1>3, <1>4, Zenon DEF Stays, Consumed, Alike

\* One handler after another.
LEMMA StaysTransitive ==
  ASSUME NEW i, NEW k, NEW j, Stays(i, k), Stays(k, j)
  PROVE  Stays(i, j)
BY Zenon DEF Stays

\* A handler that returns early.
LEMMA StaysReflexive ==
  ASSUME NEW k \in Connection, Live(k)
  PROVE  Stays(k, k)
BY Zenon DEF Stays

\* A connection that stays is a lawful outcome.
LEMMA StaysOutcome ==
  ASSUME NEW k, NEW j, Stays(k, j)
  PROVE  Outcome(k, j)
<1>1. j.status # "DISCONNECTED"
  BY DEF Stays, Live
<1> QED BY <1>1, Zenon DEF Stays, Outcome

\* A connection that stays may be released when there is nothing left to send.
LEMMA StaysGone ==
  ASSUME NEW k \in Connection, NEW b, NEW j, Stays(k, b), Gone(b, j), b.out = 0 \/ k.rst
  PROVE  Outcome(k, j)
<1>1. /\ j \in Connection /\ Released(j) /\ j.fate = k.fate /\ j.out = b.out
      /\ ~j.open /\ j.status = "DISCONNECTED" /\ j.in = b.in
  BY Zenon DEF Stays, Gone, Released
<1>2. j.closed = k.closed \/ j.closed = k.closed + 1
  BY Zenon DEF Stays, Gone
<1>3. Conserved(j)
  BY <1>1 DEF Conserved
<1> QED BY <1>1, <1>2, <1>3, Zenon DEF Outcome, Stays

\* The end of ShutDownInLoop releases the connection only when its out-buffer is empty.
LEMMA FlushOutcome ==
  ASSUME NEW k \in Connection, NEW b, NEW j, Stays(k, b), j = FlushOrRelease(b)
  PROVE  Outcome(k, j)
<1>1. b \in Connection /\ Live(b)
  BY DEF Stays
<1>2. CASE b.out = 0 /\ Gone(b, j)
  BY <1>2, StaysGone
<1>3. CASE b.out # 0 /\ Queueing(b, j, 0)
  <2>1. b.out + 0 = b.out /\ b.out > 0
    BY <1>1, <1>3, SMT DEF Connection
  <2>2. "OUT" \in b.ev
    BY <1>1, <2>1 DEF Live
  <2>3. /\ j \in Connection /\ Alike(b, j) /\ j.status = b.status /\ j.in = b.in
        /\ j.out = b.out /\ j.ev = b.ev /\ j.reg = b.reg /\ j.fate = b.fate
    BY <1>3, <2>1, <2>2, Zenon DEF Queueing, Watched
  <2>4. Stays(b, j)
    BY <1>1, <2>3, Zenon DEF Stays, Alike, Live, Conserved
  <2> QED BY <2>4, StaysTransitive, StaysOutcome
<1> QED BY <1>1, <1>2, <1>3, FlushCases

\* ShutDownInLoop on a connection in the epoll.
LEMMA ShutDownOutcome ==
  ASSUME NEW k \in Connection, Live(k), NEW j \in ShutDownInLoop(k)
  PROVE  Outcome(k, j)
<1> PICK d : d = [k EXCEPT !.status = "DISCONNECTING"]
  OBVIOUS
<1>1. PICK b \in HandleBuffered(d) : j = FlushOrRelease(b)
  BY Zenon DEF ShutDownInLoop
<1>2. /\ d \in Connection /\ Alike(k, d) /\ d.status = "DISCONNECTING" /\ d.in = k.in
      /\ d.out = k.out /\ d.ev = k.ev /\ d.reg = k.reg /\ d.fate = k.fate
  BY MarkedDisconnecting
<1>3. Stays(k, d)
  BY <1>2, ZenonT(60) DEF Stays, Alike, Live, Conserved
<1>4. Stays(d, b)
  <2>1. Live(d)
    BY <1>3 DEF Stays
  <2> QED BY <1>1, <1>2, <2>1, BufferedConsumes, ConsumedStays
<1>5. Stays(k, b)
  BY <1>3, <1>4, StaysTransitive
<1> QED BY <1>1, <1>5, FlushOutcome

\* HandleRead on a connection in the epoll.
LEMMA ReadOutcome ==
  ASSUME NEW k \in Connection, Live(k), NEW j \in HandleRead(k)
  PROVE  Outcome(k, j)
<1>1. CASE j = k
  BY <1>1, StaysReflexive, StaysOutcome
<1>2. CASE j \in ShutDownInLoop(k)
  BY <1>2, ShutDownOutcome
<1>3. CASE k.recvq > 0 /\ j \in MessCb([k EXCEPT !.in = @ + k.recvq, !.recvq = 0])
  <2> DEFINE n == k.in + k.recvq
  <2> PICK i : i = [k EXCEPT !.in = n, !.recvq = 0]
    OBVIOUS
  <2>1. n \in Nat /\ n > 0 /\ 0 \in Nat
    BY <1>3, SMT DEF Connection
  <2>2. j \in MessCb(i)
    BY <1>3
  <2> HIDE DEF n
  <2>3. i \in Connection
    BY <2>1, Zenon DEF Connection
  <2>4. /\ i.in = n /\ i.recvq = 0 /\ i.open = k.open /\ i.sent = k.sent /\ i.got = k.got
        /\ i.lost = k.lost /\ i.rst = k.rst /\ i.status = k.status /\ i.reg = k.reg
        /\ i.ev = k.ev /\ i.out = k.out /\ i.fate = k.fate /\ i.closed = k.closed
    BY <2>1, SMT DEF Connection
  <2>5. Live(i)
    BY <2>4, Zenon DEF Live
  <2>6. Conserved(k) => Conserved(i)
    <3>1. k.recvq + k.in + k.out + k.got = i.recvq + i.in + i.out + i.got
      BY <2>4, SMT DEF Connection, n
    <3> QED BY <2>4, <3>1, Zenon DEF Conserved
  <2>7. Stays(i, j) /\ (config.app = "echo" => j.in = 0)
    <3>1. i.status # "DISCONNECTED" /\ i.in > 0
      BY <2>1, <2>4, <2>5 DEF Live
    <3> QED BY <2>2, <2>3, <2>5, <3>1, MessCbConsumes, ConsumedStays
  <2>8. Stays(k, j)
    BY <2>4, <2>6, <2>7, Zenon DEF Stays
  <2> QED BY <2>8, StaysOutcome
<1> QED BY <1>1, <1>2, <1>3, Zenon DEF HandleRead

\* HandleClose on a connection whose peer has reset it: the buffers may be dropped.
LEMMA CloseOutcome ==
  ASSUME NEW k \in Connection, Live(k), k.rst, NEW j \in HandleClose(k)
  PROVE  Outcome(k, j)
<1>1. PICK b \in HandleBuffered(k) : j = ReleaseInLoop(b)
  BY Zenon DEF HandleClose
<1>2. k.status # "DISCONNECTED"
  BY DEF Live
<1>3. Stays(k, b)
  BY <1>1, <1>2, BufferedConsumes, ConsumedStays
<1>4. Gone(b, j)
  BY <1>1, <1>3, ReleaseGone DEF Stays
<1> QED BY <1>3, <1>4, StaysGone

\* HandleWrite when the kernel has taken all or, with `lost`, some of what was popped.
LEMMA WriteDoneOutcome ==
  ASSUME NEW k \in Connection, Live(k), k.out # 0, NEW m \in Nat, m <= k.out, NEW r \in BOOLEAN,
         NEW p, p = [k EXCEPT !.out = 0], NEW j, j = WriteDone(Taken(p, m, k.out, r))
  PROVE  Outcome(k, j)
<1> PICK t : t = Taken(p, m, k.out, r)
  OBVIOUS
<1> PICK d : d = DisableWrite(t)
  OBVIOUS
<1>1. /\ p \in Connection /\ Alike(k, p) /\ p.status = k.status /\ p.in = k.in
      /\ p.out = 0 /\ p.ev = k.ev /\ p.reg = k.reg /\ p.fate = k.fate
  BY Popped
<1>2. k.out \in Nat
  BY DEF Connection
<1>3. Accounted(p, t, m, k.out)
  BY <1>1, <1>2, TakenFields
<1>4. /\ t.open /\ t.out = 0 /\ t.fate = k.fate /\ t.closed = k.closed /\ t.rst = k.rst
      /\ t.status = k.status /\ t.in = k.in
  BY <1>1, <1>3, ZenonT(60) DEF Alike, Live, Accounted
<1>5. Unwatched(t, d)
  BY <1>3, DisableWriteUnwatches DEF Accounted
<1>6. Stays(k, d)
  <2>1. d.out = 0 /\ ~(d.out > 0)
    BY <1>4, <1>5, SMT DEF Unwatched
  <2>2. Live(d) /\ d.fate = k.fate /\ d.closed = k.closed /\ d.rst = k.rst /\ d.in = k.in
    BY <1>4, <1>5, <2>1, ZenonT(60) DEF Unwatched, Alike, Live
  <2>3. Conserved(k) => Conserved(d)
    <3> SUFFICES ASSUME Conserved(k), ~d.rst, ~d.lost
                 PROVE  d.sent = d.recvq + d.in + d.out + d.got
      BY Zenon DEF Conserved
    <3>1. ~k.rst /\ ~k.lost /\ k.open /\ ~(m < k.out)
      BY <1>1, <1>3, <1>5, ZenonT(60) DEF Unwatched, Alike, Live, Accounted
    <3>2. k.sent = k.recvq + k.in + k.out + k.got
      BY <3>1, Zenon DEF Conserved
    <3>3. /\ d.sent = k.sent /\ d.recvq = k.recvq /\ d.in = k.in /\ d.out = 0
          /\ d.got = k.got + m
      <4>1. /\ d.sent = t.sent /\ d.recvq = t.recvq /\ d.in = t.in /\ d.out = t.out
            /\ d.got = t.got
        BY <1>5, Zenon DEF Unwatched, Alike
      <4>2. p.sent = k.sent /\ p.recvq = k.recvq /\ p.got = k.got
        BY <1>1, Zenon DEF Alike
      <4>3. t.sent = p.sent /\ t.recvq = p.recvq /\ t.got = p.got + m
        BY <1>3 DEF Accounted
      <4> QED BY <1>4, <4>1, <4>2, <4>3
    <3>4. m = k.out
      BY <3>1, <1>2, SMT
    <3> QED BY <3>2, <3>3, <3>4, <1>2, SMT DEF Connection
  <2> QED BY <1>5, <2>2, <2>3, Zenon DEF Stays, Unwatched
<1>7. d.out = 0 /\ ~(t.out > 0)
  BY <1>4, <1>5, SMT DEF Unwatched
<1>8. CASE j = d
  BY <1>6, <1>8, StaysOutcome
<1>9. CASE j = ReleaseInLoop(d)
  <2>1. Gone(d, j)
    BY <1>5, <1>9, ReleaseGone DEF Unwatched
  <2> QED BY <1>6, <1>7, <2>1, StaysGone
<1> QED BY <1>7, <1>8, <1>9, Zenon DEF WriteDone

\* HandleWrite's release after a write error.
LEMMA WriteErrorOutcome ==
  ASSUME NEW k \in Connection, Live(k), k.rst,
         NEW p, p = [k EXCEPT !.out = 0],
         NEW b \in HandleBuffered(p), NEW j, j = WriteDone(ReleaseInLoop(b))
  PROVE  Outcome(k, j)
<1> PICK g : g = ReleaseInLoop(b)
  OBVIOUS
<1> PICK d : d = DisableWrite(g)
  OBVIOUS
<1>1. /\ p \in Connection /\ Alike(k, p) /\ p.status = k.status /\ p.in = k.in
  BY Popped
<1>2. Consumed(p, b)
  <2>1. p.status # "DISCONNECTED"
    BY <1>1 DEF Live
  <2> QED BY <1>1, <2>1, BufferedConsumes
<1>3. Gone(b, g)
  BY <1>2, ReleaseGone DEF Consumed
<1>4. Unwatched(g, d)
  BY <1>3, DisableWriteUnwatches DEF Gone
<1>5. d.fate # "up"
  BY <1>3, <1>4 DEF Unwatched, Gone
<1>6. j = g \/ j = d
  BY <1>5, Zenon DEF WriteDone
<1>7. g.closed = k.closed \/ g.closed = k.closed + 1
  <2>1. b.closed = k.closed
    BY <1>1, <1>2, Zenon DEF Consumed, Alike
  <2> QED BY <1>3, <2>1, Zenon DEF Gone
<1>8. g.status = "DISCONNECTED" /\ Released(g) /\ ~g.open /\ g.rst /\ g \in Connection
  BY <1>1, <1>2, <1>3, Zenon DEF Gone, Released, Consumed, Alike
<1>9. config.app = "echo" => g.in = 0
  BY <1>2, <1>3, Zenon DEF Gone, Consumed
<1>10. CASE j = g
  BY <1>7, <1>8, <1>9, <1>10, Zenon DEF Outcome, Conserved
<1>11. CASE j = d
  <2>1. /\ d \in Connection /\ d.status = "DISCONNECTED" /\ d.closed = g.closed /\ d.rst
        /\ d.in = g.in
    BY <1>4, <1>8, Zenon DEF Unwatched, Alike
  <2> QED BY <1>5, <1>7, <1>9, <1>11, <2>1, Zenon DEF Outcome, Conserved
<1> QED BY <1>6, <1>10, <1>11

\* HandleWrite on a connection in the epoll that epoll reported writable.
LEMMA WriteOutcome ==
  ASSUME NEW k \in Connection, Live(k), "OUT" \in k.rev, NEW j \in HandleWrite(k)
  PROVE  Outcome(k, j)
<1> PICK p : p = [k EXCEPT !.out = 0]
  OBVIOUS
<1>1. Written(k, p, j)
  BY WriteCases
<1>2. CASE k.out = 0 /\ j = [k EXCEPT !.fate = "abort"]
  <2>1. /\ j \in Connection /\ Alike(k, j) /\ j.status = k.status /\ j.in = k.in
        /\ j.out = k.out /\ j.fate = "abort"
    BY <1>2, FateFields DEF Fates
  <2>2. ~(k.out > 0)
    BY <1>2, SMT
  <2>3. j.status # "DISCONNECTED" /\ j.fate # "up"
    BY <2>1 DEF Live
  <2> QED BY <2>1, <2>2, <2>3, Zenon DEF Outcome, Alike, Conserved
<1>3. CASE k.out # 0 /\ \E m \in Nat, r \in BOOLEAN :
             m <= k.out /\ j = WriteDone(Taken(p, m, k.out, r))
  BY <1>3, WriteDoneOutcome
<1>4. CASE ~(k.open /\ ~k.rst) /\ \E b \in HandleBuffered(p) : j = WriteDone(ReleaseInLoop(b))
  BY <1>4, WriteErrorOutcome DEF Live
<1>5. CASE k.rst /\ j = [p EXCEPT !.fate = "killed"]
  <2>1. p \in Connection /\ Alike(k, p) /\ p.status = k.status /\ p.in = k.in
    BY Popped
  <2>2. /\ j \in Connection /\ Alike(p, j) /\ j.status = p.status /\ j.in = p.in
        /\ j.fate = "killed"
    BY <1>5, <2>1, FateFields DEF Fates
  <2>3. j.status # "DISCONNECTED" /\ j.fate # "up"
    BY <2>1, <2>2 DEF Live
  <2> QED BY <1>5, <2>1, <2>2, <2>3, Zenon DEF Outcome, Alike, Conserved
<1> QED BY <1>1, <1>2, <1>3, <1>4, <1>5, Zenon DEF Written

(***************************************************************************)
(* HandleEvents of a connection in the epoll.                              *)
(***************************************************************************)
LEMMA LiveOutcome ==
  ASSUME NEW k \in Connection, Live(k), "HUP" \in k.rev => k.rst, config.timeout \in Nat,
         NEW j \in HandleEvents(k)
  PROVE  Outcome(k, j)
<1> PICK a : a = HandleAnyEvent(k)
  OBVIOUS
<1>1. /\ a \in Connection
      /\ a.open = k.open /\ a.recvq = k.recvq /\ a.sent = k.sent /\ a.got = k.got
      /\ a.lost = k.lost /\ a.rst = k.rst /\ a.rev = k.rev
      /\ a.closed = k.closed /\ a.status = k.status
      /\ a.in = k.in /\ a.out = k.out /\ a.ev = k.ev /\ a.reg = k.reg
      /\ a.fate = k.fate
  BY AnyEventFields
<1>2. Live(a)
  BY <1>1, Zenon DEF Live
<1>3. \/ "HUP" \in k.rev /\ j \in HandleClose(a)
      \/ j \in HandleRead(a)
      \/ "OUT" \in k.rev /\ j \in HandleWrite(a)
      \/ j = a
  BY DEF HandleEvents
<1>4. Outcome(a, j)
  BY <1>1, <1>2, <1>3, CloseOutcome, ReadOutcome, WriteOutcome, StaysReflexive, StaysOutcome
<1> QED BY <1>1, <1>4, Zenon DEF Outcome, Conserved

(***************************************************************************)
(* HandleEvents, and a ShutDown, of a connection that is released already  *)
(* (an inactivity timer or another ShutDown came first).                   *)
(***************************************************************************)
LEMMA ReleasedOutcome ==
  ASSUME NEW k \in Connection, Released(k), config.timeout \in Nat, NEW j \in HandleEvents(k),
         j.fate = "up"
  PROVE  Released(j)
<1> PICK a : a = HandleAnyEvent(k)
  OBVIOUS
<1>1. a \in Connection /\ Released(a)
  <2>1. a \in Connection /\ a.open = k.open /\ a.status = k.status /\ a.ev = k.ev /\ a.reg = k.reg
        /\ a.recvq = k.recvq
    BY AnyEventFields
  <2> QED BY <2>1, Zenon DEF Released
<1>2. CASE j = a
  BY <1>1, <1>2
<1>3. CASE j \in HandleClose(a)
  <2>1. PICK b \in HandleBuffered(a) : j = ReleaseInLoop(b)
    BY <1>3, Zenon DEF HandleClose
  <2>2. b \in Connection
    BY <1>1, <2>1, BufferedSequel DEF Sequel
  <2> QED BY <2>1, <2>2, ReleaseGone DEF Gone, Released
<1>4. CASE j \in HandleRead(a)
  BY <1>1, <1>4, Zenon DEF HandleRead, Released
<1>5. CASE j \in HandleWrite(a)
  <2> PICK p : p = [a EXCEPT !.out = 0]
    OBVIOUS
  <2>1. Written(a, p, j) /\ ~a.open
    BY <1>1, <1>5, WriteCases DEF Released
  <2>2. CASE j = [a EXCEPT !.fate = "abort"]
    <3>1. j.fate = "abort"
      BY <1>1, <2>2, FateFields DEF Fates
    <3> QED BY <3>1
  <2>3. ASSUME NEW b \in HandleBuffered(p), j = WriteDone(ReleaseInLoop(b))
        PROVE  Released(j)
    <3> PICK g : g = ReleaseInLoop(b)
      OBVIOUS
    <3> PICK d : d = DisableWrite(g)
      OBVIOUS
    <3>1. b \in Connection
      BY <1>1, Popped, BufferedSequel DEF Sequel
    <3>2. Gone(b, g)
      BY <3>1, ReleaseGone
    <3>3. d.fate # "up"
      BY <3>2, DisableWriteUnwatches DEF Gone, Unwatched
    <3>4. j = g
      BY <2>3, <3>3, Zenon DEF WriteDone
    <3> QED BY <3>2, <3>4, Zenon DEF Gone, Released
  <2> QED BY <2>1, <2>2, <2>3, Zenon DEF Written
<1> QED BY <1>2, <1>3, <1>4, <1>5 DEF HandleEvents

\* ShutDownInLoop on a released connection: with bytes left it may write to the closed
\* channel.
LEMMA ReleasedShutDown ==
  ASSUME NEW k \in Connection, Released(k), NEW j \in ShutDownInLoop(k)
  PROVE  /\ j.fate = "up" => Released(j)
         /\ k.in = 0 /\ k.out = 0 => j.fate = k.fate /\ j.out = 0 /\ j.in = 0
<1> PICK d : d = [k EXCEPT !.status = "DISCONNECTING"]
  OBVIOUS
<1>1. PICK b \in HandleBuffered(d) : j = FlushOrRelease(b)
  BY Zenon DEF ShutDownInLoop
<1>2. /\ d \in Connection /\ Alike(k, d) /\ d.status = "DISCONNECTING" /\ d.in = k.in
      /\ d.out = k.out /\ d.ev = {} /\ d.reg = k.reg /\ d.fate = k.fate /\ ~d.open
  BY MarkedDisconnecting, Zenon DEF Released, Alike
<1>3. Consumed(d, b) /\ b \in Connection /\ ~b.open
  <2>1. Consumed(d, b)
    BY <1>2, BufferedConsumes
  <2> QED BY <1>2, <2>1, Zenon DEF Consumed, Alike
<1>4. (b.out = 0 /\ Gone(b, j)) \/ (b.out # 0 /\ Queueing(b, j, 0))
  BY <1>1, <1>3, FlushCases
<1>5. ASSUME b.out # 0, Queueing(b, j, 0) PROVE j.fate # "up"
  <2>1. CASE b.ev = d.ev
    BY <1>2, <1>3, <1>5, <2>1 DEF Queueing, Watched
  <2>2. CASE Watched(d, b)
    BY <1>2, <1>5, <2>2 DEF Queueing, Watched
  <2> QED BY <1>3, <2>1, <2>2 DEF Consumed
<1>6. ASSUME k.in = 0, k.out = 0 PROVE b = d
  <2>1. ~(d.in > 0)
    BY <1>2, <1>6, SMT
  <2> QED BY <1>1, <2>1 DEF HandleBuffered
<1> QED BY <1>2, <1>4, <1>5, <1>6, ZenonT(60) DEF Gone, Released

-----------------------------------------------------------------------------
(* One connection, from one step to the next. *)

\* The fields that tell the phases apart, and the bytes, are the same.
Same(k, j) ==
  /\ j \in Connection
  /\ j.status = k.status /\ j.open = k.open /\ j.reg = k.reg /\ j.ev = k.ev
  /\ j.in = k.in /\ j.out = k.out /\ j.closed = k.closed /\ j.fate = k.fate
  /\ j.sent = k.sent /\ j.recvq = k.recvq /\ j.got = k.got /\ j.lost = k.lost
  /\ j.fin = k.fin /\ j.rst = k.rst

\* _closed_cb has been called at most once, and only by the release.
OnceClosed(k) == k.closed <= 1 /\ (k.status # "DISCONNECTED" => k.closed = 0)

\* The connection was not released with something to send.
Flushed(k) == k.status = "DISCONNECTED" /\ ~k.rst => k.out = 0

\* No task runs on a released connection that could do more than release it again.
Quiet(s) == s.app = "echo" \/ "ShutDown" \notin s.calls

\* What no step does to a connection in scenario s.
Lawful(s, k, j) ==
  /\ s.app = "echo" /\ k.in = 0 => j.in = 0
  /\ s.app = "echo" /\ k.in = 0 /\ "Send" \notin s.calls /\ Conserved(k) => Conserved(j)
  /\ s.timeout = 0 /\ "ShutDown" \notin s.calls /\ OnceClosed(k) => OnceClosed(j)
  /\ k.status # "DISCONNECTED" /\ j.status = "DISCONNECTED" =>
       k.rst \/ k.timer = 1 \/ j.out = 0
  /\ s.timeout = 0 /\ Quiet(s) /\ (s.app = "echo" => k.in = 0) /\ Flushed(k) => Flushed(j)

\* What a handler keeps is enough for the sanity of a connection.
LEMMA SequelSane ==
  ASSUME NEW s, s.sends \in Nat, NEW k, NEW j, Sane(s, k), Sequel(k, j), s.timeout = config.timeout
  PROVE  Sane(s, j)
<1>1. j.in + j.recvq <= j.sent
  BY SMT DEF Sane, Sequel, Connection
<1>2. k.timer <= config.timeout => j.timer <= config.timeout
  BY DEF Sequel
<1> QED BY <1>1, <1>2, Zenon DEF Sane, Sequel

\* A step on the flags or on the timer of a connection changes no phase.
LEMMA SameKept ==
  ASSUME NEW s, NEW k, NEW j, Same(k, j)
  PROVE  /\ Live(k) => Live(j)
         /\ Released(k) => Released(j)
         /\ InPhase(k) /\ (Waiting(k) => j.timer = k.timer) => InPhase(j)
         /\ Started(k) => Started(j)
         /\ Lawful(s, k, j)
<1>1. Live(k) => Live(j)
  BY Zenon DEF Same, Live
<1>2. Released(k) => Released(j)
  BY Zenon DEF Same, Released
<1>3. Accepted(k) => Accepted(j)
  BY Zenon DEF Same, Accepted
<1>4. Waiting(k) /\ j.timer = k.timer => Waiting(j)
  BY Zenon DEF Same, Waiting
<1>5. Lawful(s, k, j)
  BY Zenon DEF Same, Lawful, Conserved, OnceClosed, Flushed
<1> QED BY <1>1, <1>2, <1>3, <1>4, <1>5, Zenon DEF InPhase, Started, Same

\* The end of HandleEvents clears _revents.
LEMMA SettledFields ==
  ASSUME NEW k \in Connection
  PROVE  LET j == Settled(k)
         IN  /\ Same(k, j) /\ j.timer = k.timer /\ ~j.told /\ j.rev = {}
<1> DEFINE j == [k EXCEPT !.told = FALSE, !.rev = {}]
<1>1. Settled(k) = j
  BY DEF Settled
<1>2. j \in Connection
  BY Zenon DEF Connection
<1>3. /\ j.status = k.status /\ j.open = k.open /\ j.reg = k.reg /\ j.ev = k.ev
      /\ j.in = k.in /\ j.out = k.out /\ j.closed = k.closed /\ j.fate = k.fate
      /\ j.sent = k.sent /\ j.recvq = k.recvq /\ j.got = k.got /\ j.lost = k.lost
      /\ j.fin = k.fin /\ j.rst = k.rst /\ j.timer = k.timer /\ ~j.told /\ j.rev = {}
  BY SMT DEF Connection
<1> HIDE DEF j
<1>4. Same(k, j)
  BY <1>2, <1>3, Zenon DEF Same
<1> QED BY <1>1, <1>3, <1>4, Zenon

\* A connection between two steps, in scenario s.
Sound(s, k) == Sane(s, k) /\ ~k.told /\ ("HUP" \in k.rev => k.rst)

\* After it the connection is sound.
LEMMA SettledSound ==
  ASSUME NEW s, NEW k, Sane(s, k)
  PROVE  Sound(s, Settled(k))
<1> PICK j : j = Settled(k)
  OBVIOUS
<1>1. Same(k, j) /\ j.timer = k.timer /\ ~j.told /\ j.rev = {}
  BY SettledFields DEF Sane
<1>2. "HUP" \notin j.rev
  BY <1>1
<1> QED BY <1>1, <1>2, Zenon DEF Sound, Sane, Same

\* What the handlers and the tasks of a made connection may turn it into.
Becomes(s, k, j) ==
  /\ Sane(s, j) /\ Lawful(s, k, j)
  /\ j.fate = "up" => InPhase(j)
  /\ j.open => k.open
  /\ Started(k) => Started(j)
  /\ j.status \notin {"NEW", "BACKLOG"}

\* A lawful outcome of a handler is a lawful change of the connection.
LEMMA OutcomeLawful ==
  ASSUME NEW k \in Connection, NEW j, Live(k), "HUP" \in k.rev => k.rst, Outcome(k, j),
         Sequel(k, j)
  PROVE  Lawful(config, k, j)
<1>1. ~k.rst /\ j.status = "DISCONNECTED" => j.out = 0
  BY Zenon DEF Outcome
<1>2. OnceClosed(k) => OnceClosed(j)
  <2> SUFFICES ASSUME OnceClosed(k) PROVE OnceClosed(j)
    OBVIOUS
  <2>1. k.closed = 0
    BY DEF OnceClosed, Live
  <2>2. 0 + 1 <= 1 /\ 0 <= 1 /\ 0 + 1 = 1
    BY SMT
  <2> QED BY <2>1, <2>2, Zenon DEF OnceClosed, Outcome
<1>3. Flushed(j)
  BY <1>1, Zenon DEF Flushed, Sequel
<1> QED BY <1>1, <1>2, <1>3, Zenon DEF Lawful, Outcome

\* A released connection stays so, or the process ends.
LEMMA ReleasedLawful ==
  ASSUME NEW s, NEW k \in Connection, NEW j, Released(k), Sequel(k, j),
         s.timeout = 0 => "ShutDown" \in s.calls,
         s.timeout = 0 /\ Quiet(s) /\ (s.app = "echo" => k.in = 0) /\ Flushed(k) => Flushed(j)
  PROVE  Lawful(s, k, j)
<1>1. ~j.open /\ Started(j)
  BY Zenon DEF Sequel, Released, Started
<1>2. Conserved(j)
  BY <1>1 DEF Conserved, Started
<1>3. k.in = 0 => j.in = 0
  BY SMT DEF Sequel, Released, Connection
<1>4. k.status = "DISCONNECTED"
  BY DEF Released
<1> QED BY <1>2, <1>3, <1>4, Zenon DEF Lawful

(***************************************************************************)
(* HandleEvents of an active channel.                                      *)
(***************************************************************************)
LEMMA EventsBecome ==
  ASSUME config \in Scenario, NEW k, Sane(config, k), "HUP" \in k.rev => k.rst,
         Live(k) \/ Released(k), config.timeout = 0 => k.open, NEW j \in HandleEvents(k)
  PROVE  Becomes(config, k, j)
<1>1. k \in Connection /\ config.timeout \in Nat /\ config.sends \in Nat
  BY DEF Sane, Scenario
<1>2. Sequel(k, j)
  BY <1>1, HandlersSequel
<1>3. Sane(config, j)
  BY <1>1, <1>2, SequelSane
<1>4. Started(k) /\ Started(j)
  BY <1>2, Zenon DEF Sequel, Started, Live, Released
<1>5. CASE Live(k)
  <2>1. Outcome(k, j)
    BY <1>1, <1>5, LiveOutcome
  <2>2. Lawful(config, k, j)
    BY <1>1, <1>2, <1>5, <2>1, OutcomeLawful
  <2> QED BY <1>2, <1>3, <1>4, <2>1, <2>2, Zenon
          DEF Becomes, Outcome, Sequel, Started, InPhase
<1>6. CASE Released(k)
  <2>1. config.timeout # 0
    BY <1>6 DEF Released
  <2>2. Lawful(config, k, j)
    BY <1>1, <1>2, <1>6, <2>1, ReleasedLawful
  <2>3. j.fate = "up" => Released(j)
    BY <1>1, <1>6, ReleasedOutcome
  <2> QED BY <1>2, <1>3, <1>4, <2>2, <2>3, Zenon DEF Becomes, Sequel, Started, InPhase
<1> QED BY <1>5, <1>6

(***************************************************************************)
(* The tasks Send, ShutDown, Established and EnableInactiveRelease.        *)
(***************************************************************************)
LEMMA ShutDownBecomes ==
  ASSUME config \in Scenario, NEW k, Sane(config, k), "HUP" \in k.rev => k.rst,
         Live(k) \/ Released(k), "ShutDown" \in config.calls, NEW j \in ShutDownInLoop(k)
  PROVE  Becomes(config, k, j)
<1>1. k \in Connection /\ config.timeout \in Nat /\ config.sends \in Nat
  BY DEF Sane, Scenario
<1>2. Sequel(k, j)
  BY <1>1, ShutDownSequel
<1>3. Sane(config, j)
  BY <1>1, <1>2, SequelSane
<1>4. Started(k) /\ Started(j)
  BY <1>2, Zenon DEF Sequel, Started, Live, Released
<1>5. CASE Live(k)
  <2>1. Outcome(k, j)
    BY <1>1, <1>5, ShutDownOutcome
  <2>2. Lawful(config, k, j)
    BY <1>1, <1>2, <1>5, <2>1, OutcomeLawful
  <2> QED BY <1>2, <1>3, <1>4, <2>1, <2>2, Zenon
          DEF Becomes, Outcome, Sequel, Started, InPhase
<1>6. CASE Released(k)
  <2>1. ASSUME Quiet(config), config.app = "echo" => k.in = 0, Flushed(k) PROVE Flushed(j)
    <3> SUFFICES ASSUME ~j.rst PROVE j.out = 0
      BY DEF Flushed
    <3>1. k.in = 0
      BY <2>1 DEF Quiet
    <3>2. k.out = 0
      BY <1>2, <1>6, <2>1, Zenon DEF Flushed, Sequel, Released
    <3> QED BY <1>1, <1>6, <3>1, <3>2, ReleasedShutDown
  <2>2. Lawful(config, k, j)
    BY <1>1, <1>2, <1>6, <2>1, ReleasedLawful
  <2>3. j.fate = "up" => Released(j)
    BY <1>1, <1>6, ReleasedShutDown
  <2> QED BY <1>2, <1>3, <1>4, <2>2, <2>3, Zenon DEF Becomes, Sequel, Started, InPhase
<1> QED BY <1>5, <1>6

\* The task of another thread's Send.
LEMMA SendBecomes ==
  ASSUME config \in Scenario, NEW k, Sane(config, k), k.fate = "up",
         Live(k) \/ Released(k), "Send" \in config.calls, NEW j, j = SendInLoop(k, 1)
  PROVE  Becomes(config, k, j) /\ j.fate = "up"
<1>1. k \in Connection /\ config.sends \in Nat
  BY DEF Sane, Scenario
<1>2. Sequel(k, j)
  BY <1>1, SendSequel
<1>3. Sane(config, j)
  BY <1>1, <1>2, SequelSane
<1>4. Started(k) /\ Started(j)
  BY <1>2, Zenon DEF Sequel, Started, Live, Released
<1>5. CASE Live(k)
  <2>1. Queueing(k, j, 1)
    BY <1>1, <1>5, SendQueues DEF Live
  <2>2. j.out > 0
    BY <1>1, <2>1, SMT DEF Queueing, Connection
  <2>3. Live(j) /\ j.fate = "up" /\ j.closed = k.closed /\ j.in = k.in
    BY <1>5, <2>1, <2>2, Zenon DEF Queueing, Watched, Alike, Live
  <2>4. j.status # "DISCONNECTED" /\ k.status # "DISCONNECTED"
    BY <1>5, <2>3 DEF Live
  <2>5. Lawful(config, k, j)
    BY <2>3, <2>4, Zenon DEF Lawful, OnceClosed, Flushed
  <2> QED BY <1>2, <1>3, <1>4, <2>3, <2>5, Zenon DEF Becomes, Sequel, Started, InPhase
<1>6. CASE Released(k)
  <2>1. j = k
    BY <1>6 DEF SendInLoop, Released
  <2>2. Lawful(config, k, j)
    BY <2>1, Zenon DEF Lawful
  <2> QED BY <1>2, <1>3, <1>4, <1>6, <2>1, <2>2, Zenon DEF Becomes, Sequel, Started, InPhase
<1> QED BY <1>5, <1>6

\* The task that NewConnection queues: the channel enters the epoll.
LEMMA EstablishedBecomes ==
  ASSUME config \in Scenario, NEW k, Sane(config, k), k.fate = "up", InPhase(k),
         k.status \notin {"NEW", "BACKLOG"}, NEW j, j = EstablishedInLoop(k)
  PROVE  /\ Becomes(config, k, j) /\ j.timer = k.timer /\ j.told = k.told
         /\ k.status = "CONNECTING" =>
              Live(j) /\ j.fate = "up" /\ j.rev = k.rev /\ j.status = "CONNECTED"
<1>1. k \in Connection
  BY DEF Sane
<1>2. /\ j \in Connection /\ Alike(k, j) /\ j.in = k.in /\ j.out = k.out
      /\ k.status # "CONNECTING" =>
           j.status = k.status /\ j.ev = k.ev /\ j.reg = k.reg /\ j.fate = "abort"
      /\ k.status = "CONNECTING" =>
           /\ j.status = "CONNECTED" /\ j.ev = k.ev \cup {"IN"}
           /\ k.open => j.reg /\ j.fate = k.fate
           /\ ~k.open => j.reg = k.reg /\ j.fate = "exit"
  BY <1>1, EstablishedFields
<1>3. Sane(config, j)
  <2>1. j.in + j.recvq <= j.sent
    <3>1. j.in = k.in /\ j.recvq = k.recvq /\ j.sent = k.sent
      BY <1>2 DEF Alike
    <3> QED BY <3>1 DEF Sane
  <2> QED BY <1>2, <2>1, Zenon DEF Sane, Alike
<1>4. k.status = "CONNECTING" => Live(j) /\ j.fate = "up"
  <2> SUFFICES ASSUME k.status = "CONNECTING" PROVE Live(j) /\ j.fate = "up"
    OBVIOUS
  <2>1. Accepted(k)
    BY DEF InPhase, Waiting, Live, Released
  <2>2. j.out = 0 /\ ~(j.out > 0) /\ "OUT" \notin j.ev
    BY <1>2, <2>1, SMT DEF Accepted
  <2> QED BY <1>2, <2>1, <2>2, Zenon DEF Accepted, Live, Alike
<1>5. j.status # "DISCONNECTED" <=> k.status # "DISCONNECTED"
  BY <1>2
<1>6. Lawful(config, k, j)
  BY <1>2, <1>5, Zenon DEF Lawful, Conserved, OnceClosed, Flushed, Alike
<1>7. j.status \notin {"NEW", "BACKLOG"} /\ (Started(k) => Started(j)) /\ (j.fate = "up" => InPhase(j))
  BY <1>2, <1>4 DEF Started, InPhase
<1> QED BY <1>2, <1>3, <1>4, <1>6, <1>7, Zenon DEF Becomes, Alike

\* The task that EnableInactiveRelease queues for another loop.
LEMMA EnableBecomes ==
  ASSUME config \in Scenario, NEW k, Sane(config, k), k.fate = "up", InPhase(k),
         k.status \notin {"NEW", "BACKLOG"},
         config.threads = 0 => k.status # "DISCONNECTED",
         NEW j, j = EnableInactiveReleaseInLoop(k)
  PROVE  Becomes(config, k, j) /\ Same(k, j) /\ j.rev = k.rev /\ j.told = k.told
<1>1. k \in Connection /\ config.timeout \in Nat
  BY DEF Sane, Scenario
<1>2. j \in Connection
  BY <1>1, Zenon DEF EnableInactiveReleaseInLoop, Connection
<1>3. /\ j.status = k.status /\ j.open = k.open /\ j.reg = k.reg /\ j.ev = k.ev
      /\ j.in = k.in /\ j.out = k.out /\ j.closed = k.closed /\ j.fate = k.fate
      /\ j.sent = k.sent /\ j.recvq = k.recvq /\ j.got = k.got /\ j.lost = k.lost
      /\ j.fin = k.fin /\ j.rst = k.rst /\ j.rev = k.rev /\ j.told = k.told
      /\ j.timer = config.timeout
  BY <1>1, SMT DEF EnableInactiveReleaseInLoop, Connection
<1>4. Same(k, j)
  BY <1>2, <1>3, Zenon DEF Same
<1>5. Sane(config, j)
  <2>1. config.timeout <= config.timeout
    BY <1>1, SMT
  <2> QED BY <1>2, <1>3, <2>1, Zenon DEF Sane
<1>6. ~Waiting(k)
  BY DEF Waiting
<1> QED BY <1>3, <1>4, <1>5, <1>6, SameKept DEF Becomes

-----------------------------------------------------------------------------
(* The inductive invariant. *)

TypeInv ==
  /\ config \in Scenarios
  /\ conn \in [Conns -> Connection]
  /\ loopOf \in [Conns -> Loops]
  /\ turn \in 0 .. Len(SubLoops)
  /\ conns \subseteq Conns
  /\ accepting \in {NoConn} \cup ({"EnableInactiveRelease", "Insert"} \X Conns)
  /\ active \in [Loops -> SUBSET (Conns \cup {"listen", "timer"})]
  /\ tasks \in [Loops -> Seq(Task)]
  /\ batch \in [Loops -> Nat] /\ \A l \in Loops : batch[l] <= Len(tasks[l])
  /\ expired \in [Loops -> BOOLEAN]
  /\ called \subseteq Conns \X config.calls
  /\ down \in Fates

ConnInv ==
  \A c \in Conns :
    /\ Sound(config, conn[c])
    /\ down = "up" => InPhase(conn[c]) /\ conn[c].fate = "up"

\* A task of loop l: its connection is one of the loop and as far as the task needs.
TaskSound(l, t) ==
  /\ Made(t.conn)
  /\ t.op = "Remove" => ~conn[t.conn].open
  /\ t.op # "Remove" => loopOf[t.conn] = l
  /\ t.op \in {"Send", "ShutDown"} => Started(conn[t.conn]) /\ t.op \in config.calls
  /\ t.op \in {"Established", "EnableInactiveRelease"} => config.threads # 0

QueueInv == \A l \in Loops : \A t \in ToSet(tasks[l]) : TaskSound(l, t)

\* An active channel is one of the loop, and has been in its epoll.
ActiveInv ==
  \A l \in Loops : \A c \in active[l] \cap Conns :
    /\ loopOf[c] = l /\ Started(conn[c])
    /\ config.timeout = 0 => conn[c].open

\* AcceptCallback keeps the main loop from its other channels, and an open connection
\* is in _conns or about to be.
AcceptInv ==
  /\ accepting # NoConn =>
       /\ "listen" \in active[Main] /\ Made(accepting[2])
       /\ config.threads = 0 => conn[accepting[2]].status = "CONNECTED"
  /\ config.threads = 0 => \A c \in Conns : loopOf[c] = Main
  /\ \A c \in Conns :
       conn[c].open => c \in conns \/ (accepting # NoConn /\ accepting[2] = c)

IInv == TypeInv /\ ConnInv /\ QueueInv /\ ActiveInv /\ AcceptInv

\* What a step must leave of a connection for its tasks and its channel to be sound.
Kept(c) ==
  Made(c) =>
    /\ Made(c)' /\ loopOf'[c] = loopOf[c]
    /\ conn'[c].open => conn[c].open
    /\ Started(conn[c]) => Started(conn'[c])

LawfulStep == \A c \in Conns : Lawful(config, conn[c], conn'[c])

\* The scenario's fields and the main loop, for the arithmetic below.
LEMMA ScenarioFacts ==
  ASSUME TypeInv
  PROVE  /\ config \in Scenario /\ config.timeout \in Nat /\ config.sends \in Nat
         /\ config.threads \in 0 .. Len(SubLoops) /\ Len(SubLoops) \in Nat
         /\ Main \in Loops
<1>1. config \in Scenario
  BY ReactorAssumption DEF TypeInv
<1>2. Len(SubLoops) \in Nat
  BY ReactorAssumption, LenProperties
<1>3. config.timeout \in Nat /\ config.sends \in Nat /\ config.threads \in 0 .. Len(SubLoops)
  BY <1>1 DEF Scenario
<1> QED BY <1>1, <1>2, <1>3 DEF Loops

\* The elements of a sequence that an operation makes.
LEMMA ToSetAppend ==
  ASSUME NEW S, NEW s \in Seq(S), NEW e \in S
  PROVE  Append(s, e) \in Seq(S) /\ ToSet(Append(s, e)) \subseteq ToSet(s) \cup {e}
<1> DEFINE a == Append(s, e)
<1>1. /\ a \in Seq(S) /\ Len(a) = Len(s) + 1
      /\ \A i \in 1 .. Len(s) : a[i] = s[i]
      /\ a[Len(s) + 1] = e
  BY AppendProperties
<1>2. Len(s) \in Nat /\ DOMAIN s = 1 .. Len(s) /\ DOMAIN a = 1 .. Len(a)
  BY <1>1, LenProperties
<1> HIDE DEF a
<1>3. \A i \in DOMAIN a : a[i] \in ToSet(s) \/ a[i] = e
  <2> SUFFICES ASSUME NEW i \in DOMAIN a PROVE a[i] \in ToSet(s) \/ a[i] = e
    OBVIOUS
  <2>1. i \in 1 .. Len(s) \/ i = Len(s) + 1
    BY <1>1, <1>2, SMT
  <2> QED BY <1>1, <1>2, <2>1 DEF ToSet
<1>4. ToSet(a) \subseteq ToSet(s) \cup {e}
  BY <1>3 DEF ToSet
<1> QED BY <1>1, <1>4 DEF a

\* A loop takes the task at the head of its queue.
LEMMA ToSetTail ==
  ASSUME NEW S, NEW s \in Seq(S), s # <<>>
  PROVE  /\ Tail(s) \in Seq(S) /\ Head(s) \in ToSet(s) /\ ToSet(Tail(s)) \subseteq ToSet(s)
         /\ Len(Tail(s)) = Len(s) - 1 /\ ToSet(s) \subseteq S
<1> DEFINE h == Tail(s)
<1>1. h \in Seq(S) /\ Len(h) = Len(s) - 1 /\ \A i \in 1 .. Len(h) : h[i] = s[i + 1]
  BY HeadTailProperties
<1>2. Len(s) \in Nat \ {0} /\ DOMAIN s = 1 .. Len(s) /\ DOMAIN h = 1 .. Len(h)
  BY <1>1, LenProperties, EmptySeq
<1>3. Head(s) = s[1] /\ 1 \in DOMAIN s
  BY <1>2
<1> HIDE DEF h
<1>4. \A i \in DOMAIN h : h[i] \in ToSet(s)
  <2> SUFFICES ASSUME NEW i \in DOMAIN h PROVE h[i] \in ToSet(s)
    OBVIOUS
  <2>1. i + 1 \in DOMAIN s /\ h[i] = s[i + 1]
    BY <1>1, <1>2, SMT
  <2> QED BY <2>1 DEF ToSet
<1>5. \A i \in DOMAIN s : s[i] \in S
  BY <1>2, ElementOfSeq
<1>6. ToSet(h) \subseteq ToSet(s) /\ Head(s) \in ToSet(s) /\ ToSet(s) \subseteq S
  BY <1>3, <1>4, <1>5 DEF ToSet
<1> QED BY <1>1, <1>6 DEF h

\* A loop gets several tasks at once.
LEMMA ToSetConcat ==
  ASSUME NEW S, NEW s \in Seq(S), NEW r \in Seq(S)
  PROVE  /\ s \o r \in Seq(S) /\ ToSet(s \o r) \subseteq ToSet(s) \cup ToSet(r)
         /\ Len(s) <= Len(s \o r)
<1> DEFINE a == s \o r
<1>1. /\ a \in Seq(S) /\ Len(a) = Len(s) + Len(r)
      /\ \A i \in 1 .. Len(s) + Len(r) : a[i] = IF i <= Len(s) THEN s[i] ELSE r[i - Len(s)]
  BY ConcatProperties
<1>2. /\ Len(s) \in Nat /\ DOMAIN s = 1 .. Len(s) /\ Len(r) \in Nat /\ DOMAIN r = 1 .. Len(r)
      /\ DOMAIN a = 1 .. Len(a)
  BY <1>1, LenProperties
<1> HIDE DEF a
<1>3. \A i \in DOMAIN a : a[i] \in ToSet(s) \/ a[i] \in ToSet(r)
  <2> SUFFICES ASSUME NEW i \in DOMAIN a PROVE a[i] \in ToSet(s) \/ a[i] \in ToSet(r)
    OBVIOUS
  <2>1. i \in 1 .. Len(s) + Len(r)
    BY <1>1, <1>2
  <2>2. CASE i <= Len(s)
    <3>1. i \in DOMAIN s /\ a[i] = s[i]
      BY <1>1, <1>2, <2>1, <2>2, SMT
    <3> QED BY <3>1 DEF ToSet
  <2>3. CASE ~(i <= Len(s))
    <3>1. i - Len(s) \in DOMAIN r /\ a[i] = r[i - Len(s)]
      BY <1>1, <1>2, <2>1, <2>3, SMT
    <3> QED BY <3>1 DEF ToSet
  <2> QED BY <2>2, <2>3
<1>4. ToSet(a) \subseteq ToSet(s) \cup ToSet(r)
  BY <1>3 DEF ToSet
<1>5. Len(s) <= Len(a)
  BY <1>1, <1>2, SMT
<1> QED BY <1>1, <1>4, <1>5 DEF a

(***************************************************************************)
(* RemoveFromServer: the released connections leave _conns at once, or by  *)
(* a task of the main loop for each.                                       *)
(***************************************************************************)
LEMMA RemovalTasks ==
  ASSUME NEW cs, cs \subseteq Conns, NEW q \in RemoveTasks(cs)
  PROVE  q \in Seq(Task) /\ \A t \in ToSet(q) : t.op = "Remove" /\ t.conn \in cs
<1>1. PICK p \in SetToSeqs(cs) : q = [i \in DOMAIN p |-> TaskOf("Remove", p[i])]
  BY Zenon DEF RemoveTasks
<1>2. IsFiniteSet(cs)
  BY ReactorAssumption, FS_Subset
<1>3. Cardinality(cs) \in Nat
  BY <1>2, FS_CardinalityType
<1>4. p \in [1 .. Cardinality(cs) -> cs]
  BY DEF SetToSeqs
<1>5. \A i \in 1 .. Cardinality(cs) :
        /\ TaskOf("Remove", p[i]) \in Task
        /\ TaskOf("Remove", p[i]).op = "Remove" /\ TaskOf("Remove", p[i]).conn \in cs
  BY <1>4, SMT DEF TaskOf, Task
<1>6. q \in [1 .. Cardinality(cs) -> Task]
  BY <1>1, <1>4, <1>5
<1>7. q \in Seq(Task)
  BY <1>3, <1>6, SeqDef
<1>8. \A i \in DOMAIN q : q[i].op = "Remove" /\ q[i].conn \in cs
  BY <1>1, <1>4, <1>5
<1> QED BY <1>7, <1>8 DEF ToSet

\* RemoveFromServer, in every case: who leaves _conns, and which tasks it adds.
LEMMA Removal ==
  ASSUME TypeInv, NEW l, NEW cs, cs \subseteq Conns, NEW rest \in [Loops -> Seq(Task)],
         RemoveFromServer(l, cs, rest)
  PROVE  /\ conns' \subseteq conns /\ conns \ cs \subseteq conns'
         /\ tasks' \in [Loops -> Seq(Task)]
         /\ \A m \in Loops : /\ Len(rest[m]) <= Len(tasks'[m])
                             /\ \A t \in ToSet(tasks'[m]) :
                                  t \in ToSet(rest[m]) \/ (t.op = "Remove" /\ t.conn \in cs)
<1>1. \A m \in Loops : Len(rest[m]) \in Nat /\ Len(rest[m]) <= Len(rest[m])
  <2> SUFFICES ASSUME NEW m \in Loops
               PROVE  Len(rest[m]) \in Nat /\ Len(rest[m]) <= Len(rest[m])
    OBVIOUS
  <2>1. Len(rest[m]) \in Nat
    BY LenProperties
  <2> QED BY <2>1, SMT
<1>2. CASE l = Main
  BY <1>1, <1>2 DEF RemoveFromServer
<1>3. CASE l # Main
  <2>1. PICK q \in RemoveTasks(cs) : tasks' = [rest EXCEPT ![Main] = @ \o q]
    BY <1>3, Zenon DEF RemoveFromServer
  <2>2. conns' = conns
    BY <1>3 DEF RemoveFromServer
  <2>3. Main \in Loops /\ rest[Main] \in Seq(Task)
    BY DEF Loops
  <2>4. q \in Seq(Task) /\ \A t \in ToSet(q) : t.op = "Remove" /\ t.conn \in cs
    BY RemovalTasks
  <2>5. /\ rest[Main] \o q \in Seq(Task)
        /\ ToSet(rest[Main] \o q) \subseteq ToSet(rest[Main]) \cup ToSet(q)
        /\ Len(rest[Main]) <= Len(rest[Main] \o q)
    BY <2>3, <2>4, ToSetConcat
  <2> DEFINE u == rest[Main] \o q
  <2>6. tasks' = [rest EXCEPT ![Main] = u]
    BY <2>1
  <2>7. /\ u \in Seq(Task) /\ Len(rest[Main]) <= Len(u)
        /\ \A t \in ToSet(u) : t \in ToSet(rest[Main]) \/ (t.op = "Remove" /\ t.conn \in cs)
    BY <2>4, <2>5
  <2> HIDE DEF u
  <2>8. tasks' \in [Loops -> Seq(Task)] /\ tasks'[Main] = u
        /\ \A m \in Loops \ {Main} : tasks'[m] = rest[m]
    BY <2>3, <2>6, <2>7
  <2> QED BY <1>1, <2>2, <2>7, <2>8
<1> QED BY <1>2, <1>3

-----------------------------------------------------------------------------
(* What the parts of the invariant ask of a step. *)

\* What a step may do to a connection that it does not accept.
Moves(d) ==
  /\ Sound(config, conn'[d])
  /\ down' = "up" => InPhase(conn'[d]) /\ conn'[d].fate = "up"
  /\ Lawful(config, conn[d], conn'[d])
  /\ conn'[d].open => conn[d].open
  /\ Started(conn[d]) => Started(conn'[d])
  /\ Made(d) => Made(d)'

Steady ==
  /\ config' = config /\ loopOf' = loopOf
  /\ conn' \in [Conns -> Connection] /\ \A d \in Conns : Moves(d)

\* A connection that a step leaves as it is.
LEMMA UnmovedMoves ==
  ASSUME IInv, NEW d \in Conns, conn'[d] = conn[d], down' = "up" => down = "up"
  PROVE  Moves(d)
<1>1. Sound(config, conn[d]) /\ (down = "up" => InPhase(conn[d]) /\ conn[d].fate = "up")
  BY DEF IInv, ConnInv
<1>2. conn[d] \in Connection
  BY DEF IInv, TypeInv
<1>3. Same(conn[d], conn[d])
  BY <1>2, Zenon DEF Same
<1>4. Lawful(config, conn[d], conn[d])
  BY <1>3, SameKept
<1> QED BY <1>1, <1>4 DEF Moves, Made

\* A step that leaves every connection as it is.
LEMMA UnmovedSteady ==
  ASSUME IInv, config' = config, loopOf' = loopOf, conn' = conn, down' = "up" => down = "up"
  PROVE  Steady
<1>1. conn' \in [Conns -> Connection]
  BY DEF IInv, TypeInv
<1> QED BY <1>1, UnmovedMoves DEF Steady

\* A connection whose handler or task has run.
LEMMA BecomeMoves ==
  ASSUME IInv, NEW c \in Conns, Made(c), NEW j, Becomes(config, conn[c], j),
         conn' = [conn EXCEPT ![c] = Settled(j)], down' = j.fate,
         config' = config, loopOf' = loopOf, down = "up"
  PROVE  Steady /\ Same(j, conn'[c]) /\ j.fate \in Fates /\ \A d \in Conns \ {c} : conn'[d] = conn[d]
<1> PICK n : n = Settled(j)
  OBVIOUS
<1>1. Sane(config, j) /\ j \in Connection
  BY DEF Becomes, Sane
<1>2. Same(j, n) /\ n.timer = j.timer
  BY <1>1, SettledFields
<1>3. Sound(config, n) /\ n \in Connection
  BY <1>1, <1>2, SettledSound DEF Same
<1>4. conn \in [Conns -> Connection]
  BY DEF IInv, TypeInv
<1>5. /\ conn' \in [Conns -> Connection] /\ conn'[c] = n
      /\ \A d \in Conns \ {c} : conn'[d] = conn[d]
  BY <1>3, <1>4
<1>6. Lawful(config, conn[c], n)
  BY <1>2, Zenon DEF Same, Becomes, Lawful, Conserved, OnceClosed, Flushed
<1>7. Moves(c)
  <2>1. j.fate = "up" => InPhase(n) /\ n.fate = "up"
    BY <1>2, SameKept, Zenon DEF Becomes, Same
  <2>2. n.open => conn[c].open
    BY <1>2, Zenon DEF Becomes, Same
  <2>3. Started(conn[c]) => Started(n)
    BY <1>2, Zenon DEF Becomes, Same, Started
  <2>4. n.status \notin {"NEW", "BACKLOG"}
    BY <1>2, Zenon DEF Becomes, Same
  <2> QED BY <1>3, <1>5, <1>6, <2>1, <2>2, <2>3, <2>4, Zenon DEF Moves, Made
<1>8. \A d \in Conns : Moves(d)
  BY <1>5, <1>7, UnmovedMoves
<1>9. j.fate \in Fates
  BY <1>1, Zenon DEF Connection
<1> QED BY <1>2, <1>5, <1>8, <1>9 DEF Steady

\* A steady step keeps the invariant of the connections.
LEMMA SteadyInv ==
  ASSUME IInv, Steady
  PROVE  ConnInv' /\ LawfulStep
BY DEF Steady, Moves, ConnInv, LawfulStep

\* A steady step keeps that of the task queues, if the tasks it adds are sound.
LEMMA SteadyQueues ==
  ASSUME IInv, Steady,
         \A l \in Loops : \A t \in ToSet(tasks'[l]) : t \in ToSet(tasks[l]) \/ TaskSound(l, t)'
  PROVE  QueueInv'
<1> SUFFICES ASSUME NEW l \in Loops, NEW t \in ToSet(tasks'[l]), t \in ToSet(tasks[l])
             PROVE  TaskSound(l, t)'
  BY DEF QueueInv
<1>1. TaskSound(l, t)
  BY DEF IInv, QueueInv
<1>2. t.conn \in Conns
  <2>1. tasks[l] \in Seq(Task)
    BY DEF IInv, TypeInv
  <2>2. DOMAIN tasks[l] = 1 .. Len(tasks[l]) /\ \A i \in 1 .. Len(tasks[l]) : tasks[l][i] \in Task
    BY <2>1, LenProperties, ElementOfSeq
  <2>3. t \in Task
    BY <2>2 DEF ToSet
  <2> QED BY <2>3 DEF Task
<1>3. Moves(t.conn)
  BY <1>2 DEF Steady
<1> QED BY <1>1, <1>3 DEF Moves, TaskSound, Steady

\* A steady step keeps that of the active lists, if it adds no channel to them.
LEMMA SteadyActive ==
  ASSUME IInv, Steady, \A l \in Loops : active'[l] \subseteq active[l],
         \A l \in Loops : \A c \in active'[l] \cap Conns :
           config.timeout = 0 /\ conn[c].open => conn'[c].open
  PROVE  ActiveInv'
<1> SUFFICES ASSUME NEW l \in Loops, NEW c \in active'[l] \cap Conns
             PROVE  /\ loopOf'[c] = l /\ Started(conn'[c])
                    /\ config.timeout = 0 => conn'[c].open
  BY DEF ActiveInv, Steady
<1>1. c \in active[l] \cap Conns
  OBVIOUS
<1>2. loopOf[c] = l /\ Started(conn[c]) /\ (config.timeout = 0 => conn[c].open)
  BY <1>1 DEF IInv, ActiveInv
<1> QED BY <1>2 DEF Steady, Moves

\* A steady step keeps that of NewConnection, if it leaves the acceptor where it was.
LEMMA SteadyAccept ==
  ASSUME IInv, Steady, accepting' = accepting,
         accepting # NoConn =>
           /\ "listen" \in active'[Main]
           /\ config.threads = 0 => conn'[accepting[2]].status = conn[accepting[2]].status,
         \A d \in Conns : d \in conns /\ conn'[d].open => d \in conns'
  PROVE  AcceptInv'
<1>1. AcceptInv /\ config' = config /\ loopOf' = loopOf
  BY DEF IInv, Steady
<1>2. ASSUME accepting # NoConn
      PROVE  /\ "listen" \in active'[Main] /\ Made(accepting[2])'
             /\ config.threads = 0 => conn'[accepting[2]].status = "CONNECTED"
  <2>1. accepting \in {"EnableInactiveRelease", "Insert"} \X Conns
    BY <1>2 DEF IInv, TypeInv
  <2>2. accepting[2] \in Conns
    BY <2>1
  <2>3. Moves(accepting[2])
    BY <2>2 DEF Steady
  <2> QED BY <1>1, <1>2, <2>3 DEF Moves, AcceptInv
<1>3. ASSUME NEW d \in Conns, conn'[d].open
      PROVE  d \in conns' \/ (accepting # NoConn /\ accepting[2] = d)
  <2>1. conn[d].open
    BY <1>3 DEF Steady, Moves
  <2> QED BY <1>1, <1>3, <2>1 DEF AcceptInv
<1> QED BY <1>1, <1>2, <1>3 DEF AcceptInv

\* What Handled leaves in a loop.
LEMMA HandledType ==
  ASSUME IInv, NEW l \in Loops, NEW ch, Handled(l, ch),
         \A m \in Loops : Len(tasks[m]) <= Len(tasks'[m]) /\ Len(tasks'[m]) \in Nat
  PROVE  /\ active' \in [Loops -> SUBSET (Conns \cup {"listen", "timer"})]
         /\ \A m \in Loops : active'[m] \subseteq active[m]
         /\ \A m \in Loops \ {l} : active'[m] = active[m]
         /\ ch \notin active'[l] /\ active[l] \ {ch} \subseteq active'[l]
         /\ batch' \in [Loops -> Nat] /\ \A m \in Loops : batch'[m] <= Len(tasks'[m])
<1> DEFINE rest == active[l] \ {ch}
<1>1. /\ active \in [Loops -> SUBSET (Conns \cup {"listen", "timer"})]
      /\ batch \in [Loops -> Nat] /\ \A m \in Loops : batch[m] <= Len(tasks[m])
      /\ \A m \in Loops : Len(tasks[m]) \in Nat
  <2>1. \A m \in Loops : tasks[m] \in Seq(Task)
    BY DEF IInv, TypeInv
  <2>2. \A m \in Loops : Len(tasks[m]) \in Nat
    BY <2>1, LenProperties
  <2> QED BY <2>2 DEF IInv, TypeInv
<1>2. active' = [active EXCEPT ![l] = rest]
  BY DEF Handled
<1>3. /\ active' \in [Loops -> SUBSET (Conns \cup {"listen", "timer"})]
      /\ active'[l] = rest /\ \A m \in Loops \ {l} : active'[m] = active[m]
  BY <1>1, <1>2
<1>4. batch' \in [Loops -> Nat] /\ \A m \in Loops : batch'[m] = batch[m] \/ batch'[m] = Len(tasks[m])
  BY <1>1, Zenon DEF Handled
<1>5. \A m \in Loops : batch'[m] <= Len(tasks'[m])
  <2> SUFFICES ASSUME NEW m \in Loops PROVE batch'[m] <= Len(tasks'[m])
    OBVIOUS
  <2>1. /\ batch[m] \in Nat /\ batch[m] <= Len(tasks[m]) /\ Len(tasks[m]) <= Len(tasks'[m])
        /\ Len(tasks[m]) \in Nat /\ Len(tasks'[m]) \in Nat
    BY <1>1
  <2> QED BY <1>4, <2>1, SMT
<1> QED BY <1>3, <1>4, <1>5

(***************************************************************************)
(* Become: a handler or a task of one connection, and what it leaves in    *)
(* the queues.                                                             *)
(***************************************************************************)
LEMMA BecomeInv ==
  ASSUME IInv, down = "up", config' = config, loopOf' = loopOf,
         NEW c \in Conns, Made(c), NEW j, Becomes(config, conn[c], j),
         NEW rest \in [Loops -> Seq(Task)],
         \A m \in Loops : ToSet(rest[m]) \subseteq ToSet(tasks[m]),
         Become(c, j, rest)
  PROVE  /\ Steady /\ Same(j, conn'[c]) /\ down' \in Fates
         /\ \A d \in Conns \ {c} : conn'[d] = conn[d]
         /\ conns' \subseteq conns /\ \A d \in conns : conn'[d].open => d \in conns'
         /\ tasks' \in [Loops -> Seq(Task)] /\ QueueInv'
         /\ \A m \in Loops : Len(rest[m]) <= Len(tasks'[m])
<1> DEFINE cs == IF j.told THEN {c} ELSE {}
<1>1. conn' = [conn EXCEPT ![c] = Settled(j)] /\ down' = j.fate
      /\ RemoveFromServer(loopOf[c], cs, rest)
  BY DEF Become
<1>2. /\ Steady /\ Same(j, conn'[c]) /\ down' \in Fates
      /\ \A d \in Conns \ {c} : conn'[d] = conn[d]
  BY <1>1, BecomeMoves
<1>3. TypeInv /\ cs \subseteq Conns
  BY DEF IInv
<1>4. \A d \in cs : ~conn'[d].open /\ Made(d)'
  <2> SUFFICES ASSUME NEW d \in cs PROVE ~conn'[d].open /\ Made(d)'
    OBVIOUS
  <2>1. d = c /\ j.told
    OBVIOUS
  <2>2. ~j.open /\ j.status \notin {"NEW", "BACKLOG"}
    BY <2>1, Zenon DEF Becomes, Sane
  <2> QED BY <1>2, <2>1, <2>2, Zenon DEF Same, Made
<1> HIDE DEF cs
<1>5. /\ conns' \subseteq conns /\ conns \ cs \subseteq conns'
      /\ tasks' \in [Loops -> Seq(Task)]
      /\ \A m \in Loops : /\ Len(rest[m]) <= Len(tasks'[m])
                          /\ \A t \in ToSet(tasks'[m]) :
                               t \in ToSet(rest[m]) \/ (t.op = "Remove" /\ t.conn \in cs)
  BY <1>1, <1>3, Removal
<1>6. QueueInv'
  <2>1. ASSUME NEW m \in Loops, NEW t \in ToSet(tasks'[m]), t \notin ToSet(tasks[m])
        PROVE  TaskSound(m, t)'
    <3>1. t.op = "Remove" /\ t.conn \in cs
      BY <1>5, <2>1
    <3>2. ~conn'[t.conn].open /\ Made(t.conn)'
      BY <1>4, <3>1
    <3> QED BY <3>1, <3>2 DEF TaskSound
  <2> QED BY <1>2, <2>1, SteadyQueues
<1>7. \A d \in conns : conn'[d].open => d \in conns'
  BY <1>4, <1>5
<1> QED BY <1>2, <1>5, <1>6, <1>7

\* An active channel is of a connection that is in the epoll or has been released.
LEMMA ActiveConn ==
  ASSUME IInv, down = "up", NEW l \in Loops, NEW c \in Conns, c \in active[l]
  PROVE  /\ loopOf[c] = l /\ Made(c) /\ (Live(conn[c]) \/ Released(conn[c]))
         /\ config.timeout = 0 => conn[c].open
<1>1. loopOf[c] = l /\ Started(conn[c]) /\ (config.timeout = 0 => conn[c].open)
  BY DEF IInv, ActiveInv
<1>2. InPhase(conn[c])
  BY DEF IInv, ConnInv
<1> QED BY <1>1, <1>2 DEF InPhase, Started, Made, Waiting, Accepted

\* An active channel of a connection is handled.
LEMMA HandleChannelInv ==
  ASSUME IInv, down = "up", NEW l \in Loops, NEW c \in Conns, HandleChannel(l, c)
  PROVE  IInv' /\ LawfulStep
<1>1. /\ config' = config /\ loopOf' = loopOf /\ turn' = turn /\ accepting' = accepting
      /\ expired' = expired /\ called' = called /\ Handled(l, c)
      /\ c \in active[l] /\ ~Busy(l)
  BY DEF HandleChannel
<1>2. /\ loopOf[c] = l /\ Made(c) /\ (Live(conn[c]) \/ Released(conn[c]))
      /\ config.timeout = 0 => conn[c].open
  BY <1>1, ActiveConn
<1>3. TypeInv
  BY DEF IInv
<1>4. \A m \in Loops : Len(tasks[m]) \in Nat /\ Len(tasks[m]) <= Len(tasks[m])
  <2>1. \A m \in Loops : tasks[m] \in Seq(Task)
    BY <1>3 DEF TypeInv
  <2>2. \A m \in Loops : Len(tasks[m]) \in Nat
    BY <2>1, LenProperties
  <2> QED BY <2>2, SMT
<1>5. /\ Steady /\ down' \in Fates /\ QueueInv'
      /\ \A d \in Conns \ {c} : conn'[d] = conn[d]
      /\ conns' \subseteq conns /\ \A d \in conns : conn'[d].open => d \in conns'
      /\ tasks' \in [Loops -> Seq(Task)]
      /\ \A m \in Loops : Len(tasks[m]) <= Len(tasks'[m])
  <2>1. CASE Freed(c)
    <3>1. down' = "dangling" /\ conn' = conn /\ conns' = conns /\ tasks' = tasks
      BY <2>1 DEF HandleChannel
    <3>2. Steady
      BY <1>1, <3>1, UnmovedSteady
    <3>3. QueueInv'
      BY <3>1, <3>2, SteadyQueues
    <3> QED BY <1>3, <1>4, <3>1, <3>2, <3>3 DEF TypeInv, Fates
  <2>2. CASE ~Freed(c)
    <3>1. PICK k \in HandleEvents(conn[c]) : Become(c, k, tasks)
      BY <2>2, Zenon DEF HandleChannel
    <3>2. Becomes(config, conn[c], k)
      <4>1. Sane(config, conn[c]) /\ ("HUP" \in conn[c].rev => conn[c].rst)
        BY DEF IInv, ConnInv, Sound
      <4> QED BY <1>2, <1>3, <4>1, EventsBecome, ScenarioFacts
    <3>3. tasks \in [Loops -> Seq(Task)]
      BY <1>3 DEF TypeInv
    <3> QED BY <1>1, <1>2, <3>1, <3>2, <3>3, BecomeInv
  <2> QED BY <2>1, <2>2
<1>6. \A m \in Loops : Len(tasks'[m]) \in Nat
  <2>1. \A m \in Loops : tasks'[m] \in Seq(Task)
    BY <1>5
  <2> QED BY <2>1, LenProperties
<1>7. /\ active' \in [Loops -> SUBSET (Conns \cup {"listen", "timer"})]
      /\ \A m \in Loops : active'[m] \subseteq active[m]
      /\ \A m \in Loops \ {l} : active'[m] = active[m]
      /\ c \notin active'[l]
      /\ batch' \in [Loops -> Nat] /\ \A m \in Loops : batch'[m] <= Len(tasks'[m])
  BY <1>1, <1>5, <1>6, HandledType
<1>8. TypeInv'
  BY <1>1, <1>3, <1>5, <1>7, Zenon DEF TypeInv, Steady
<1>9. ActiveInv'
  <2>1. \A m \in Loops : c \notin active'[m]
    <3> SUFFICES ASSUME NEW m \in Loops, c \in active'[m] PROVE FALSE
      OBVIOUS
    <3>1. c \in active[m]
      BY <1>7
    <3>2. loopOf[c] = m
      BY <3>1, ActiveConn
    <3> QED BY <1>2, <1>7, <3>2
  <2> QED BY <1>5, <1>7, <2>1, SteadyActive
<1>10. AcceptInv'
  <2>1. ASSUME accepting # NoConn
        PROVE  /\ "listen" \in active'[Main]
               /\ config.threads = 0 => conn'[accepting[2]].status = conn[accepting[2]].status
    <3>1. l # Main /\ Main \in Loops
      BY <1>1, <2>1 DEF Busy, Loops
    <3>2. "listen" \in active[Main] /\ (config.threads = 0 => loopOf[c] = Main)
      BY <2>1 DEF IInv, AcceptInv
    <3> QED BY <1>2, <1>7, <3>1, <3>2
  <2> QED BY <1>1, <1>5, <2>1, SteadyAccept
<1> QED BY <1>5, <1>8, <1>9, <1>10, SteadyInv DEF IInv

(***************************************************************************)
(* TimerReadCb: a connection whose timer runs out is released by it.       *)
(***************************************************************************)
LEMMA DueReleased ==
  ASSUME NEW s \in Scenario, NEW k, Sound(s, k), k.timer = 1,
         NEW n, n = [ReleaseInLoop(k) EXCEPT !.told = FALSE]
  PROVE  Sound(s, n) /\ Released(n) /\ Lawful(s, k, n) /\ n.fate = k.fate
<1> PICK g : g = ReleaseInLoop(k)
  OBVIOUS
<1>1. k \in Connection /\ s.timeout # 0 /\ s.timeout \in Nat
  <2>1. k \in Connection /\ 1 <= s.timeout /\ s.timeout \in Nat
    BY DEF Sound, Sane, Scenario
  <2> QED BY <2>1, SMT
<1>2. Gone(k, g)
  BY <1>1, ReleaseGone
<1>3. n \in Connection
  <2>1. g \in Connection
    BY <1>2 DEF Gone
  <2> QED BY <2>1, Zenon DEF Connection
<1>4. /\ n.status = g.status /\ n.open = g.open /\ n.reg = g.reg /\ n.ev = g.ev
      /\ n.in = g.in /\ n.out = g.out /\ n.closed = g.closed /\ n.fate = g.fate
      /\ n.sent = g.sent /\ n.recvq = g.recvq /\ n.got = g.got /\ n.lost = g.lost
      /\ n.fin = g.fin /\ n.rst = g.rst /\ n.timer = g.timer /\ ~n.told /\ n.rev = g.rev
  BY <1>2, SMT DEF Connection, Gone
<1>5. n.in + n.recvq <= n.sent
  <2>1. n.in = k.in /\ n.recvq = 0 /\ n.sent = k.sent /\ k.in + k.recvq <= k.sent
    BY <1>2, <1>4, Zenon DEF Gone, Sound, Sane
  <2> QED BY <1>1, <2>1, SMT DEF Connection
<1>6. n.timer = 0 /\ 0 <= s.timeout
  BY <1>1, <1>2, <1>4, SMT DEF Gone
<1>7. Sound(s, n)
  BY <1>2, <1>3, <1>4, <1>5, <1>6, Zenon DEF Sound, Sane, Gone
<1>8. Released(n) /\ n.fate = k.fate
  BY <1>2, <1>4, Zenon DEF Released, Gone
<1>9. Lawful(s, k, n)
  <2>1. Conserved(n) /\ n.in = k.in
    BY <1>2, <1>4, Zenon DEF Conserved, Gone
  <2> QED BY <1>1, <2>1, Zenon DEF Lawful
<1> QED BY <1>7, <1>8, <1>9

\* The wheel's pointer moves on by one slot: a connection's timer has one tick less to
\* wait for.
LEMMA Ticked ==
  ASSUME NEW s \in Scenario, NEW k, Sound(s, k), k.timer > 0,
         NEW n, n = [k EXCEPT !.timer = @ - 1]
  PROVE  Sound(s, n) /\ Same(k, n) /\ ~Waiting(k)
<1> DEFINE t == k.timer - 1
<1>1. k \in Connection /\ s.timeout \in Nat /\ k.timer <= s.timeout
  BY DEF Sound, Sane, Scenario
<1>2. t \in Nat /\ t <= s.timeout /\ k.timer # 0
  BY <1>1, SMT DEF Connection
<1> HIDE DEF t
<1>3. n = [k EXCEPT !.timer = t]
  BY DEF t
<1>4. n \in Connection
  BY <1>1, <1>2, <1>3, Zenon DEF Connection
<1>5. /\ n.status = k.status /\ n.open = k.open /\ n.reg = k.reg /\ n.ev = k.ev
      /\ n.in = k.in /\ n.out = k.out /\ n.closed = k.closed /\ n.fate = k.fate
      /\ n.sent = k.sent /\ n.recvq = k.recvq /\ n.got = k.got /\ n.lost = k.lost
      /\ n.fin = k.fin /\ n.rst = k.rst /\ n.told = k.told /\ n.rev = k.rev /\ n.timer = t
  BY <1>1, <1>2, <1>3, SMT DEF Connection
<1>6. Same(k, n)
  BY <1>4, <1>5, Zenon DEF Same
<1>7. Sound(s, n)
  BY <1>2, <1>4, <1>5, Zenon DEF Sound, Sane
<1> QED BY <1>2, <1>6, <1>7 DEF Waiting

\* The timer descriptor is read, and the tasks of a slot expire.
LEMMA TimerReadCbInv ==
  ASSUME IInv, down = "up", NEW l \in Loops, TimerReadCb(l)
  PROVE  IInv' /\ LawfulStep
<1> DEFINE due == {c \in Conns : loopOf[c] = l /\ conn[c].timer = 1 /\ ~Freed(c)}
           running == {c \in Conns : loopOf[c] = l /\ conn[c].timer > 0}
<1>1. /\ config' = config /\ loopOf' = loopOf /\ turn' = turn /\ accepting' = accepting
      /\ expired' = [expired EXCEPT ![l] = FALSE] /\ called' = called /\ down' = down
      /\ Handled(l, "timer") /\ ~Busy(l) /\ RemoveFromServer(l, due, tasks)
  BY DEF TimerReadCb
<1>2. conn' = [c \in Conns |->
                 IF c \in due THEN [ReleaseInLoop(conn[c]) EXCEPT !.told = FALSE]
                 ELSE IF c \in running THEN [conn[c] EXCEPT !.timer = @ - 1]
                 ELSE conn[c]]
  BY DEF TimerReadCb
<1>3. TypeInv /\ ConnInv /\ config \in Scenario /\ due \subseteq Conns
  BY ScenarioFacts DEF IInv
<1>4. ASSUME NEW c \in due PROVE Moves(c) /\ ~conn'[c].open /\ Made(c)' /\ conn'[c] \in Connection
  <2>1. c \in Conns /\ conn[c].timer = 1 /\ conn'[c] = [ReleaseInLoop(conn[c]) EXCEPT !.told = FALSE]
    BY <1>2
  <2>2. Sound(config, conn[c]) /\ conn[c].fate = "up" /\ InPhase(conn[c])
    BY <1>3, <2>1 DEF ConnInv
  <2> PICK n : n = conn'[c]
    OBVIOUS
  <2>3. Sound(config, n) /\ Released(n) /\ Lawful(config, conn[c], n) /\ n.fate = "up"
    BY <1>3, <2>1, <2>2, DueReleased
  <2>4. ~n.open /\ Started(n) /\ InPhase(n) /\ n.status \notin {"NEW", "BACKLOG"}
    BY <2>3 DEF Released, Started, InPhase
  <2> QED BY <2>3, <2>4, Zenon DEF Moves, Made, Sound, Sane
<1>5. ASSUME NEW c \in Conns, c \notin due
      PROVE  Moves(c) /\ conn'[c].open = conn[c].open /\ conn'[c] \in Connection
  <2>1. CASE c \in running
    <3>1. conn[c].timer > 0 /\ conn'[c] = [conn[c] EXCEPT !.timer = @ - 1]
      BY <1>2, <1>5, <2>1
    <3>2. Sound(config, conn[c]) /\ conn[c].fate = "up" /\ InPhase(conn[c])
      BY <1>3 DEF ConnInv
    <3> PICK n : n = conn'[c]
      OBVIOUS
    <3>3. Sound(config, n) /\ Same(conn[c], n) /\ ~Waiting(conn[c])
      BY <1>3, <3>1, <3>2, Ticked
    <3>4. InPhase(n) /\ Lawful(config, conn[c], n) /\ (Started(conn[c]) => Started(n))
      BY <3>2, <3>3, SameKept
    <3> QED BY <3>2, <3>3, <3>4, Zenon DEF Moves, Made, Same
  <2>2. CASE c \notin running
    <3>1. conn'[c] = conn[c]
      BY <1>2, <1>5, <2>2
    <3> QED BY <1>1, <1>3, <3>1, UnmovedMoves DEF TypeInv
  <2> QED BY <2>1, <2>2
<1>6. Steady
  <2>1. conn' \in [Conns -> Connection]
    BY <1>2, <1>4, <1>5
  <2> QED BY <1>1, <1>4, <1>5, <2>1 DEF Steady
<1>7. ASSUME NEW c \in due PROVE config.timeout # 0 /\ loopOf[c] = l
  <2>1. c \in Conns /\ conn[c].timer = 1 /\ loopOf[c] = l
    OBVIOUS
  <2>2. conn[c].timer <= config.timeout
    BY <1>3, <2>1 DEF ConnInv, Sound, Sane
  <2> QED BY <2>1, <2>2, SMT
<1>8. \A c \in running : loopOf[c] = l
  OBVIOUS
<1>9. \A c \in Conns : c \notin due /\ c \notin running => conn'[c] = conn[c]
  BY <1>2
<1> HIDE DEF due, running
<1>10. /\ conns' \subseteq conns /\ conns \ due \subseteq conns'
       /\ tasks' \in [Loops -> Seq(Task)]
       /\ \A m \in Loops : /\ Len(tasks[m]) <= Len(tasks'[m])
                           /\ \A t \in ToSet(tasks'[m]) :
                                t \in ToSet(tasks[m]) \/ (t.op = "Remove" /\ t.conn \in due)
  BY <1>1, <1>3, Removal DEF TypeInv
<1>11. QueueInv'
  <2>1. ASSUME NEW m \in Loops, NEW t \in ToSet(tasks'[m]), t \notin ToSet(tasks[m])
        PROVE  TaskSound(m, t)'
    <3>1. t.op = "Remove" /\ t.conn \in due
      BY <1>10, <2>1
    <3>2. ~conn'[t.conn].open /\ Made(t.conn)'
      BY <1>4, <3>1
    <3> QED BY <3>1, <3>2 DEF TaskSound
  <2> QED BY <1>6, <2>1, SteadyQueues
<1>12. \A m \in Loops : Len(tasks'[m]) \in Nat
  <2>1. \A m \in Loops : tasks'[m] \in Seq(Task)
    BY <1>10
  <2> QED BY <2>1, LenProperties
<1>13. /\ active' \in [Loops -> SUBSET (Conns \cup {"listen", "timer"})]
       /\ \A m \in Loops : active'[m] \subseteq active[m]
       /\ \A m \in Loops \ {l} : active'[m] = active[m]
       /\ batch' \in [Loops -> Nat] /\ \A m \in Loops : batch'[m] <= Len(tasks'[m])
  BY <1>1, <1>10, <1>12, HandledType
<1>14. TypeInv'
  <2>1. expired' \in [Loops -> BOOLEAN]
    BY <1>1, <1>3, Zenon DEF TypeInv
  <2> QED BY <1>1, <1>3, <1>6, <1>10, <1>13, <2>1, Zenon DEF TypeInv, Steady
<1>15. ActiveInv'
  <2>1. \A c \in Conns : config.timeout = 0 /\ conn[c].open => conn'[c].open
    BY <1>5, <1>7
  <2> QED BY <1>6, <1>13, <2>1, SteadyActive
<1>16. AcceptInv'
  <2>1. \A d \in conns : conn'[d].open => d \in conns'
    BY <1>4, <1>10
  <2>2. ASSUME accepting # NoConn
        PROVE  /\ "listen" \in active'[Main]
               /\ config.threads = 0 => conn'[accepting[2]].status = conn[accepting[2]].status
    <3>1. l # Main /\ Main \in Loops
      BY <1>1, <2>2 DEF Busy, Loops
    <3>2. /\ "listen" \in active[Main]
          /\ config.threads = 0 => \A c \in Conns : loopOf[c] = Main
      BY <2>2 DEF IInv, AcceptInv
    <3>3. accepting[2] \in Conns
      <4>1. accepting \in {"EnableInactiveRelease", "Insert"} \X Conns
        BY <1>3, <2>2 DEF TypeInv
      <4> QED BY <4>1
    <3>4. config.threads = 0 => accepting[2] \notin due /\ accepting[2] \notin running
      BY <1>7, <1>8, <3>1, <3>2, <3>3
    <3> QED BY <1>9, <1>13, <3>1, <3>2, <3>3, <3>4
  <2> QED BY <1>1, <1>6, <2>1, <2>2, SteadyAccept
<1> QED BY <1>6, <1>11, <1>14, <1>15, <1>16, SteadyInv DEF IInv

(***************************************************************************)
(* RunTask: the next task of the batch, and what it finds of its           *)
(* connection.                                                             *)
(***************************************************************************)
LEMMA TaskConn ==
  ASSUME IInv, down = "up", NEW l \in Loops, NEW t \in Task, TaskSound(l, t)
  PROVE  LET k == conn[t.conn]
         IN  /\ Sane(config, k) /\ k.fate = "up" /\ InPhase(k)
             /\ "HUP" \in k.rev => k.rst
             /\ t.conn \in Conns /\ Made(t.conn) /\ k.status \notin {"NEW", "BACKLOG"}
             /\ Started(k) => Live(k) \/ Released(k)
<1>1. t.conn \in Conns /\ Made(t.conn)
  BY DEF Task, TaskSound
<1>2. Sound(config, conn[t.conn]) /\ conn[t.conn].fate = "up" /\ InPhase(conn[t.conn])
  BY <1>1 DEF IInv, ConnInv
<1>3. Started(conn[t.conn]) => Live(conn[t.conn]) \/ Released(conn[t.conn])
  BY <1>2 DEF InPhase, Started, Waiting, Accepted
<1> QED BY <1>1, <1>2, <1>3 DEF Sound, Made

\* What each task may turn its connection into.
LEMMA TaskBecomes ==
  ASSUME IInv, down = "up", NEW l \in Loops, RunTask(l), tasks[l] # <<>>,
         NEW t, t = Head(tasks[l]), t \in Task, TaskSound(l, t), t.op # "Remove"
  PROVE  \E j : Becomes(config, conn[t.conn], j) /\ Become(t.conn, j, [tasks EXCEPT ![l] = Tail(@)])
<1> DEFINE c == t.conn
           k == conn[c]
           rest == [tasks EXCEPT ![l] = Tail(@)]
<1>1. /\ Sane(config, k) /\ k.fate = "up" /\ InPhase(k) /\ ("HUP" \in k.rev => k.rst)
      /\ c \in Conns /\ Made(c) /\ k.status \notin {"NEW", "BACKLOG"}
      /\ Started(k) => Live(k) \/ Released(k)
  BY TaskConn
<1>2. config \in Scenario
  BY ScenarioFacts DEF IInv
<1>3. CASE t.op = "Established"
  <2>1. Become(c, EstablishedInLoop(k), rest)
    BY <1>3, Zenon DEF RunTask
  <2>2. Becomes(config, k, EstablishedInLoop(k))
    BY <1>1, <1>2, EstablishedBecomes
  <2> QED BY <2>1, <2>2
<1>4. CASE t.op = "EnableInactiveRelease"
  <2>1. Become(c, EnableInactiveReleaseInLoop(k), rest)
    BY <1>4, Zenon DEF RunTask
  <2>2. config.threads # 0
    BY <1>4 DEF TaskSound
  <2>3. Becomes(config, k, EnableInactiveReleaseInLoop(k))
    BY <1>1, <1>2, <2>2, EnableBecomes
  <2> QED BY <2>1, <2>3
<1>5. CASE t.op = "Send"
  <2>1. Become(c, SendInLoop(k, 1), rest)
    BY <1>5, Zenon DEF RunTask
  <2>2. Started(k) /\ "Send" \in config.calls
    BY <1>5 DEF TaskSound
  <2>3. Becomes(config, k, SendInLoop(k, 1))
    BY <1>1, <1>2, <2>2, SendBecomes
  <2> QED BY <2>1, <2>3
<1>6. CASE t.op = "ShutDown"
  <2>1. PICK j \in ShutDownInLoop(k) : Become(c, j, rest)
    BY <1>6, Zenon DEF RunTask
  <2>2. Started(k) /\ "ShutDown" \in config.calls
    BY <1>6 DEF TaskSound
  <2>3. Becomes(config, k, j)
    BY <1>1, <1>2, <2>2, ShutDownBecomes
  <2> QED BY <2>1, <2>3
<1> QED BY <1>3, <1>4, <1>5, <1>6 DEF Task

\* A loop runs a task of the batch that RunTask() has swapped out.
LEMMA RunTaskInv ==
  ASSUME IInv, down = "up", NEW l \in Loops, RunTask(l)
  PROVE  IInv' /\ LawfulStep
<1> DEFINE rest == [tasks EXCEPT ![l] = Tail(@)]
<1>1. /\ config' = config /\ loopOf' = loopOf /\ turn' = turn /\ accepting' = accepting
      /\ expired' = expired /\ called' = called /\ active' = active
      /\ batch' = [batch EXCEPT ![l] = @ - 1] /\ active[l] = {} /\ batch[l] > 0
  BY DEF RunTask
<1>2. TypeInv /\ tasks[l] \in Seq(Task) /\ QueueInv
  BY DEF IInv, TypeInv
<1>3. /\ batch[l] \in Nat /\ batch[l] <= Len(tasks[l]) /\ batch \in [Loops -> Nat]
      /\ \A m \in Loops : Len(tasks[m]) \in Nat /\ batch[m] <= Len(tasks[m]) /\ batch[m] \in Nat
  <2>1. \A m \in Loops : tasks[m] \in Seq(Task)
    BY <1>2 DEF TypeInv
  <2>2. \A m \in Loops : Len(tasks[m]) \in Nat
    BY <2>1, LenProperties
  <2> QED BY <1>2, <2>2 DEF TypeInv
<1>4. tasks[l] # <<>>
  <2>1. Len(tasks[l]) # 0
    BY <1>1, <1>3, SMT
  <2> QED BY <1>2, <2>1, EmptySeq
<1> PICK t : t = Head(tasks[l])
  OBVIOUS
<1>5. /\ t \in ToSet(tasks[l]) /\ t \in Task /\ TaskSound(l, t)
      /\ Tail(tasks[l]) \in Seq(Task) /\ ToSet(Tail(tasks[l])) \subseteq ToSet(tasks[l])
      /\ Len(Tail(tasks[l])) = Len(tasks[l]) - 1
  <2>1. /\ Tail(tasks[l]) \in Seq(Task) /\ Head(tasks[l]) \in ToSet(tasks[l])
        /\ ToSet(Tail(tasks[l])) \subseteq ToSet(tasks[l])
        /\ Len(Tail(tasks[l])) = Len(tasks[l]) - 1 /\ ToSet(tasks[l]) \subseteq Task
    BY <1>2, <1>4, ToSetTail
  <2> QED BY <1>2, <2>1 DEF QueueInv
<1>6. /\ rest \in [Loops -> Seq(Task)]
      /\ \A m \in Loops : ToSet(rest[m]) \subseteq ToSet(tasks[m])
      /\ rest[l] = Tail(tasks[l]) /\ \A m \in Loops \ {l} : rest[m] = tasks[m]
  BY <1>2, <1>5 DEF TypeInv
<1>7. /\ Steady /\ down' \in Fates /\ QueueInv'
      /\ conns' \subseteq conns /\ \A d \in conns : conn'[d].open => d \in conns'
      /\ tasks' \in [Loops -> Seq(Task)]
      /\ \A m \in Loops : Len(rest[m]) <= Len(tasks'[m])
      /\ \A d \in Conns : conn'[d] = conn[d] \/ loopOf[d] = l
  <2>1. CASE t.op = "Remove"
    <3>1. conns' = conns \ {t.conn} /\ tasks' = rest /\ conn' = conn /\ down' = down
      BY <2>1, Zenon DEF RunTask
    <3>2. Steady
      BY <1>1, <3>1, UnmovedSteady
    <3>3. QueueInv'
      BY <1>6, <3>1, <3>2, SteadyQueues
    <3>4. ~conn[t.conn].open
      BY <1>5, <2>1 DEF TaskSound
    <3>5. \A m \in Loops : Len(rest[m]) <= Len(rest[m])
      <4>1. \A m \in Loops : rest[m] \in Seq(Task)
        BY <1>6
      <4>2. \A m \in Loops : Len(rest[m]) \in Nat
        BY <4>1, LenProperties
      <4> QED BY <4>2, SMT
    <3> QED BY <1>2, <1>6, <3>1, <3>2, <3>3, <3>4, <3>5 DEF TypeInv
  <2>2. CASE t.op # "Remove"
    <3>1. PICK j : Becomes(config, conn[t.conn], j) /\ Become(t.conn, j, rest)
      BY <1>4, <1>5, <2>2, TaskBecomes
    <3>2. t.conn \in Conns /\ Made(t.conn) /\ loopOf[t.conn] = l
      BY <1>5, <2>2 DEF Task, TaskSound
    <3> HIDE DEF rest
    <3> QED BY <1>1, <1>6, <3>1, <3>2, BecomeInv
  <2> QED BY <2>1, <2>2
<1>8. batch' \in [Loops -> Nat] /\ \A m \in Loops : batch'[m] <= Len(tasks'[m])
  <2>1. batch[l] - 1 \in Nat
    BY <1>1, <1>3, SMT
  <2>2. /\ batch' \in [Loops -> Nat] /\ batch'[l] = batch[l] - 1
        /\ \A m \in Loops \ {l} : batch'[m] = batch[m]
    BY <1>1, <1>3, <2>1
  <2>3. \A m \in Loops : tasks'[m] \in Seq(Task)
    BY <1>7
  <2>4. \A m \in Loops : Len(tasks'[m]) \in Nat
    BY <2>3, LenProperties
  <2>5. batch'[l] <= Len(tasks'[l])
    <3>1. Len(rest[l]) = Len(tasks[l]) - 1 /\ Len(rest[l]) <= Len(tasks'[l])
      BY <1>5, <1>6, <1>7
    <3> QED BY <1>3, <2>2, <2>4, <3>1, SMT
  <2>6. ASSUME NEW m \in Loops \ {l} PROVE batch'[m] <= Len(tasks'[m])
    <3>1. Len(tasks[m]) <= Len(tasks'[m])
      BY <1>6, <1>7
    <3> QED BY <1>3, <2>2, <2>4, <3>1, SMT
  <2> QED BY <2>2, <2>5, <2>6
<1>9. TypeInv'
  BY <1>1, <1>2, <1>7, <1>8, Zenon DEF TypeInv, Steady
<1>10. ActiveInv'
  <2>1. ASSUME NEW m \in Loops, NEW d \in active[m] \cap Conns PROVE conn'[d] = conn[d]
    <3>1. loopOf[d] = m
      BY DEF IInv, ActiveInv
    <3> QED BY <1>1, <1>7, <3>1
  <2> QED BY <1>1, <1>7, <2>1, SteadyActive
<1>11. AcceptInv'
  <2>1. ASSUME accepting # NoConn
        PROVE  /\ "listen" \in active'[Main]
               /\ config.threads = 0 => conn'[accepting[2]].status = conn[accepting[2]].status
    <3>1. /\ "listen" \in active[Main]
          /\ config.threads = 0 => \A d \in Conns : loopOf[d] = Main
      BY <2>1 DEF IInv, AcceptInv
    <3>2. l # Main
      BY <1>1, <3>1
    <3>3. accepting[2] \in Conns
      <4>1. accepting \in {"EnableInactiveRelease", "Insert"} \X Conns
        BY <1>2, <2>1 DEF TypeInv
      <4> QED BY <4>1
    <3> QED BY <1>1, <1>7, <3>1, <3>2, <3>3
  <2> QED BY <1>1, <1>7, <2>1, SteadyAccept
<1> QED BY <1>7, <1>9, <1>10, <1>11, SteadyInv DEF IInv

(***************************************************************************)
(* Acceptor and TcpServer: what one more task leaves in the queues, and    *)
(* the three steps of AcceptCallback.                                      *)
(***************************************************************************)
LEMMA TaskAdded ==
  ASSUME IInv, NEW l \in Loops, NEW t \in Task, tasks' = [tasks EXCEPT ![l] = Append(@, t)]
  PROVE  /\ tasks' \in [Loops -> Seq(Task)]
         /\ \A m \in Loops : \A u \in ToSet(tasks'[m]) : u \in ToSet(tasks[m]) \/ (m = l /\ u = t)
         /\ \A m \in Loops : batch[m] <= Len(tasks'[m])
<1>1. tasks \in [Loops -> Seq(Task)] /\ \A m \in Loops : batch[m] \in Nat /\ batch[m] <= Len(tasks[m])
  BY DEF IInv, TypeInv
<1> PICK a : a = Append(tasks[l], t)
  OBVIOUS
<1>2. a \in Seq(Task) /\ ToSet(a) \subseteq ToSet(tasks[l]) \cup {t} /\ Len(a) = Len(tasks[l]) + 1
  <2>1. tasks[l] \in Seq(Task)
    BY <1>1
  <2> QED BY <2>1, ToSetAppend, AppendProperties
<1>3. /\ tasks' \in [Loops -> Seq(Task)] /\ tasks'[l] = a
      /\ \A m \in Loops \ {l} : tasks'[m] = tasks[m]
  BY <1>1, <1>2
<1>4. batch[l] <= Len(a)
  <2>1. Len(tasks[l]) \in Nat
    BY <1>1, LenProperties
  <2> QED BY <1>1, <1>2, <2>1, SMT
<1> QED BY <1>1, <1>2, <1>3, <1>4

\* The accepted connection, and the connection as it was in the backlog.
LEMMA AcceptedFields ==
  ASSUME NEW s, NEW b, Sound(s, b), Waiting(b), b.status = "BACKLOG", b.fate = "up"
  PROVE  LET k == [b EXCEPT !.status = "CONNECTING", !.open = TRUE]
         IN  /\ Sound(s, k) /\ Accepted(k) /\ k.fate = "up" /\ Lawful(s, b, k)
             /\ k \in Connection /\ k.status = "CONNECTING"
<1> PICK k : k = [b EXCEPT !.status = "CONNECTING", !.open = TRUE]
  OBVIOUS
<1>1. b \in Connection /\ "CONNECTING" \in Statuses
  BY DEF Sound, Sane, Statuses
<1>2. k \in Connection
  BY <1>1, Zenon DEF Connection
<1>3. /\ k.status = "CONNECTING" /\ k.open /\ k.reg = b.reg /\ k.ev = b.ev
      /\ k.in = b.in /\ k.out = b.out /\ k.closed = b.closed /\ k.fate = b.fate
      /\ k.sent = b.sent /\ k.recvq = b.recvq /\ k.got = b.got /\ k.lost = b.lost
      /\ k.fin = b.fin /\ k.rst = b.rst /\ k.timer = b.timer /\ k.told = b.told /\ k.rev = b.rev
  BY <1>1, SMT DEF Connection
<1>4. k.status # "DISCONNECTED" /\ k.status # "NEW"
  BY <1>3
<1>5. Sound(s, k)
  BY <1>2, <1>3, <1>4, Zenon DEF Sound, Sane
<1>6. Accepted(k)
  BY <1>3, Zenon DEF Accepted, Waiting
<1>7. Lawful(s, b, k)
  BY <1>3, <1>4, ZenonT(60) DEF Lawful, Conserved, OnceClosed, Flushed
<1> QED BY <1>2, <1>3, <1>5, <1>6, <1>7

\* Two changes in one step, which release nothing, are lawful if each is.
LEMMA LawfulTransitive ==
  ASSUME NEW s, NEW i, NEW k, NEW j, Lawful(s, i, k), Lawful(s, k, j),
         k.status # "DISCONNECTED", j.status # "DISCONNECTED"
  PROVE  Lawful(s, i, j)
BY Zenon DEF Lawful, Flushed

\* The loop that GetNextLoopThread chooses.
LEMMA NextLoopType ==
  ASSUME TypeInv
  PROVE  /\ GetNextLoopThread \in Loops /\ NextTurn \in 0 .. Len(SubLoops)
         /\ config.threads = 0 => GetNextLoopThread = Main
<1>1. config.threads \in 0 .. Len(SubLoops) /\ Len(SubLoops) \in Nat /\ turn \in Nat
      /\ turn \in 0 .. Len(SubLoops) /\ Main \in Loops
  <2>1. turn \in 0 .. Len(SubLoops)
    BY DEF TypeInv
  <2> QED BY <2>1, ScenarioFacts
<1>2. CASE config.threads = 0
  BY <1>1, <1>2 DEF GetNextLoopThread, NextTurn
<1>3. CASE config.threads # 0
  <2> DEFINE n == (turn + 1) % config.threads
  <2>1. n \in 0 .. config.threads - 1
    BY <1>1, <1>3, SMT
  <2>2. n + 1 \in 1 .. Len(SubLoops) /\ n \in 0 .. Len(SubLoops)
    BY <1>1, <2>1, SMT
  <2>3. DOMAIN SubLoops = 1 .. Len(SubLoops)
    BY ReactorAssumption, LenProperties
  <2>4. NextTurn = n /\ GetNextLoopThread = SubLoops[n + 1]
    BY <1>3 DEF NextTurn, GetNextLoopThread
  <2>5. SubLoops[n + 1] \in ToSet(SubLoops)
    BY <2>2, <2>3 DEF ToSet
  <2> QED BY <1>3, <2>2, <2>4, <2>5 DEF Loops
<1> QED BY <1>2, <1>3

\* The acceptor takes a connection: NewConnection up to its first interruption.
LEMMA HandleListenReadInv ==
  ASSUME IInv, down = "up", NEW c \in Conns, HandleListenRead(c)
  PROVE  IInv' /\ LawfulStep
<1> DEFINE l == GetNextLoopThread
<1> PICK b : b = conn[c]
  OBVIOUS
<1> PICK k : k = [b EXCEPT !.status = "CONNECTING", !.open = TRUE]
  OBVIOUS
<1> PICK e : e = EstablishedInLoop(k)
  OBVIOUS
<1>1. /\ config' = config /\ loopOf' = [loopOf EXCEPT ![c] = l] /\ turn' = NextTurn
      /\ conns' = conns /\ active' = active /\ batch' = batch /\ expired' = expired
      /\ called' = called /\ "listen" \in active[Main] /\ accepting = NoConn
      /\ b.status = "BACKLOG"
      /\ accepting' = <<IF config.timeout > 0 THEN "EnableInactiveRelease" ELSE "Insert", c>>
      /\ l = Main => conn' = [conn EXCEPT ![c] = e] /\ down' = e.fate /\ tasks' = tasks
      /\ l # Main => /\ conn' = [conn EXCEPT ![c] = k] /\ down' = down
                     /\ tasks' = [tasks EXCEPT ![l] = Append(@, TaskOf("Established", c))]
  BY DEF HandleListenRead, RunInLoop
<1>2. /\ TypeInv /\ config \in Scenario /\ l \in Loops /\ NextTurn \in 0 .. Len(SubLoops)
      /\ config.threads = 0 => l = Main
  BY NextLoopType, ScenarioFacts DEF IInv
<1> HIDE DEF l
<1>3. Sound(config, b) /\ Waiting(b) /\ b.fate = "up" /\ b.status = "BACKLOG"
  <2>1. Sound(config, b) /\ InPhase(b) /\ b.fate = "up"
    BY DEF IInv, ConnInv
  <2> QED BY <1>1, <2>1 DEF InPhase, Accepted, Live, Released
<1>4. /\ Sound(config, k) /\ Accepted(k) /\ k.fate = "up" /\ Lawful(config, b, k)
      /\ k \in Connection /\ k.status = "CONNECTING"
  BY <1>3, AcceptedFields, Zenon
<1>5. /\ Sound(config, e) /\ Live(e) /\ e.fate = "up" /\ e.status = "CONNECTED"
      /\ Lawful(config, b, e) /\ e \in Connection
  <2>1. /\ Becomes(config, k, e) /\ e.told = k.told /\ Live(e) /\ e.fate = "up"
        /\ e.rev = k.rev /\ e.status = "CONNECTED"
    <3>1. Sane(config, k) /\ InPhase(k) /\ k.status \notin {"NEW", "BACKLOG"}
      BY <1>4 DEF Sound, InPhase
    <3> QED BY <1>2, <1>4, <3>1, EstablishedBecomes, ZenonT(60)
  <2>2. e.rst = k.rst
    <3>1. Alike(k, e)
      BY <1>4, EstablishedFields
    <3> QED BY <3>1 DEF Alike
  <2>3. Lawful(config, b, e)
    BY <1>4, <2>1, LawfulTransitive, ZenonT(60) DEF Becomes
  <2> QED BY <1>4, <2>1, <2>2, <2>3, Zenon DEF Sound, Becomes, Sane
<1> PICK n : n = IF l = Main THEN e ELSE k
  OBVIOUS
<1>6. /\ Sound(config, n) /\ InPhase(n) /\ n.fate = "up" /\ Lawful(config, b, n)
      /\ n \in Connection /\ n.status \notin {"NEW", "BACKLOG"} /\ (l = Main => n.status = "CONNECTED")
  BY <1>4, <1>5 DEF InPhase
<1>7. /\ conn' \in [Conns -> Connection] /\ conn'[c] = n /\ down' = "up"
      /\ \A d \in Conns \ {c} : conn'[d] = conn[d]
      /\ loopOf' \in [Conns -> Loops] /\ loopOf'[c] = l
      /\ \A d \in Conns \ {c} : loopOf'[d] = loopOf[d]
  <2>1. conn \in [Conns -> Connection] /\ loopOf \in [Conns -> Loops]
    BY <1>2 DEF TypeInv
  <2>2. conn' = [conn EXCEPT ![c] = n] /\ down' = "up"
    BY <1>1, <1>5
  <2>3. loopOf' = [loopOf EXCEPT ![c] = l]
    BY <1>1
  <2> QED BY <1>2, <1>6, <2>1, <2>2, <2>3
<1>8. TaskOf("Established", c) \in Task /\ TaskOf("Established", c).conn = c
      /\ TaskOf("Established", c).op = "Established"
  BY SMT DEF TaskOf, Task
<1>9. /\ tasks' \in [Loops -> Seq(Task)] /\ \A m \in Loops : batch[m] <= Len(tasks'[m])
      /\ \A m \in Loops : \A u \in ToSet(tasks'[m]) :
           u \in ToSet(tasks[m]) \/ (m = l /\ l # Main /\ u = TaskOf("Established", c))
  <2>1. CASE l = Main
    BY <1>1, <1>2, <2>1 DEF TypeInv
  <2>2. CASE l # Main
    <3> PICK t : t = TaskOf("Established", c)
      OBVIOUS
    <3>1. tasks' = [tasks EXCEPT ![l] = Append(@, t)]
      BY <1>1, <2>2
    <3>2. t \in Task
      BY <1>8
    <3>3. /\ tasks' \in [Loops -> Seq(Task)] /\ \A m \in Loops : batch[m] <= Len(tasks'[m])
          /\ \A m \in Loops : \A u \in ToSet(tasks'[m]) : u \in ToSet(tasks[m]) \/ (m = l /\ u = t)
      BY <1>2, <3>1, <3>2, TaskAdded, Zenon
    <3> QED BY <2>2, <3>3
  <2> QED BY <2>1, <2>2
<1>10. TypeInv'
  <2>1. accepting' \in {"EnableInactiveRelease", "Insert"} \X Conns
    BY <1>1
  <2> QED BY <1>1, <1>2, <1>7, <1>9, <2>1 DEF TypeInv, Fates
<1>11. ConnInv' /\ LawfulStep
  <2>1. ASSUME NEW d \in Conns
        PROVE  /\ Sound(config, conn'[d]) /\ InPhase(conn'[d]) /\ conn'[d].fate = "up"
               /\ Lawful(config, conn[d], conn'[d])
    <3>1. CASE d = c
      BY <1>6, <1>7, <3>1
    <3>2. CASE d # c
      <4>1. conn'[d] = conn[d]
        BY <1>7, <3>2
      <4> QED BY <1>7, <4>1, UnmovedMoves DEF Moves
    <3> QED BY <3>1, <3>2
  <2> QED BY <1>1, <2>1 DEF ConnInv, LawfulStep
<1>12. ~Made(c)
  BY <1>1 DEF Made
<1>13. QueueInv'
  <2> SUFFICES ASSUME NEW m \in Loops, NEW u \in ToSet(tasks'[m]) PROVE TaskSound(m, u)'
    BY DEF QueueInv
  <2>1. CASE u \in ToSet(tasks[m])
    <3>1. TaskSound(m, u)
      BY <2>1 DEF IInv, QueueInv
    <3>2. u.conn # c
      BY <1>12, <3>1 DEF TaskSound
    <3>3. u.conn \in Conns
      <4>1. DOMAIN tasks[m] = 1 .. Len(tasks[m]) /\ \A i \in 1 .. Len(tasks[m]) : tasks[m][i] \in Task
        <5>1. tasks[m] \in Seq(Task)
          BY <1>2 DEF TypeInv
        <5> QED BY <5>1, LenProperties, ElementOfSeq
      <4>2. u \in Task
        BY <2>1, <4>1 DEF ToSet
      <4> QED BY <4>2 DEF Task
    <3>4. conn'[u.conn] = conn[u.conn] /\ loopOf'[u.conn] = loopOf[u.conn]
      BY <1>7, <3>2, <3>3
    <3> QED BY <1>1, <3>1, <3>4 DEF TaskSound, Made
  <2>2. CASE m = l /\ l # Main /\ u = TaskOf("Established", c)
    <3>1. config.threads # 0
      BY <1>2, <2>2
    <3> QED BY <1>1, <1>6, <1>7, <1>8, <2>2, <3>1 DEF TaskSound, Made
  <2> QED BY <1>9, <2>1, <2>2
<1>14. ActiveInv'
  <2> SUFFICES ASSUME NEW m \in Loops, NEW d \in active[m] \cap Conns
               PROVE  /\ loopOf'[d] = m /\ Started(conn'[d])
                      /\ config.timeout = 0 => conn'[d].open
    BY <1>1 DEF ActiveInv
  <2>1. loopOf[d] = m /\ Started(conn[d]) /\ (config.timeout = 0 => conn[d].open)
    BY DEF IInv, ActiveInv
  <2>2. d # c
    BY <1>1, <2>1 DEF Started
  <2> QED BY <1>7, <2>1, <2>2
<1>15. AcceptInv'
  <2>1. \A d \in Conns : conn'[d].open => d \in conns \/ d = c
    <3> SUFFICES ASSUME NEW d \in Conns, d # c, conn'[d].open PROVE d \in conns
      OBVIOUS
    <3>1. conn[d].open
      BY <1>7
    <3> QED BY <1>1, <3>1 DEF IInv, AcceptInv
  <2>2. config.threads = 0 => \A d \in Conns : loopOf'[d] = Main
    BY <1>2, <1>7 DEF IInv, AcceptInv
  <2>3. accepting'[2] = c /\ accepting' # NoConn
    <3>1. accepting' \in {"EnableInactiveRelease", "Insert"} \X Conns
      BY <1>1
    <3> QED BY <1>1, <3>1, ReactorAssumption
  <2>4. Made(c)'
    BY <1>6, <1>7 DEF Made
  <2> QED BY <1>1, <1>2, <1>6, <1>7, <2>1, <2>2, <2>3, <2>4 DEF AcceptInv
<1> QED BY <1>10, <1>11, <1>13, <1>14, <1>15 DEF IInv

\* NewConnection goes on: EnableInactiveRelease.
LEMMA AcceptEnableInv ==
  ASSUME IInv, down = "up", AcceptEnable
  PROVE  IInv' /\ LawfulStep
<1> PICK c : c = accepting[2]
  OBVIOUS
<1> PICK e : e = EnableInactiveReleaseInLoop(conn[c])
  OBVIOUS
<1> PICK t : t = TaskOf("EnableInactiveRelease", c)
  OBVIOUS
<1>1. /\ config' = config /\ loopOf' = loopOf /\ turn' = turn /\ conns' = conns
      /\ active' = active /\ batch' = batch /\ expired' = expired /\ called' = called
      /\ accepting # NoConn /\ accepting' = <<"Insert", c>>
  BY DEF AcceptEnable
<1>2. /\ loopOf[c] = Main => conn' = [conn EXCEPT ![c] = e] /\ down' = e.fate /\ tasks' = tasks
      /\ loopOf[c] # Main => /\ conn' = conn /\ down' = down
                             /\ tasks' = [tasks EXCEPT ![loopOf[c]] = Append(@, t)]
  BY DEF AcceptEnable, RunInLoop
<1>3. TypeInv /\ config \in Scenario /\ c \in Conns /\ loopOf[c] \in Loops
  <2>1. TypeInv /\ accepting \in {"EnableInactiveRelease", "Insert"} \X Conns
    BY <1>1 DEF IInv, TypeInv
  <2>2. c \in Conns
    BY <2>1
  <2> QED BY <2>1, <2>2, ScenarioFacts DEF TypeInv
<1>4. /\ "listen" \in active[Main] /\ Made(c)
      /\ config.threads = 0 => conn[c].status = "CONNECTED" /\ loopOf[c] = Main
  BY <1>1, <1>3 DEF IInv, AcceptInv
<1>5. Sound(config, conn[c]) /\ InPhase(conn[c]) /\ conn[c].fate = "up"
  BY <1>3 DEF IInv, ConnInv
<1>6. /\ Becomes(config, conn[c], e) /\ Same(conn[c], e) /\ e.rev = conn[c].rev /\ ~e.told
  <2>1. /\ Sane(config, conn[c]) /\ conn[c].status \notin {"NEW", "BACKLOG"} /\ ~conn[c].told
        /\ config.threads = 0 => conn[c].status # "DISCONNECTED"
    BY <1>4, <1>5 DEF Sound, Made
  <2> QED BY <1>3, <1>5, <2>1, EnableBecomes
<1>7. Sound(config, e) /\ e.fate = "up" /\ e \in Connection
  BY <1>5, <1>6, Zenon DEF Sound, Becomes, Same
<1>8. /\ Steady /\ down' \in Fates /\ \A d \in Conns : conn'[d].status = conn[d].status
      /\ \A d \in Conns : conn'[d].open = conn[d].open
  <2>1. CASE loopOf[c] = Main
    <3>1. conn \in [Conns -> Connection] /\ conn' = [conn EXCEPT ![c] = e] /\ down' = "up"
      BY <1>2, <1>3, <1>7, <2>1 DEF TypeInv
    <3>2. /\ conn' \in [Conns -> Connection] /\ conn'[c] = e
          /\ \A d \in Conns \ {c} : conn'[d] = conn[d]
      BY <1>3, <1>7, <3>1
    <3>3. Moves(c)
      BY <1>6, <1>7, <3>2, Zenon DEF Moves, Becomes, Same, Made
    <3>4. \A d \in Conns : Moves(d)
      BY <3>1, <3>2, <3>3, UnmovedMoves
    <3>5. e.status = conn[c].status /\ e.open = conn[c].open
      BY <1>6 DEF Same
    <3> QED BY <1>1, <3>1, <3>2, <3>4, <3>5 DEF Steady, Fates
  <2>2. CASE loopOf[c] # Main
    BY <1>1, <1>2, <1>3, <2>2, UnmovedSteady DEF TypeInv
  <2> QED BY <2>1, <2>2
<1>9. /\ t \in Task /\ t.conn = c /\ t.op = "EnableInactiveRelease"
  BY <1>3, SMT DEF TaskOf, Task
<1>10. /\ tasks' \in [Loops -> Seq(Task)] /\ \A m \in Loops : batch[m] <= Len(tasks'[m])
       /\ \A m \in Loops : \A u \in ToSet(tasks'[m]) :
            u \in ToSet(tasks[m]) \/ (m = loopOf[c] /\ loopOf[c] # Main /\ u = t)
  <2>1. CASE loopOf[c] = Main
    BY <1>2, <1>3, <2>1 DEF TypeInv
  <2>2. CASE loopOf[c] # Main
    <3>1. /\ tasks' \in [Loops -> Seq(Task)] /\ \A m \in Loops : batch[m] <= Len(tasks'[m])
          /\ \A m \in Loops : \A u \in ToSet(tasks'[m]) :
               u \in ToSet(tasks[m]) \/ (m = loopOf[c] /\ u = t)
      BY <1>2, <1>3, <1>9, <2>2, TaskAdded, Zenon
    <3> QED BY <2>2, <3>1
  <2> QED BY <2>1, <2>2
<1>11. TypeInv'
  <2>1. accepting' \in {"EnableInactiveRelease", "Insert"} \X Conns
    BY <1>1, <1>3
  <2> QED BY <1>1, <1>3, <1>8, <1>10, <2>1, Zenon DEF TypeInv, Steady
<1>12. QueueInv'
  <2>1. ASSUME NEW m \in Loops, NEW u \in ToSet(tasks'[m]), u \notin ToSet(tasks[m])
        PROVE  TaskSound(m, u)'
    <3>1. m = loopOf[c] /\ loopOf[c] # Main /\ u = t
      BY <1>10, <2>1
    <3>2. config.threads # 0
      BY <1>4, <3>1
    <3>3. Made(c)'
      BY <1>3, <1>4, <1>8 DEF Made
    <3> QED BY <1>1, <1>9, <3>1, <3>2, <3>3 DEF TaskSound
  <2> QED BY <1>8, <2>1, SteadyQueues
<1>13. ActiveInv'
  BY <1>1, <1>8, SteadyActive
<1>14. AcceptInv'
  <2>1. accepting'[2] = c /\ accepting' # NoConn
    <3>1. accepting' \in {"EnableInactiveRelease", "Insert"} \X Conns
      BY <1>1, <1>3
    <3> QED BY <1>1, <3>1, ReactorAssumption
  <2>2. Made(c)' /\ (config.threads = 0 => conn'[c].status = "CONNECTED")
    BY <1>3, <1>4, <1>8 DEF Made
  <2>3. \A d \in Conns : conn'[d].open => d \in conns \/ c = d
    BY <1>8 DEF IInv, AcceptInv
  <2>4. config.threads = 0 => \A d \in Conns : loopOf[d] = Main
    BY DEF IInv, AcceptInv
  <2> QED BY <1>1, <1>4, <2>1, <2>2, <2>3, <2>4 DEF AcceptInv
<1> QED BY <1>8, <1>11, <1>12, <1>13, <1>14, SteadyInv DEF IInv

\* NewConnection ends: the connection is stored in _conns.
LEMMA AcceptInsertInv ==
  ASSUME IInv, down = "up", AcceptInsert
  PROVE  IInv' /\ LawfulStep
<1> PICK c : c = accepting[2]
  OBVIOUS
<1>1. /\ config' = config /\ loopOf' = loopOf /\ turn' = turn /\ conns' = conns \cup {c}
      /\ conn' = conn /\ tasks' = tasks /\ expired' = expired /\ called' = called
      /\ down' = down /\ accepting # NoConn /\ accepting' = NoConn /\ Handled(Main, "listen")
  BY DEF AcceptInsert
<1>2. TypeInv /\ c \in Conns /\ Main \in Loops
  <2>1. TypeInv /\ accepting \in {"EnableInactiveRelease", "Insert"} \X Conns
    BY <1>1 DEF IInv, TypeInv
  <2>2. c \in Conns
    BY <2>1
  <2> QED BY <2>1, <2>2 DEF Loops
<1>3. Steady
  BY <1>1, UnmovedSteady
<1>4. QueueInv'
  BY <1>1, <1>3, SteadyQueues
<1>5. \A m \in Loops : Len(tasks[m]) <= Len(tasks'[m]) /\ Len(tasks'[m]) \in Nat
  <2>1. \A m \in Loops : tasks[m] \in Seq(Task)
    BY <1>2 DEF TypeInv
  <2>2. \A m \in Loops : Len(tasks[m]) \in Nat
    BY <2>1, LenProperties
  <2> QED BY <1>1, <2>2, SMT
<1>6. /\ active' \in [Loops -> SUBSET (Conns \cup {"listen", "timer"})]
      /\ \A m \in Loops : active'[m] \subseteq active[m]
      /\ batch' \in [Loops -> Nat] /\ \A m \in Loops : batch'[m] <= Len(tasks'[m])
  BY <1>1, <1>2, <1>5, HandledType
<1>7. TypeInv'
  BY <1>1, <1>2, <1>6 DEF TypeInv
<1>8. ActiveInv'
  BY <1>1, <1>3, <1>6, SteadyActive
<1>9. AcceptInv'
  BY <1>1 DEF IInv, AcceptInv
<1> QED BY <1>3, <1>4, <1>7, <1>8, <1>9, SteadyInv DEF IInv

(***************************************************************************)
(* Clients, the clock, and the other threads of the server.                *)
(***************************************************************************)
LEMMA ClientInv ==
  ASSUME IInv, down = "up", NEW c \in Conns, NEW n, Client(c, n),
         Sound(config, n), InPhase(n), n.fate = "up", Lawful(config, conn[c], n),
         n.open = conn[c].open,
         n.status = conn[c].status \/ (~Made(c) /\ n.status = "BACKLOG")
  PROVE  IInv' /\ LawfulStep
<1>1. /\ config' = config /\ loopOf' = loopOf /\ turn' = turn /\ conns' = conns
      /\ accepting' = accepting /\ active' = active /\ tasks' = tasks /\ batch' = batch
      /\ expired' = expired /\ called' = called /\ down' = down
      /\ conn' = [conn EXCEPT ![c] = n]
  BY DEF Client
<1>2. TypeInv /\ n \in Connection /\ conn \in [Conns -> Connection]
  BY DEF IInv, TypeInv, Sound, Sane
<1>3. /\ conn' \in [Conns -> Connection] /\ conn'[c] = n
      /\ \A d \in Conns \ {c} : conn'[d] = conn[d]
  BY <1>1, <1>2
<1>4. Moves(c)
  BY <1>3 DEF Moves, Made, Started
<1>5. Steady
  BY <1>1, <1>3, <1>4, UnmovedMoves DEF Steady
<1>6. TypeInv'
  BY <1>1, <1>2, <1>3, Zenon DEF TypeInv
<1>7. QueueInv'
  BY <1>1, <1>5, SteadyQueues
<1>8. ActiveInv'
  BY <1>1, <1>3, <1>5, SteadyActive
<1>9. AcceptInv'
  <2>1. ASSUME accepting # NoConn
        PROVE  /\ "listen" \in active'[Main]
               /\ config.threads = 0 => conn'[accepting[2]].status = conn[accepting[2]].status
    <3>1. "listen" \in active[Main] /\ Made(accepting[2])
      BY <2>1 DEF IInv, AcceptInv
    <3>2. accepting[2] \in Conns
      <4>1. accepting \in {"EnableInactiveRelease", "Insert"} \X Conns
        BY <1>2, <2>1 DEF TypeInv
      <4> QED BY <4>1
    <3> QED BY <1>1, <1>3, <3>1, <3>2
  <2> QED BY <1>1, <1>5, <2>1, SteadyAccept
<1> QED BY <1>5, <1>6, <1>7, <1>8, <1>9, SteadyInv DEF IInv

\* A client connects.
LEMMA ConnectInv ==
  ASSUME IInv, down = "up", NEW c \in Conns, Connect(c)
  PROVE  IInv' /\ LawfulStep
<1> PICK k : k = conn[c]
  OBVIOUS
<1> PICK n : n = [k EXCEPT !.status = "BACKLOG"]
  OBVIOUS
<1>1. Client(c, n) /\ k.status = "NEW"
  BY DEF Connect
<1>2. Sound(config, k) /\ InPhase(k) /\ k.fate = "up" /\ k \in Connection
  BY DEF IInv, ConnInv, Sound, Sane
<1>3. Waiting(k)
  BY <1>1, <1>2 DEF InPhase, Accepted, Live, Released
<1>4. n \in Connection
  <2>1. "BACKLOG" \in Statuses
    BY DEF Statuses
  <2> QED BY <1>2, <2>1, Zenon DEF Connection
<1>5. /\ n.status = "BACKLOG" /\ n.open = k.open /\ n.reg = k.reg /\ n.ev = k.ev
      /\ n.in = k.in /\ n.out = k.out /\ n.closed = k.closed /\ n.fate = k.fate
      /\ n.sent = k.sent /\ n.recvq = k.recvq /\ n.got = k.got /\ n.lost = k.lost
      /\ n.fin = k.fin /\ n.rst = k.rst /\ n.timer = k.timer /\ n.told = k.told /\ n.rev = k.rev
  BY <1>2, SMT DEF Connection
<1>6. n.status # "DISCONNECTED"
  BY <1>5
<1>7. Sound(config, n)
  BY <1>2, <1>4, <1>5, <1>6, Zenon DEF Sound, Sane
<1>8. InPhase(n)
  BY <1>3, <1>5, Zenon DEF Waiting, InPhase
<1>9. Lawful(config, k, n)
  BY <1>1, <1>5, <1>6, Zenon DEF Lawful, Conserved, OnceClosed, Flushed
<1>10. ~Made(c)
  BY <1>1 DEF Made
<1> QED BY <1>1, <1>2, <1>5, <1>7, <1>8, <1>9, <1>10, ClientInv, ZenonT(60)

\* What a client can reach is not released.
LEMMA ReachableConn ==
  ASSUME IInv, down = "up", NEW c \in Conns, Reachable(conn[c])
  PROVE  LET k == conn[c]
         IN  /\ Sound(config, k) /\ InPhase(k) /\ k.fate = "up" /\ k \in Connection
             /\ ~Released(k) /\ ~k.rst
BY DEF IInv, ConnInv, Sound, Sane, Reachable, Released

\* A client sends.
LEMMA ClientSendInv ==
  ASSUME IInv, down = "up", NEW c \in Conns, ClientSend(c)
  PROVE  IInv' /\ LawfulStep
<1> PICK k : k = conn[c]
  OBVIOUS
<1> DEFINE s == k.sent + 1
           r == k.recvq + 1
<1> PICK n : n = [k EXCEPT !.sent = s, !.recvq = r]
  OBVIOUS
<1>1. Client(c, n) /\ Reachable(conn[c]) /\ k.sent < config.sends
  BY DEF ClientSend
<1>2. /\ Sound(config, k) /\ InPhase(k) /\ k.fate = "up" /\ k \in Connection
      /\ ~Released(k) /\ config.sends \in Nat
  BY <1>1, ReachableConn, ScenarioFacts DEF IInv
<1>3. s \in Nat /\ r \in Nat /\ s <= config.sends /\ k.in + r <= s
  <2>1. k.in + k.recvq <= k.sent
    BY <1>2 DEF Sound, Sane
  <2> QED BY <1>1, <1>2, <2>1, SMT DEF Connection
<1>4. n \in Connection
  <2> HIDE DEF s, r
  <2> QED BY <1>2, <1>3, Zenon DEF Connection
<1>5. /\ n.status = k.status /\ n.open = k.open /\ n.reg = k.reg /\ n.ev = k.ev
      /\ n.in = k.in /\ n.out = k.out /\ n.closed = k.closed /\ n.fate = k.fate
      /\ n.sent = s /\ n.recvq = r /\ n.got = k.got /\ n.lost = k.lost
      /\ n.fin = k.fin /\ n.rst = k.rst /\ n.timer = k.timer /\ n.told = k.told /\ n.rev = k.rev
  <2> HIDE DEF s, r
  <2> QED BY <1>2, SMT DEF Connection
<1>6. Conserved(k) => Conserved(n)
  <2>1. k.sent = k.recvq + k.in + k.out + k.got => s = r + k.in + k.out + k.got
    BY <1>2, SMT DEF Connection
  <2> HIDE DEF s, r
  <2> QED BY <1>5, <2>1, Zenon DEF Conserved
<1> HIDE DEF s, r
<1>7. Sound(config, n)
  BY <1>2, <1>3, <1>4, <1>5, Zenon DEF Sound, Sane
<1>8. InPhase(n)
  <2>1. Waiting(k) => Waiting(n)
    BY <1>5, Zenon DEF Waiting
  <2>2. Accepted(k) => Accepted(n)
    BY <1>5, Zenon DEF Accepted
  <2>3. Live(k) => Live(n)
    BY <1>5, Zenon DEF Live
  <2> QED BY <1>2, <2>1, <2>2, <2>3 DEF InPhase
<1>9. Lawful(config, k, n)
  BY <1>5, <1>6, Zenon DEF Lawful, OnceClosed, Flushed
<1>10. n.fate = "up" /\ n.status = conn[c].status /\ n.open = conn[c].open
  BY <1>2, <1>5
<1>11. Lawful(config, conn[c], n)
  BY <1>9
<1> QED BY <1>1, <1>7, <1>8, <1>10, <1>11, ClientInv, Zenon

\* A client closes or resets its end, or makes room: no phase depends on it.
LEMMA ClientEnd ==
  ASSUME IInv, down = "up", NEW c \in Conns, Reachable(conn[c]), NEW n \in Connection,
         Client(c, n), n.rst \/ n.rst = conn[c].rst,
         LET k == conn[c]
         IN  /\ n.status = k.status /\ n.open = k.open /\ n.reg = k.reg /\ n.ev = k.ev
             /\ n.in = k.in /\ n.out = k.out /\ n.closed = k.closed /\ n.fate = k.fate
             /\ n.sent = k.sent /\ n.recvq = k.recvq /\ n.got = k.got /\ n.lost = k.lost
             /\ n.timer = k.timer /\ n.told = k.told /\ n.rev = k.rev
  PROVE  IInv' /\ LawfulStep
<1> PICK k : k = conn[c]
  OBVIOUS
<1>1. /\ n.status = k.status /\ n.open = k.open /\ n.reg = k.reg /\ n.ev = k.ev
      /\ n.in = k.in /\ n.out = k.out /\ n.closed = k.closed /\ n.fate = k.fate
      /\ n.sent = k.sent /\ n.recvq = k.recvq /\ n.got = k.got /\ n.lost = k.lost
      /\ n.timer = k.timer /\ n.told = k.told /\ n.rev = k.rev /\ (n.rst \/ n.rst = k.rst)
  OBVIOUS
<1>2. Sound(config, k) /\ InPhase(k) /\ k.fate = "up" /\ k \in Connection /\ ~k.rst
  BY ReachableConn
<1>3. Sound(config, n)
  BY <1>1, <1>2, Zenon DEF Sound, Sane
<1>4. InPhase(n)
  BY <1>1, <1>2, Zenon DEF InPhase, Waiting, Accepted, Live, Released
<1>5. Lawful(config, k, n)
  BY <1>1, <1>2, Zenon DEF Lawful, Conserved, OnceClosed, Flushed
<1> QED BY <1>1, <1>2, <1>3, <1>4, <1>5, ClientInv

\* A client ends its stream, resets the connection or reads.
LEMMA ClientEndsInv ==
  ASSUME IInv, down = "up", NEW c \in Conns, ClientFin(c) \/ ClientReset(c) \/ ClientRead(c)
  PROVE  IInv' /\ LawfulStep
<1> PICK k : k = conn[c]
  OBVIOUS
<1>1. Reachable(conn[c])
  BY DEF ClientFin, ClientReset, ClientRead
<1>2. k \in Connection
  BY <1>1, ReachableConn
<1>3. CASE ClientFin(c)
  <2> PICK n : n = [k EXCEPT !.fin = TRUE]
    OBVIOUS
  <2>1. Client(c, n)
    BY <1>3 DEF ClientFin
  <2>2. n \in Connection
    BY <1>2, Zenon DEF Connection
  <2>3. /\ n.status = k.status /\ n.open = k.open /\ n.reg = k.reg /\ n.ev = k.ev
        /\ n.in = k.in /\ n.out = k.out /\ n.closed = k.closed /\ n.fate = k.fate
        /\ n.sent = k.sent /\ n.recvq = k.recvq /\ n.got = k.got /\ n.lost = k.lost
        /\ n.timer = k.timer /\ n.told = k.told /\ n.rev = k.rev /\ n.rst = k.rst
    BY <1>2, SMT DEF Connection
  <2> QED BY <1>1, <2>1, <2>2, <2>3, ClientEnd
<1>4. CASE ClientReset(c)
  <2> PICK n : n = [k EXCEPT !.rst = TRUE]
    OBVIOUS
  <2>1. Client(c, n)
    BY <1>4 DEF ClientReset
  <2>2. n \in Connection
    BY <1>2, Zenon DEF Connection
  <2>3. /\ n.status = k.status /\ n.open = k.open /\ n.reg = k.reg /\ n.ev = k.ev
        /\ n.in = k.in /\ n.out = k.out /\ n.closed = k.closed /\ n.fate = k.fate
        /\ n.sent = k.sent /\ n.recvq = k.recvq /\ n.got = k.got /\ n.lost = k.lost
        /\ n.timer = k.timer /\ n.told = k.told /\ n.rev = k.rev /\ n.rst
    BY <1>2, SMT DEF Connection
  <2> QED BY <1>1, <2>1, <2>2, <2>3, ClientEnd, ZenonT(60)
<1>5. CASE ClientRead(c)
  <2> PICK n : n = [k EXCEPT !.room = TRUE]
    OBVIOUS
  <2>1. Client(c, n)
    BY <1>5 DEF ClientRead
  <2>2. n \in Connection
    BY <1>2, Zenon DEF Connection
  <2>3. /\ n.status = k.status /\ n.open = k.open /\ n.reg = k.reg /\ n.ev = k.ev
        /\ n.in = k.in /\ n.out = k.out /\ n.closed = k.closed /\ n.fate = k.fate
        /\ n.sent = k.sent /\ n.recvq = k.recvq /\ n.got = k.got /\ n.lost = k.lost
        /\ n.timer = k.timer /\ n.told = k.told /\ n.rev = k.rev /\ n.rst = k.rst
    BY <1>2, SMT DEF Connection
  <2> QED BY <1>1, <2>1, <2>2, <2>3, ClientEnd
<1> QED BY <1>3, <1>4, <1>5

\* Another thread calls Send or ShutDown: RunInLoop queues a task.
LEMMA CallFromThreadInv ==
  ASSUME IInv, down = "up", NEW c \in Conns, NEW op \in config.calls, CallFromThread(c, op)
  PROVE  IInv' /\ LawfulStep
<1> PICK t : t = TaskOf(op, c)
  OBVIOUS
<1>1. /\ config' = config /\ loopOf' = loopOf /\ turn' = turn /\ conns' = conns
      /\ accepting' = accepting /\ active' = active /\ batch' = batch /\ conn' = conn
      /\ expired' = expired /\ called' = called \cup {<<c, op>>} /\ down' = down
      /\ tasks' = [tasks EXCEPT ![loopOf[c]] = Append(@, t)]
      /\ Made(c) /\ conn[c].status # "CONNECTING"
  BY DEF CallFromThread
<1>2. TypeInv /\ loopOf[c] \in Loops /\ op \in {"Send", "ShutDown"}
  <2>1. TypeInv /\ config \in Scenario
    BY ScenarioFacts DEF IInv
  <2> QED BY <2>1 DEF TypeInv, Scenario
<1>3. t \in Task /\ t.conn = c /\ t.op = op
  BY <1>2, SMT DEF TaskOf, Task
<1>4. Steady
  BY <1>1, UnmovedSteady
<1>5. /\ tasks' \in [Loops -> Seq(Task)] /\ \A m \in Loops : batch[m] <= Len(tasks'[m])
      /\ \A m \in Loops : \A u \in ToSet(tasks'[m]) : u \in ToSet(tasks[m]) \/ (m = loopOf[c] /\ u = t)
  BY <1>1, <1>2, <1>3, TaskAdded, Zenon
<1>6. TypeInv'
  <2>1. called' \subseteq Conns \X config.calls
    BY <1>1, <1>2 DEF TypeInv
  <2> QED BY <1>1, <1>2, <1>5, <2>1, Zenon DEF TypeInv
<1>7. Started(conn[c])
  <2>1. InPhase(conn[c])
    BY DEF IInv, ConnInv
  <2> QED BY <1>1, <2>1 DEF InPhase, Waiting, Accepted, Live, Released, Started, Made
<1>8. QueueInv'
  <2>1. ASSUME NEW m \in Loops, NEW u \in ToSet(tasks'[m]), u \notin ToSet(tasks[m])
        PROVE  TaskSound(m, u)'
    <3>1. m = loopOf[c] /\ u = t
      BY <1>5, <2>1
    <3>2. Made(c)'
      BY <1>1 DEF Made
    <3> QED BY <1>1, <1>2, <1>3, <1>7, <3>1, <3>2 DEF TaskSound
  <2> QED BY <1>4, <2>1, SteadyQueues
<1>9. ActiveInv' /\ AcceptInv'
  <2>1. ActiveInv'
    BY <1>1, <1>4, SteadyActive
  <2>2. AcceptInv'
    BY <1>1 DEF IInv, AcceptInv, Made
  <2> QED BY <2>1, <2>2
<1> QED BY <1>4, <1>6, <1>8, <1>9, SteadyInv DEF IInv

\* A second passes: the timer descriptor of a loop becomes readable.
LEMMA TimerExpiresInv ==
  ASSUME IInv, down = "up", NEW l \in Loops, TimerExpires(l)
  PROVE  IInv' /\ LawfulStep
<1>1. /\ config' = config /\ loopOf' = loopOf /\ turn' = turn /\ conns' = conns
      /\ accepting' = accepting /\ active' = active /\ batch' = batch /\ conn' = conn
      /\ expired' = [expired EXCEPT ![l] = TRUE] /\ called' = called /\ down' = down
      /\ tasks' = tasks
  BY DEF TimerExpires
<1>2. Steady
  BY <1>1, UnmovedSteady
<1>3. TypeInv'
  <2>1. expired' \in [Loops -> BOOLEAN]
    BY <1>1, Zenon DEF IInv, TypeInv
  <2> QED BY <1>1, <2>1 DEF IInv, TypeInv
<1>4. QueueInv' /\ ActiveInv'
  BY <1>1, <1>2, SteadyQueues, SteadyActive
<1>5. AcceptInv'
  BY <1>1 DEF IInv, AcceptInv, Made
<1> QED BY <1>2, <1>3, <1>4, <1>5, SteadyInv DEF IInv

(***************************************************************************)
(* Polling: what epoll reports.                                            *)
(***************************************************************************)
LEMMA Polled ==
  ASSUME NEW s, NEW k, Sound(s, k), NEW n, n = [k EXCEPT !.rev = Revents(k)]
  PROVE  Sound(s, n) /\ Same(k, n) /\ n.timer = k.timer /\ n.rev = Revents(k)
<1> PICK r : r = Revents(k)
  OBVIOUS
<1>1. k \in Connection
  BY DEF Sound, Sane
<1>2. r \in SUBSET {"IN", "OUT", "HUP"} /\ ("HUP" \in r => k.rst)
  BY <1>1, SMT DEF Revents, Connection
<1>3. n \in Connection
  BY <1>1, <1>2, Zenon DEF Connection
<1>4. /\ n.status = k.status /\ n.open = k.open /\ n.reg = k.reg /\ n.ev = k.ev
      /\ n.in = k.in /\ n.out = k.out /\ n.closed = k.closed /\ n.fate = k.fate
      /\ n.sent = k.sent /\ n.recvq = k.recvq /\ n.got = k.got /\ n.lost = k.lost
      /\ n.fin = k.fin /\ n.rst = k.rst /\ n.timer = k.timer /\ n.told = k.told /\ n.rev = r
  BY <1>1, <1>2, SMT DEF Connection
<1>5. Same(k, n)
  BY <1>3, <1>4, Zenon DEF Same
<1>6. Sound(s, n)
  BY <1>2, <1>3, <1>4, Zenon DEF Sound, Sane
<1> QED BY <1>4, <1>5, <1>6

\* epoll_wait returns, with the channels that are ready.
LEMMA PollingInv ==
  ASSUME IInv, down = "up", NEW l \in Loops, Polling(l)
  PROVE  IInv' /\ LawfulStep
<1>1. /\ config' = config /\ loopOf' = loopOf /\ turn' = turn /\ conns' = conns
      /\ accepting' = accepting /\ active' = [active EXCEPT ![l] = Ready(l)] /\ tasks' = tasks
      /\ expired' = expired /\ called' = called /\ down' = down
      /\ active[l] = {} /\ ~Busy(l)
      /\ batch' = IF Ready(l) = {} THEN [batch EXCEPT ![l] = Len(tasks[l])] ELSE batch
  BY DEF Polling
<1>2. conn' = [c \in Conns |-> IF c \in Ready(l)
                               THEN [conn[c] EXCEPT !.rev = Revents(conn[c])]
                               ELSE conn[c]]
  BY DEF Polling
<1>3. TypeInv /\ ConnInv
  BY DEF IInv
<1>4. ASSUME NEW c \in Conns
      PROVE  /\ Moves(c) /\ conn'[c] \in Connection
             /\ conn'[c].status = conn[c].status /\ conn'[c].open = conn[c].open
  <2>1. CASE c \in Ready(l)
    <3> PICK n : n = conn'[c]
      OBVIOUS
    <3>1. n = [conn[c] EXCEPT !.rev = Revents(conn[c])]
      BY <1>2, <2>1
    <3>2. Sound(config, conn[c]) /\ conn[c].fate = "up" /\ InPhase(conn[c])
      BY <1>3 DEF ConnInv
    <3>3. Sound(config, n) /\ Same(conn[c], n) /\ n.timer = conn[c].timer
      BY <3>1, <3>2, Polled
    <3>4. InPhase(n) /\ Lawful(config, conn[c], n) /\ (Started(conn[c]) => Started(n))
      BY <3>2, <3>3, SameKept
    <3> QED BY <3>2, <3>3, <3>4, Zenon DEF Moves, Made, Same
  <2>2. CASE c \notin Ready(l)
    <3>1. conn'[c] = conn[c]
      BY <1>2, <2>2
    <3> QED BY <1>1, <1>3, <3>1, UnmovedMoves DEF TypeInv
  <2> QED BY <2>1, <2>2
<1>5. Steady
  <2>1. conn' \in [Conns -> Connection]
    BY <1>2, <1>4
  <2> QED BY <1>1, <1>4, <2>1 DEF Steady
<1>6. /\ \A c \in Ready(l) \cap Conns : loopOf[c] = l /\ conn[c].reg
      /\ Ready(l) \subseteq Conns \cup {"listen", "timer"}
  <2>1. Conns \cap {"listen", "timer"} = {}
    BY ReactorAssumption
  <2> QED BY <2>1 DEF Ready
<1>7. /\ active' \in [Loops -> SUBSET (Conns \cup {"listen", "timer"})] /\ active'[l] = Ready(l)
      /\ \A m \in Loops \ {l} : active'[m] = active[m]
  BY <1>1, <1>3, <1>6 DEF TypeInv
<1>8. \A m \in Loops : Len(tasks[m]) \in Nat /\ Len(tasks[m]) <= Len(tasks[m])
  <2>1. \A m \in Loops : tasks[m] \in Seq(Task)
    BY <1>3 DEF TypeInv
  <2>2. \A m \in Loops : Len(tasks[m]) \in Nat
    BY <2>1, LenProperties
  <2> QED BY <2>2, SMT
<1>9. batch' \in [Loops -> Nat] /\ \A m \in Loops : batch'[m] <= Len(tasks'[m])
  <2>1. /\ batch \in [Loops -> Nat] /\ \A m \in Loops : batch[m] <= Len(tasks[m])
    BY <1>3 DEF TypeInv
  <2>2. batch' \in [Loops -> Nat] /\ \A m \in Loops : batch'[m] = batch[m] \/ batch'[m] = Len(tasks[m])
    BY <1>1, <1>8, <2>1, Zenon
  <2> QED BY <1>1, <1>8, <2>1, <2>2
<1>10. TypeInv'
  BY <1>1, <1>3, <1>5, <1>7, <1>9, Zenon DEF TypeInv, Steady
<1>11. QueueInv'
  BY <1>1, <1>5, SteadyQueues
<1>12. ActiveInv'
  <2> SUFFICES ASSUME NEW m \in Loops, NEW c \in active'[m] \cap Conns
               PROVE  /\ loopOf[c] = m /\ Started(conn'[c])
                      /\ config.timeout = 0 => conn'[c].open
    BY <1>1 DEF ActiveInv
  <2>1. CASE m = l
    <3>1. loopOf[c] = l /\ conn[c].reg
      BY <1>6, <1>7, <2>1
    <3>2. Live(conn[c])
      <4>1. InPhase(conn[c])
        BY <1>1, <1>3 DEF ConnInv
      <4> QED BY <3>1, <4>1 DEF InPhase, Waiting, Accepted, Released
    <3> QED BY <1>4, <2>1, <3>1, <3>2 DEF Live, Started
  <2>2. CASE m # l
    <3>1. c \in active[m]
      BY <1>7, <2>2
    <3>2. loopOf[c] = m /\ Started(conn[c]) /\ (config.timeout = 0 => conn[c].open)
      BY <3>1 DEF IInv, ActiveInv
    <3> QED BY <1>4, <3>2 DEF Started
  <2> QED BY <2>1, <2>2
<1>13. AcceptInv'
  <2>1. ASSUME accepting # NoConn
        PROVE  /\ "listen" \in active'[Main]
               /\ config.threads = 0 => conn'[accepting[2]].status = conn[accepting[2]].status
    <3>1. "listen" \in active[Main] /\ l # Main /\ Main \in Loops
      BY <1>1, <2>1 DEF IInv, AcceptInv, Busy, Loops
    <3>2. accepting[2] \in Conns
      <4>1. accepting \in {"EnableInactiveRelease", "Insert"} \X Conns
        BY <1>3, <2>1 DEF TypeInv
      <4> QED BY <4>1
    <3> QED BY <1>4, <1>7, <3>1, <3>2
  <2> QED BY <1>1, <1>5, <2>1, SteadyAccept
<1> QED BY <1>5, <1>10, <1>11, <1>12, <1>13, SteadyInv DEF IInv

(***************************************************************************)
(* The invariant holds initially, and every step keeps it.                 *)
(***************************************************************************)
LEMMA NoClientWaits ==
  ASSUME NEW s \in Scenario
  PROVE  /\ NoClient \in Connection /\ Sound(s, NoClient) /\ Waiting(NoClient)
         /\ NoClient.fate = "up" /\ Conserved(NoClient) /\ NoClient.status = "NEW"
<1>1. s.sends \in Nat /\ s.timeout \in Nat
  BY DEF Scenario
<1>2. /\ "NEW" \in Statuses /\ "up" \in Fates /\ 0 \in 0 .. 2 /\ 0 \in Nat
      /\ TRUE \in BOOLEAN /\ FALSE \in BOOLEAN
      /\ {} \in SUBSET {"IN", "OUT"} /\ {} \in SUBSET {"IN", "OUT", "HUP"}
  BY SMT DEF Statuses, Fates
<1>3. NoClient \in Connection
  BY <1>2, Zenon DEF NoClient, Connection
<1>4. /\ NoClient.status = "NEW" /\ NoClient.open = FALSE /\ NoClient.reg = FALSE
      /\ NoClient.ev = {} /\ NoClient.rev = {} /\ NoClient.told = FALSE /\ NoClient.fate = "up"
      /\ NoClient.in = 0 /\ NoClient.out = 0 /\ NoClient.sent = 0 /\ NoClient.recvq = 0
      /\ NoClient.got = 0 /\ NoClient.closed = 0 /\ NoClient.timer = 0
  BY Zenon DEF NoClient
<1>5. 0 + 0 <= 0 /\ 0 <= s.sends /\ 0 <= s.timeout /\ 0 = 0 + 0 + 0 + 0
  BY <1>1, SMT
<1>6. Sound(s, NoClient)
  BY <1>3, <1>4, <1>5, Zenon DEF Sound, Sane
<1>7. Waiting(NoClient) /\ Conserved(NoClient)
  BY <1>4, <1>5, Zenon DEF Waiting, Conserved
<1> QED BY <1>3, <1>4, <1>6, <1>7

\* The invariant holds when the server has been started.
LEMMA InitIInv == Init => IInv
<1> SUFFICES ASSUME Init PROVE IInv
  OBVIOUS
<1>1. config \in Scenario /\ \A c \in Conns : conn[c] = NoClient
  BY ReactorAssumption DEF Init
<1>2. /\ NoClient \in Connection /\ Sound(config, NoClient) /\ Waiting(NoClient)
      /\ NoClient.fate = "up" /\ NoClient.status = "NEW"
  BY <1>1, NoClientWaits
<1>3. Main \in Loops /\ Len(SubLoops) \in Nat
  BY ReactorAssumption, LenProperties DEF Loops
<1>4. <<>> \in Seq(Task) /\ Len(<<>>) = 0 /\ ToSet(<<>>) = {}
  BY EmptySeq DEF ToSet
<1>5. TypeInv
  <2>1. tasks \in [Loops -> Seq(Task)] /\ \A l \in Loops : batch[l] <= Len(tasks[l])
    BY <1>4 DEF Init
  <2>2. turn \in 0 .. Len(SubLoops) /\ conn \in [Conns -> Connection] /\ loopOf \in [Conns -> Loops]
    BY <1>2, <1>3 DEF Init
  <2> QED BY <2>1, <2>2 DEF Init, TypeInv, Fates
<1>6. ConnInv
  BY <1>1, <1>2 DEF ConnInv, InPhase
<1>7. QueueInv
  BY <1>4 DEF Init, QueueInv
<1>8. ActiveInv
  BY DEF Init, ActiveInv
<1>9. AcceptInv
  <2>1. ~NoClient.open
    BY <1>2 DEF Waiting
  <2> QED BY <1>1, <2>1 DEF Init, AcceptInv
<1> QED BY <1>5, <1>6, <1>7, <1>8, <1>9 DEF IInv

\* It is inductive; and every step changes every connection lawfully.
LEMMA NextIInv == IInv /\ [Next]_vars => IInv' /\ LawfulStep
<1> SUFFICES ASSUME IInv, [Next]_vars PROVE IInv' /\ LawfulStep
  OBVIOUS
<1>1. ASSUME NEW l \in Loops, LoopStep(l) PROVE IInv' /\ LawfulStep
  <2>1. CASE Polling(l)
    BY <1>1, <2>1, PollingInv DEF LoopStep
  <2>2. CASE \E c \in Conns : HandleChannel(l, c)
    BY <1>1, <2>2, HandleChannelInv DEF LoopStep
  <2>3. CASE TimerReadCb(l)
    BY <1>1, <2>3, TimerReadCbInv DEF LoopStep
  <2>4. CASE RunTask(l)
    BY <1>1, <2>4, RunTaskInv DEF LoopStep
  <2>5. CASE \E c \in Conns : HandleListenRead(c)
    BY <1>1, <2>5, HandleListenReadInv DEF LoopStep
  <2>6. CASE AcceptEnable
    BY <1>1, <2>6, AcceptEnableInv DEF LoopStep
  <2>7. CASE AcceptInsert
    BY <1>1, <2>7, AcceptInsertInv DEF LoopStep
  <2> QED BY <1>1, <2>1, <2>2, <2>3, <2>4, <2>5, <2>6, <2>7 DEF LoopStep
<1>2. ASSUME down = "up", NEW c \in Conns,
             \/ Connect(c) \/ ClientSend(c) \/ ClientFin(c) \/ ClientReset(c) \/ ClientRead(c)
             \/ \E op \in config.calls : CallFromThread(c, op)
      PROVE  IInv' /\ LawfulStep
  BY <1>2, ConnectInv, ClientSendInv, ClientEndsInv, CallFromThreadInv
<1>3. ASSUME down = "up", NEW l \in Loops, TimerExpires(l) PROVE IInv' /\ LawfulStep
  BY <1>3, TimerExpiresInv
<1>4. CASE UNCHANGED vars
  <2>1. /\ config' = config /\ loopOf' = loopOf /\ turn' = turn /\ conns' = conns
        /\ accepting' = accepting /\ active' = active /\ batch' = batch /\ conn' = conn
        /\ expired' = expired /\ called' = called /\ down' = down /\ tasks' = tasks
    BY <1>4 DEF vars
  <2>2. Steady
    BY <2>1, UnmovedSteady
  <2>3. QueueInv' /\ ActiveInv'
    BY <2>1, <2>2, SteadyQueues, SteadyActive
  <2>4. AcceptInv'
    BY <2>1 DEF IInv, AcceptInv, Made
  <2>5. TypeInv'
    BY <2>1 DEF IInv, TypeInv
  <2> QED BY <2>2, <2>3, <2>4, <2>5, SteadyInv DEF IInv
<1> QED BY <1>1, <1>2, <1>3, <1>4 DEF Next

\* The scenario never changes.
LEMMA ConfigKept ==
  ASSUME [Next]_vars
  PROVE  config' = config
BY Zenon DEF Next, LoopStep, Polling, HandleChannel, TimerReadCb, RunTask, HandleListenRead,
  AcceptEnable, AcceptInsert, Connect, ClientSend, ClientFin, ClientReset, ClientRead, Client,
  CallFromThread, TimerExpires, vars

(***************************************************************************)
(* The invariant, for every set of connections, number of loops and        *)
(* scenario.                                                               *)
(***************************************************************************)
THEOREM Invariance == Spec => []IInv
BY InitIInv, NextIInv, PTL DEF Spec

(***************************************************************************)
(* What epoll watches of a connection, what is in its buffers and what the *)
(* timer wheel holds agree with its _status at any time.                   *)
(***************************************************************************)
THEOREM ChannelsStaySound == Spec => []ChannelsSound
<1>1. IInv => ChannelsSound
  <2> SUFFICES ASSUME IInv PROVE ChannelsSound
    OBVIOUS
  <2>1. \A c \in Conns : Sane(config, conn[c]) /\ (down = "up" => InPhase(conn[c]))
    BY DEF IInv, ConnInv, Sound
  <2>2. TypeOK
    <3>1. ASSUME NEW c \in Conns
          PROVE  /\ conn[c].timer <= config.timeout
                 /\ conn[c].in <= conn[c].sent /\ conn[c].sent <= config.sends
      <4>1. Sane(config, conn[c])
        BY <2>1
      <4>2. /\ conn[c].timer <= config.timeout /\ conn[c].in + conn[c].recvq <= conn[c].sent
            /\ conn[c].sent <= config.sends /\ conn[c] \in Connection
        BY <4>1 DEF Sane
      <4> QED BY <4>2, SMT DEF Connection
    <3>2. \A l \in Loops : tasks[l] \in Seq(Task) /\ batch[l] \in 0 .. Len(tasks[l])
      <4> SUFFICES ASSUME NEW l \in Loops
                   PROVE  tasks[l] \in Seq(Task) /\ batch[l] \in 0 .. Len(tasks[l])
        OBVIOUS
      <4>1. tasks[l] \in Seq(Task) /\ batch[l] \in Nat /\ batch[l] <= Len(tasks[l])
        BY DEF IInv, TypeInv
      <4>2. Len(tasks[l]) \in Nat
        BY <4>1, LenProperties
      <4> QED BY <4>1, <4>2, SMT
    <3> QED BY <3>1, <3>2 DEF IInv, TypeInv, TypeOK
  <2>3. OutWatched
    BY <2>1 DEF OutWatched, InPhase, Waiting, Accepted, Live, Released
  <2>4. WatchedWhileConnected
    BY <2>1 DEF WatchedWhileConnected, InPhase, Waiting, Accepted, Live, Released
  <2>5. ReleasedHasNoTimer
    BY <2>1 DEF ReleasedHasNoTimer, Sane
  <2> QED BY <2>2, <2>3, <2>4, <2>5 DEF ChannelsSound
<1> QED BY <1>1, Invariance, PTL

(***************************************************************************)
(* When the last shared_ptr to a Connection is gone, its socket is closed, *)
(* its channel is in no epoll and, without inactivity timers, no loop has  *)
(* still to call its HandleEvents.                                         *)
(***************************************************************************)
THEOREM FreedStaysUnused == Spec => []FreedIsUnused
<1>1. IInv => FreedIsUnused
  <2> SUFFICES ASSUME IInv, NEW c \in Conns, Freed(c)
               PROVE  /\ ~conn[c].open /\ ~conn[c].reg
                      /\ config.timeout = 0 => \A l \in Loops : c \notin active[l]
    BY DEF FreedIsUnused
  <2>1. ~conn[c].open
    BY DEF Freed, IInv, AcceptInv
  <2>2. ~conn[c].reg
    BY <2>1 DEF IInv, ConnInv, Sound, Sane
  <2>3. ASSUME config.timeout = 0, NEW l \in Loops, c \in active[l] PROVE FALSE
    BY <2>1, <2>3 DEF IInv, ActiveInv
  <2> QED BY <2>1, <2>2, <2>3
<1> QED BY <1>1, Invariance, PTL

\* Nothing waits unread in an echo connection, and its bytes are accounted for.
BytesInv ==
  config.app = "echo" => \A c \in Conns : conn[c].in = 0 /\ Conserved(conn[c])

(***************************************************************************)
(* HandleRead, the echo and HandleWrite neither lose nor invent a byte of  *)
(* a client, as long as only the client's bytes are sent to it.            *)
(***************************************************************************)
THEOREM BytesStayConserved ==
  ASSUME \A s \in Scenarios : s.app = "echo" => "Send" \notin s.calls
  PROVE  Spec => []BytesConserved
<1>1. Init => BytesInv
  <2> SUFFICES ASSUME Init, NEW c \in Conns PROVE conn[c].in = 0 /\ Conserved(conn[c])
    BY DEF BytesInv
  <2>1. config \in Scenario /\ conn[c] = NoClient
    BY ReactorAssumption DEF Init
  <2>2. Conserved(NoClient) /\ NoClient.in = 0
    BY <2>1, NoClientWaits DEF Waiting
  <2> QED BY <2>1, <2>2
<1>2. IInv /\ BytesInv /\ [Next]_vars => BytesInv'
  <2> SUFFICES ASSUME IInv, BytesInv, [Next]_vars, config'.app = "echo", NEW c \in Conns
               PROVE  conn'[c].in = 0 /\ Conserved(conn'[c])
    BY DEF BytesInv
  <2>1. Lawful(config, conn[c], conn'[c])
    BY NextIInv DEF LawfulStep
  <2>2. config' = config
    BY ConfigKept
  <2>3. "Send" \notin config.calls
    BY <2>2 DEF IInv, TypeInv
  <2> QED BY <2>1, <2>2, <2>3 DEF BytesInv, Lawful
<1>3. BytesInv => BytesConserved
  BY DEF BytesInv, BytesConserved, Conserved
<1> QED BY <1>1, <1>2, <1>3, Invariance, PTL DEF Spec

\* Without inactivity timers nothing but its release calls _closed_cb.
ClosedInv == config.timeout = 0 => \A c \in Conns : OnceClosed(conn[c])

(***************************************************************************)
(* HandleClose, ShutDownInLoop and WriteDone call _closed_cb once for a    *)
(* connection, unless another thread's ShutDown is queued or the           *)
(* inactivity timer releases the connection between epoll_wait and its     *)
(* handler.                                                                *)
(***************************************************************************)
THEOREM ClosedStaysOnce ==
  ASSUME \A s \in Scenarios : s.timeout = 0 => "ShutDown" \notin s.calls
  PROVE  Spec => []ClosedOnce
<1>1. Init => ClosedInv
  <2> SUFFICES ASSUME Init, NEW c \in Conns PROVE OnceClosed(conn[c])
    BY DEF ClosedInv
  <2>1. config \in Scenario /\ conn[c] = NoClient
    BY ReactorAssumption DEF Init
  <2>2. NoClient.closed = 0
    BY <2>1, NoClientWaits DEF Waiting
  <2> QED BY <2>1, <2>2 DEF OnceClosed
<1>2. IInv /\ ClosedInv /\ [Next]_vars => ClosedInv'
  <2> SUFFICES ASSUME IInv, ClosedInv, [Next]_vars, config'.timeout = 0, NEW c \in Conns
               PROVE  OnceClosed(conn'[c])
    BY DEF ClosedInv
  <2>1. Lawful(config, conn[c], conn'[c])
    BY NextIInv DEF LawfulStep
  <2>2. config' = config
    BY ConfigKept
  <2>3. "ShutDown" \notin config.calls
    BY <2>2 DEF IInv, TypeInv
  <2> QED BY <2>1, <2>2, <2>3 DEF ClosedInv, Lawful
<1>3. ClosedInv => ClosedOnce
  BY DEF ClosedInv, ClosedOnce, OnceClosed
<1> QED BY <1>1, <1>2, <1>3, Invariance, PTL DEF Spec

(***************************************************************************)
(* No step of any loop releases a connection with something in its         *)
(* _out_buffer, unless its client has reset it or its timer is due.        *)
(***************************************************************************)
THEOREM ReleasedOnlyWhenFlushed == Spec => ReleasedWhenFlushed
<1>1. IInv /\ [Next]_vars =>
        [\A c \in Conns :
           conn[c].status # "DISCONNECTED" /\ conn'[c].status = "DISCONNECTED" =>
             conn[c].rst \/ conn[c].timer = 1 \/ conn'[c].out = 0]_vars
  BY NextIInv DEF LawfulStep, Lawful
<1> QED BY <1>1, Invariance, PTL DEF Spec, ReleasedWhenFlushed

-----------------------------------------------------------------------------
(***************************************************************************)
(* Clients that do not reset leave the server up: what this needs besides  *)
(* the invariant.                                                          *)
(***************************************************************************)

\* AcceptCallback queues one Established for a connection.
Distinct(q) ==
  \A i, j \in DOMAIN q : q[i].op = "Established" /\ q[i] = q[j] => i = j

OnceInv ==
  \A l \in Loops :
    /\ Distinct(tasks[l])
    /\ \A t \in ToSet(tasks[l]) : t.op = "Established" => conn[t.conn].status = "CONNECTING"

\* HandleWrite will find something to write.
WriteInv == \A c \in Conns : "OUT" \in conn[c].rev => conn[c].out > 0

EmptyInv == \A c \in Conns : (config.app = "echo" => conn[c].in = 0) /\ Flushed(conn[c])

FateInv == down \in {"exit", "abort", "killed"} => \E c \in Conns : conn[c].rst

StayInv == config.timeout = 0 => OnceInv /\ WriteInv /\ EmptyInv /\ FateInv

\* A task that is not there yet, or need not be alone, is queued.
LEMMA DistinctAppend ==
  ASSUME NEW q \in Seq(Task), NEW t \in Task, Distinct(q), t.op # "Established" \/ t \notin ToSet(q)
  PROVE  Distinct(Append(q, t))
<1> PICK a : a = Append(q, t)
  OBVIOUS
<1>1. /\ Len(a) = Len(q) + 1 /\ DOMAIN a = 1 .. Len(q) + 1 /\ Len(q) \in Nat
      /\ DOMAIN q = 1 .. Len(q) /\ (\A i \in 1 .. Len(q) : a[i] = q[i]) /\ a[Len(q) + 1] = t
  BY AppendProperties, LenProperties
<1> SUFFICES ASSUME NEW i \in DOMAIN a, NEW j \in DOMAIN a, a[i].op = "Established", a[i] = a[j]
             PROVE  i = j
  BY DEF Distinct
<1>2. (i \in DOMAIN q \/ i = Len(q) + 1) /\ (j \in DOMAIN q \/ j = Len(q) + 1)
  BY <1>1, SMT
<1>3. CASE i \in DOMAIN q /\ j \in DOMAIN q
  BY <1>1, <1>3 DEF Distinct
<1>4. CASE i \in DOMAIN q /\ j = Len(q) + 1
  <2>1. q[i] = t /\ t.op = "Established"
    BY <1>1, <1>4
  <2> QED BY <1>4, <2>1 DEF ToSet
<1>5. CASE i = Len(q) + 1 /\ j \in DOMAIN q
  <2>1. q[j] = t /\ t.op = "Established"
    BY <1>1, <1>5
  <2> QED BY <1>5, <2>1 DEF ToSet
<1> QED BY <1>2, <1>3, <1>4, <1>5

\* A task is taken: an Established has no second one behind it.
LEMMA DistinctTail ==
  ASSUME NEW q \in Seq(Task), q # <<>>, Distinct(q)
  PROVE  /\ Distinct(Tail(q))
         /\ Head(q).op = "Established" => Head(q) \notin ToSet(Tail(q))
<1> PICK a : a = Tail(q)
  OBVIOUS
<1>1. /\ Len(q) \in Nat \ {0} /\ DOMAIN q = 1 .. Len(q) /\ DOMAIN a = 1 .. Len(q) - 1
      /\ \A i \in 1 .. Len(q) - 1 : a[i] = q[i + 1]
      /\ Head(q) = q[1]
  <2>1. a \in Seq(Task) /\ Len(a) = Len(q) - 1 /\ \A i \in 1 .. Len(a) : a[i] = q[i + 1]
    BY HeadTailProperties
  <2> QED BY <2>1, LenProperties, EmptySeq
<1>2. \A i \in DOMAIN a : i + 1 \in DOMAIN q /\ i + 1 # 1 /\ i \in Int
  BY <1>1, SMT
<1>3. Distinct(a)
  <2> SUFFICES ASSUME NEW i \in DOMAIN a, NEW j \in DOMAIN a, a[i].op = "Established", a[i] = a[j]
               PROVE  i = j
    BY DEF Distinct
  <2>1. q[i + 1].op = "Established" /\ q[i + 1] = q[j + 1]
    BY <1>1
  <2>2. i + 1 = j + 1
    BY <1>2, <2>1 DEF Distinct
  <2> QED BY <1>2, <2>2, SMT
<1>4. ASSUME Head(q).op = "Established", Head(q) \in ToSet(a) PROVE FALSE
  <2>1. PICK i \in DOMAIN a : a[i] = Head(q)
    BY <1>4 DEF ToSet
  <2>2. q[1].op = "Established" /\ q[1] = q[i + 1] /\ 1 \in DOMAIN q
    BY <1>1, <1>4, <2>1
  <2> QED BY <1>2, <2>2 DEF Distinct
<1> QED BY <1>3, <1>4

\* Tasks other than Established are queued.
LEMMA DistinctConcat ==
  ASSUME NEW q \in Seq(Task), NEW r \in Seq(Task), Distinct(q),
         \A t \in ToSet(r) : t.op # "Established"
  PROVE  Distinct(q \o r)
<1> PICK a : a = q \o r
  OBVIOUS
<1>1. /\ Len(q) \in Nat /\ Len(r) \in Nat /\ DOMAIN q = 1 .. Len(q) /\ DOMAIN r = 1 .. Len(r)
      /\ DOMAIN a = 1 .. Len(q) + Len(r)
      /\ \A i \in 1 .. Len(q) + Len(r) : a[i] = IF i <= Len(q) THEN q[i] ELSE r[i - Len(q)]
  <2>1. a \in Seq(Task) /\ Len(a) = Len(q) + Len(r)
        /\ \A i \in 1 .. Len(q) + Len(r) : a[i] = IF i <= Len(q) THEN q[i] ELSE r[i - Len(q)]
    BY ConcatProperties
  <2> QED BY <2>1, LenProperties
<1>2. ASSUME NEW i \in DOMAIN a, a[i].op = "Established" PROVE i \in DOMAIN q /\ a[i] = q[i]
  <2>1. CASE i <= Len(q)
    BY <1>1, <2>1, SMT
  <2>2. CASE ~(i <= Len(q))
    <3>1. i - Len(q) \in DOMAIN r /\ a[i] = r[i - Len(q)]
      BY <1>1, <2>2, SMT
    <3>2. a[i] \in ToSet(r)
      BY <3>1 DEF ToSet
    <3> QED BY <1>2, <3>2
  <2> QED BY <2>1, <2>2
<1> QED BY <1>2 DEF Distinct

\* RemoveFromServer queues no Established.
LEMMA RemovalDistinct ==
  ASSUME TypeInv, NEW l, NEW cs, cs \subseteq Conns, NEW rest \in [Loops -> Seq(Task)],
         RemoveFromServer(l, cs, rest), \A m \in Loops : Distinct(rest[m])
  PROVE  \A m \in Loops : Distinct(tasks'[m])
<1>1. CASE l = Main
  BY <1>1 DEF RemoveFromServer
<1>2. CASE l # Main
  <2>1. PICK q \in RemoveTasks(cs) : tasks' = [rest EXCEPT ![Main] = @ \o q]
    BY <1>2, Zenon DEF RemoveFromServer
  <2>2. q \in Seq(Task) /\ \A t \in ToSet(q) : t.op = "Remove"
    BY RemovalTasks
  <2>3. Main \in Loops /\ rest[Main] \in Seq(Task)
    BY DEF Loops
  <2> PICK u : u = rest[Main] \o q
    OBVIOUS
  <2>4. Distinct(u)
    BY <2>2, <2>3, DistinctConcat
  <2>5. tasks'[Main] = u /\ \A m \in Loops \ {Main} : tasks'[m] = rest[m]
    BY <2>1, <2>3
  <2> QED BY <2>4, <2>5
<1> QED BY <1>1, <1>2

(***************************************************************************)
(* A handler or a task of one connection, again.                           *)
(***************************************************************************)
LEMMA BecomeStays ==
  ASSUME IInv, down = "up", config' = config, loopOf' = loopOf, OnceInv, WriteInv,
         NEW c \in Conns, Made(c), NEW j, Becomes(config, conn[c], j),
         NEW rest \in [Loops -> Seq(Task)],
         \A m \in Loops : ToSet(rest[m]) \subseteq ToSet(tasks[m]) /\ Distinct(rest[m]),
         Become(c, j, rest),
         \/ conn[c].status = "CONNECTING" => j.status = "CONNECTING"
         \/ \A m \in Loops : \A t \in ToSet(rest[m]) : t.op = "Established" => t.conn # c
  PROVE  OnceInv' /\ WriteInv'
<1> DEFINE cs == IF j.told THEN {c} ELSE {}
<1>1. conn' = [conn EXCEPT ![c] = Settled(j)] /\ RemoveFromServer(loopOf[c], cs, rest)
  BY DEF Become
<1> PICK n : n = Settled(j)
  OBVIOUS
<1>2. n.rev = {} /\ n.status = j.status
  <2>1. j \in Connection
    BY DEF Becomes, Sane
  <2> QED BY <2>1, SettledFields DEF Same
<1>3. conn'[c] = n /\ \A d \in Conns \ {c} : conn'[d] = conn[d]
  <2>1. conn \in [Conns -> Connection]
    BY DEF IInv, TypeInv
  <2> QED BY <1>1, <2>1
<1>4. TypeInv /\ cs \subseteq Conns
  BY DEF IInv
<1> HIDE DEF cs
<1>5. \A m \in Loops : Distinct(tasks'[m])
  BY <1>1, <1>4, RemovalDistinct
<1>6. \A m \in Loops : \A t \in ToSet(tasks'[m]) : t \in ToSet(rest[m]) \/ t.op = "Remove"
  BY <1>1, <1>4, Removal, ZenonT(60)
<1>7. ASSUME NEW m \in Loops, NEW t \in ToSet(tasks'[m]), t.op = "Established"
      PROVE  conn'[t.conn].status = "CONNECTING"
  <2>1. t \in ToSet(rest[m]) /\ t \in ToSet(tasks[m])
    BY <1>6, <1>7
  <2>2. conn[t.conn].status = "CONNECTING"
    BY <1>7, <2>1 DEF OnceInv
  <2>3. t.conn \in Conns
    <3>1. tasks[m] \in Seq(Task)
      BY <1>4 DEF TypeInv
    <3>2. DOMAIN tasks[m] = 1 .. Len(tasks[m]) /\ \A i \in 1 .. Len(tasks[m]) : tasks[m][i] \in Task
      BY <3>1, LenProperties, ElementOfSeq
    <3>3. t \in Task
      BY <2>1, <3>2 DEF ToSet
    <3> QED BY <3>3 DEF Task
  <2> QED BY <1>2, <1>3, <1>7, <2>1, <2>2, <2>3
<1>8. WriteInv'
  BY <1>2, <1>3 DEF WriteInv
<1> QED BY <1>5, <1>7, <1>8 DEF OnceInv

\* An active channel is handled.
LEMMA HandleChannelStays ==
  ASSUME IInv, down = "up", config.timeout = 0, OnceInv, WriteInv,
         NEW l \in Loops, NEW c \in Conns, HandleChannel(l, c)
  PROVE  OnceInv' /\ WriteInv' /\ FateInv'
<1>1. config' = config /\ loopOf' = loopOf /\ c \in active[l]
  BY DEF HandleChannel
<1>2. Made(c) /\ Live(conn[c]) /\ conn[c].open
  BY <1>1, ActiveConn DEF Released
<1>3. CASE Freed(c)
  <2>1. conn' = conn /\ tasks' = tasks /\ down' = "dangling"
    BY <1>3 DEF HandleChannel
  <2> QED BY <2>1 DEF OnceInv, WriteInv, FateInv
<1>4. CASE ~Freed(c)
  <2>1. PICK k \in HandleEvents(conn[c]) : Become(c, k, tasks)
    BY <1>4, Zenon DEF HandleChannel
  <2>2. Sane(config, conn[c]) /\ ("HUP" \in conn[c].rev => conn[c].rst) /\ conn[c].fate = "up"
    BY DEF IInv, ConnInv, Sound
  <2>3. config \in Scenario /\ config.timeout \in Nat /\ conn[c] \in Connection
    BY <2>2, ScenarioFacts DEF IInv, Sane
  <2>4. Becomes(config, conn[c], k)
    BY <1>2, <2>2, <2>3, EventsBecome
  <2>5. tasks \in [Loops -> Seq(Task)] /\ \A m \in Loops : Distinct(tasks[m])
    BY DEF IInv, TypeInv, OnceInv
  <2>6. conn[c].status # "CONNECTING"
    BY <1>2 DEF Live
  <2>7. OnceInv' /\ WriteInv'
    BY <1>1, <1>2, <2>1, <2>4, <2>5, <2>6, BecomeStays
  <2>8. ASSUME ~conn[c].rst PROVE k.fate = "up"
    <3>1. Outcome(conn[c], k)
      BY <1>2, <2>1, <2>2, <2>3, LiveOutcome
    <3>2. "OUT" \in conn[c].rev => conn[c].out > 0
      BY DEF WriteInv
    <3> QED BY <2>2, <2>8, <3>1, <3>2 DEF Outcome
  <2>9. k.rst = conn[c].rst
    BY <2>1, <2>3, HandlersSequel DEF Sequel
  <2>10. conn'[c].rst = conn[c].rst /\ down' = k.fate
    <3>1. Same(k, conn'[c]) /\ down' = k.fate
      BY <1>1, <1>2, <2>1, <2>4, BecomeMoves DEF Become
    <3> QED BY <2>9, <3>1 DEF Same
  <2> QED BY <2>7, <2>8, <2>10 DEF FateInv
<1> QED BY <1>3, <1>4

(***************************************************************************)
(* The next task: Established finds its connection as AcceptCallback left  *)
(* it, and ShutDown has nothing to handle on a released connection.        *)
(***************************************************************************)
LEMMA RunTaskStays ==
  ASSUME IInv, down = "up", config.timeout = 0, Quiet(config), OnceInv, WriteInv, EmptyInv,
         NEW l \in Loops, RunTask(l)
  PROVE  OnceInv' /\ WriteInv' /\ FateInv'
<1> DEFINE rest == [tasks EXCEPT ![l] = Tail(@)]
<1>1. config' = config /\ loopOf' = loopOf /\ batch[l] > 0
  BY DEF RunTask
<1>2. TypeInv /\ tasks[l] \in Seq(Task) /\ tasks \in [Loops -> Seq(Task)] /\ QueueInv
  BY DEF IInv, TypeInv
<1>3. tasks[l] # <<>>
  <2>1. batch[l] \in Nat /\ batch[l] <= Len(tasks[l]) /\ Len(tasks[l]) \in Nat
    BY <1>2, LenProperties DEF TypeInv
  <2>2. Len(tasks[l]) # 0
    BY <1>1, <2>1, SMT
  <2> QED BY <1>2, <2>2, EmptySeq
<1> PICK t : t = Head(tasks[l])
  OBVIOUS
<1>4. /\ t \in ToSet(tasks[l]) /\ t \in Task /\ TaskSound(l, t)
      /\ ToSet(Tail(tasks[l])) \subseteq ToSet(tasks[l]) /\ Tail(tasks[l]) \in Seq(Task)
      /\ Distinct(Tail(tasks[l]))
      /\ t.op = "Established" => t \notin ToSet(Tail(tasks[l]))
  <2>1. /\ Tail(tasks[l]) \in Seq(Task) /\ Head(tasks[l]) \in ToSet(tasks[l])
        /\ ToSet(Tail(tasks[l])) \subseteq ToSet(tasks[l]) /\ ToSet(tasks[l]) \subseteq Task
    BY <1>2, <1>3, ToSetTail
  <2>2. Distinct(tasks[l])
    BY DEF OnceInv
  <2> QED BY <1>2, <1>3, <2>1, <2>2, DistinctTail DEF QueueInv
<1>5. /\ rest \in [Loops -> Seq(Task)]
      /\ \A m \in Loops : ToSet(rest[m]) \subseteq ToSet(tasks[m]) /\ Distinct(rest[m])
      /\ rest[l] = Tail(tasks[l]) /\ \A m \in Loops \ {l} : rest[m] = tasks[m]
  <2>1. /\ rest \in [Loops -> Seq(Task)] /\ rest[l] = Tail(tasks[l])
        /\ \A m \in Loops \ {l} : rest[m] = tasks[m]
    BY <1>2, <1>4
  <2>2. \A m \in Loops : Distinct(tasks[m])
    BY DEF OnceInv
  <2> QED BY <1>4, <2>1, <2>2
<1> PICK c : c = t.conn
  OBVIOUS
<1> PICK k : k = conn[c]
  OBVIOUS
<1>6. /\ Sane(config, k) /\ k.fate = "up" /\ InPhase(k) /\ ("HUP" \in k.rev => k.rst)
      /\ c \in Conns /\ Made(c) /\ k.status \notin {"NEW", "BACKLOG"} /\ k \in Connection
      /\ Started(k) => Live(k) \/ Released(k)
  <2>1. k \in Connection
    BY <1>4, TaskConn DEF Sane
  <2> QED BY <1>4, <2>1, TaskConn
<1>7. config \in Scenario /\ config.timeout \in Nat
  BY <1>2, ScenarioFacts
<1> HIDE DEF rest
<1>8. ASSUME NEW j, Becomes(config, k, j), Become(c, j, rest),
             \/ k.status = "CONNECTING" => j.status = "CONNECTING"
             \/ \A m \in Loops : \A u \in ToSet(rest[m]) : u.op = "Established" => u.conn # c,
             j.fate = "up" \/ j.rst
      PROVE  OnceInv' /\ WriteInv' /\ FateInv'
  <2>1. OnceInv' /\ WriteInv'
    BY <1>1, <1>5, <1>6, <1>8, BecomeStays
  <2>2. Same(j, conn'[c]) /\ down' = j.fate
    BY <1>1, <1>6, <1>8, BecomeMoves DEF Become
  <2> QED BY <1>6, <1>8, <2>1, <2>2 DEF FateInv, Same
<1>9. CASE t.op = "Established"
  <2> PICK j : j = EstablishedInLoop(k)
    OBVIOUS
  <2>1. Become(c, j, rest)
    BY <1>9, Zenon DEF RunTask, rest
  <2>2. k.status = "CONNECTING"
    BY <1>4, <1>9 DEF OnceInv
  <2>3. Becomes(config, k, j) /\ j.fate = "up"
    BY <1>6, <1>7, <2>2, EstablishedBecomes
  <2>4. ASSUME NEW m \in Loops, NEW u \in ToSet(rest[m]), u.op = "Established", u.conn = c
        PROVE  FALSE
    <3>1. u \in ToSet(tasks[m])
      BY <1>5
    <3>2. u \in Task
      <4>1. tasks[m] \in Seq(Task)
        BY <1>2
      <4>2. DOMAIN tasks[m] = 1 .. Len(tasks[m]) /\ \A i \in 1 .. Len(tasks[m]) : tasks[m][i] \in Task
        BY <4>1, LenProperties, ElementOfSeq
      <4> QED BY <3>1, <4>2 DEF ToSet
    <3>3. u = t
      BY <1>4, <1>9, <2>4, <3>2 DEF Task
    <3>4. loopOf[c] = m /\ loopOf[c] = l
      <4>1. TaskSound(m, u)
        BY <1>2, <3>1 DEF QueueInv
      <4> QED BY <1>4, <1>9, <2>4, <4>1 DEF TaskSound
    <3> QED BY <1>4, <1>5, <1>9, <2>4, <3>3, <3>4
  <2> QED BY <1>8, <2>1, <2>3, <2>4
<1>10. CASE t.op = "EnableInactiveRelease"
  <2> PICK j : j = EnableInactiveReleaseInLoop(k)
    OBVIOUS
  <2>1. Become(c, j, rest)
    BY <1>10, Zenon DEF RunTask, rest
  <2>2. config.threads # 0
    BY <1>4, <1>10 DEF TaskSound
  <2>3. Becomes(config, k, j) /\ Same(k, j)
    BY <1>6, <1>7, <2>2, EnableBecomes
  <2>4. j.fate = "up" /\ j.status = k.status
    BY <1>6, <2>3 DEF Same
  <2> QED BY <1>8, <2>1, <2>3, <2>4
<1>11. CASE t.op = "Send"
  <2> PICK j : j = SendInLoop(k, 1)
    OBVIOUS
  <2>1. Become(c, j, rest)
    BY <1>11, Zenon DEF RunTask, rest
  <2>2. Started(k) /\ "Send" \in config.calls
    BY <1>4, <1>11 DEF TaskSound
  <2>3. Becomes(config, k, j) /\ j.fate = "up" /\ k.status # "CONNECTING"
    BY <1>6, <1>7, <2>2, SendBecomes DEF Started
  <2> QED BY <1>8, <2>1, <2>3
<1>12. CASE t.op = "ShutDown"
  <2>1. PICK j \in ShutDownInLoop(k) : Become(c, j, rest)
    BY <1>12, Zenon DEF RunTask, rest
  <2>2. Started(k) /\ "ShutDown" \in config.calls
    BY <1>4, <1>12 DEF TaskSound
  <2>3. Becomes(config, k, j) /\ k.status # "CONNECTING"
    BY <1>6, <1>7, <2>2, ShutDownBecomes DEF Started
  <2>4. j.rst = k.rst
    BY <1>6, <1>7, ShutDownSequel DEF Sequel
  <2>5. ASSUME ~k.rst PROVE j.fate = "up"
    <3>1. CASE Live(k)
      <4>1. Outcome(k, j)
        BY <1>6, <3>1, ShutDownOutcome
      <4>2. "OUT" \in k.rev => k.out > 0
        BY <1>6 DEF WriteInv
      <4> QED BY <1>6, <2>5, <4>1, <4>2 DEF Outcome
    <3>2. CASE Released(k)
      <4>1. k.in = 0 /\ k.out = 0
        <5>1. config.app = "echo"
          BY <2>2 DEF Quiet
        <5> QED BY <1>6, <2>5, <3>2, <5>1 DEF EmptyInv, Flushed, Released
      <4> QED BY <1>6, <3>2, <4>1, ReleasedShutDown
    <3> QED BY <1>6, <2>2, <3>1, <3>2
  <2> QED BY <1>8, <2>1, <2>3, <2>4, <2>5
<1>13. CASE t.op = "Remove"
  <2>1. tasks' = rest /\ conn' = conn /\ down' = down
    BY <1>13, Zenon DEF RunTask, rest
  <2> QED BY <1>5, <2>1 DEF OnceInv, WriteInv, FateInv
<1> QED BY <1>4, <1>9, <1>10, <1>11, <1>12, <1>13 DEF Task

\* The tasks are as they were, and no connection has left CONNECTING.
LEMMA OnceKept ==
  ASSUME IInv, OnceInv, tasks' = tasks,
         \A d \in Conns : conn[d].status = "CONNECTING" => conn'[d].status = "CONNECTING"
  PROVE  OnceInv'
<1> SUFFICES ASSUME NEW l \in Loops, NEW t \in ToSet(tasks[l]), t.op = "Established"
             PROVE  conn'[t.conn].status = "CONNECTING"
  BY DEF OnceInv
<1>1. tasks[l] \in Seq(Task)
  BY DEF IInv, TypeInv
<1>2. DOMAIN tasks[l] = 1 .. Len(tasks[l]) /\ \A i \in 1 .. Len(tasks[l]) : tasks[l][i] \in Task
  BY <1>1, LenProperties, ElementOfSeq
<1>3. t \in Task
  BY <1>2 DEF ToSet
<1> QED BY <1>3 DEF Task, OnceInv

\* Without inactivity timers nothing expires.
LEMMA TimerReadCbStays ==
  ASSUME IInv, down = "up", config.timeout = 0, OnceInv, WriteInv, NEW l \in Loops, TimerReadCb(l)
  PROVE  OnceInv' /\ WriteInv' /\ FateInv'
<1> DEFINE due == {c \in Conns : loopOf[c] = l /\ conn[c].timer = 1 /\ ~Freed(c)}
           running == {c \in Conns : loopOf[c] = l /\ conn[c].timer > 0}
<1>1. TypeInv /\ tasks \in [Loops -> Seq(Task)] /\ conn \in [Conns -> Connection]
  BY DEF IInv, TypeInv
<1>2. \A c \in Conns : conn[c].timer = 0
  <2> SUFFICES ASSUME NEW c \in Conns PROVE conn[c].timer = 0
    OBVIOUS
  <2>1. conn[c].timer <= 0 /\ conn[c] \in Connection
    BY DEF IInv, ConnInv, Sound, Sane
  <2> QED BY <2>1, SMT DEF Connection
<1>3. due = {} /\ running = {}
  <2>1. 0 # 1 /\ ~(0 > 0)
    BY SMT
  <2> QED BY <1>2, <2>1
<1>4. RemoveFromServer(l, due, tasks) /\ down' = down
  BY DEF TimerReadCb
<1>5. conn' = [c \in Conns |->
                 IF c \in due THEN [ReleaseInLoop(conn[c]) EXCEPT !.told = FALSE]
                 ELSE IF c \in running THEN [conn[c] EXCEPT !.timer = @ - 1]
                 ELSE conn[c]]
  BY DEF TimerReadCb
<1>6. \A c \in Conns : conn'[c] = conn[c]
  BY <1>3, <1>5
<1> HIDE DEF due
<1>7. /\ \A m \in Loops : Distinct(tasks'[m])
      /\ \A m \in Loops : \A t \in ToSet(tasks'[m]) : t \in ToSet(tasks[m])
  BY <1>1, <1>3, <1>4, Removal, RemovalDistinct DEF OnceInv
<1>8. ASSUME NEW m \in Loops, NEW t \in ToSet(tasks'[m]), t.op = "Established"
      PROVE  conn'[t.conn].status = "CONNECTING"
  <2>1. DOMAIN tasks[m] = 1 .. Len(tasks[m]) /\ \A i \in 1 .. Len(tasks[m]) : tasks[m][i] \in Task
    <3>1. tasks[m] \in Seq(Task)
      BY <1>1
    <3> QED BY <3>1, LenProperties, ElementOfSeq
  <2>2. t \in ToSet(tasks[m]) /\ t.conn \in Conns
    BY <1>7, <2>1 DEF ToSet, Task
  <2> QED BY <1>6, <1>8, <2>2 DEF OnceInv
<1> QED BY <1>4, <1>6, <1>7, <1>8 DEF OnceInv, WriteInv, FateInv

\* NewConnection queues the Established of a connection that had none.
LEMMA HandleListenReadStays ==
  ASSUME IInv, down = "up", OnceInv, WriteInv, NEW c \in Conns, HandleListenRead(c)
  PROVE  OnceInv' /\ WriteInv' /\ FateInv'
<1> DEFINE l == GetNextLoopThread
<1> PICK b : b = conn[c]
  OBVIOUS
<1> PICK k : k = [b EXCEPT !.status = "CONNECTING", !.open = TRUE]
  OBVIOUS
<1> PICK e : e = EstablishedInLoop(k)
  OBVIOUS
<1> PICK t : t = TaskOf("Established", c)
  OBVIOUS
<1>1. b.status = "BACKLOG"
  BY DEF HandleListenRead
<1>2. /\ l = Main => conn' = [conn EXCEPT ![c] = e] /\ down' = e.fate /\ tasks' = tasks
      /\ l # Main => /\ conn' = [conn EXCEPT ![c] = k] /\ down' = down
                     /\ tasks' = [tasks EXCEPT ![l] = Append(@, t)]
  BY DEF HandleListenRead, RunInLoop
<1>3. TypeInv /\ config \in Scenario /\ l \in Loops
  BY NextLoopType, ScenarioFacts DEF IInv
<1> HIDE DEF l
<1>4. Sound(config, b) /\ Waiting(b) /\ b.fate = "up" /\ b.status = "BACKLOG"
  <2>1. Sound(config, b) /\ InPhase(b) /\ b.fate = "up"
    BY DEF IInv, ConnInv
  <2> QED BY <1>1, <2>1 DEF InPhase, Accepted, Live, Released
<1>5. Sound(config, k) /\ Accepted(k) /\ k.fate = "up" /\ k \in Connection /\ k.status = "CONNECTING"
  BY <1>4, AcceptedFields, Zenon
<1>6. e.rev = k.rev /\ e.out = k.out /\ e.fate = "up" /\ k.rev = b.rev /\ k.out = b.out
  <2>1. Alike(k, e) /\ e.out = k.out
    BY <1>5, EstablishedFields
  <2>2. e.fate = "up"
    <3>1. Sane(config, k) /\ InPhase(k) /\ k.status \notin {"NEW", "BACKLOG"}
      BY <1>5 DEF Sound, InPhase
    <3> QED BY <1>3, <1>5, <3>1, EstablishedBecomes
  <2>3. k.rev = b.rev /\ k.out = b.out
    <3>1. b \in Connection
      BY <1>4 DEF Sound, Sane
    <3> QED BY <3>1, SMT DEF Connection
  <2> QED BY <2>1, <2>2, <2>3 DEF Alike
<1> PICK n : n = IF l = Main THEN e ELSE k
  OBVIOUS
<1>7. /\ conn'[c] = n /\ \A d \in Conns \ {c} : conn'[d] = conn[d]
      /\ down' = "up" /\ n.rev = b.rev /\ n.out = b.out
  <2>1. conn \in [Conns -> Connection]
    BY <1>3 DEF TypeInv
  <2>2. conn' = [conn EXCEPT ![c] = n] /\ down' = "up" /\ n.rev = b.rev /\ n.out = b.out
    BY <1>2, <1>6
  <2> QED BY <2>1, <2>2
<1>8. WriteInv'
  BY <1>7 DEF WriteInv
<1>9. \A m \in Loops : tasks[m] \in Seq(Task) /\ t \notin ToSet(tasks[m])
  <2> SUFFICES ASSUME NEW m \in Loops PROVE tasks[m] \in Seq(Task) /\ t \notin ToSet(tasks[m])
    OBVIOUS
  <2>1. ASSUME NEW u \in ToSet(tasks[m]), u.conn = c PROVE FALSE
    BY <1>1, <2>1 DEF IInv, QueueInv, TaskSound, Made
  <2>2. t.conn = c
    BY SMT DEF TaskOf
  <2> QED BY <1>3, <2>1, <2>2 DEF TypeInv
<1>10. t \in Task /\ t.conn = c
  BY SMT DEF TaskOf, Task
<1>11. CASE l = Main
  BY <1>1, <1>2, <1>7, <1>8, <1>11, OnceKept DEF FateInv
<1>12. CASE l # Main
  <2> PICK a : a = Append(tasks[l], t)
    OBVIOUS
  <2>1. Distinct(a)
    BY <1>3, <1>9, <1>10, DistinctAppend DEF OnceInv
  <2>2. tasks'[l] = a /\ \A m \in Loops \ {l} : tasks'[m] = tasks[m]
    BY <1>2, <1>3, <1>12 DEF TypeInv
  <2>3. \A m \in Loops : \A u \in ToSet(tasks'[m]) : u \in ToSet(tasks[m]) \/ u = t
    <3>1. ToSet(a) \subseteq ToSet(tasks[l]) \cup {t}
      BY <1>3, <1>9, <1>10, ToSetAppend
    <3> QED BY <2>2, <3>1
  <2>4. ASSUME NEW m \in Loops, NEW u \in ToSet(tasks'[m]), u.op = "Established"
        PROVE  conn'[u.conn].status = "CONNECTING"
    <3>1. CASE u = t
      BY <1>5, <1>7, <1>10, <1>12, <3>1
    <3>2. CASE u \in ToSet(tasks[m])
      <4>1. DOMAIN tasks[m] = 1 .. Len(tasks[m]) /\ \A i \in 1 .. Len(tasks[m]) : tasks[m][i] \in Task
        BY <1>9, LenProperties, ElementOfSeq
      <4>2. u.conn \in Conns
        BY <3>2, <4>1 DEF ToSet, Task
      <4>3. conn[u.conn].status = "CONNECTING"
        BY <2>4, <3>2 DEF OnceInv
      <4> QED BY <1>1, <1>7, <4>2, <4>3
    <3> QED BY <2>3, <3>1, <3>2
  <2>5. \A m \in Loops : Distinct(tasks'[m])
    BY <2>1, <2>2 DEF OnceInv
  <2> QED BY <1>7, <1>8, <2>4, <2>5 DEF OnceInv, FateInv
<1> QED BY <1>11, <1>12

\* One more task that is not Established.
LEMMA OnceAdded ==
  ASSUME IInv, OnceInv, NEW l \in Loops, NEW t \in Task, t.op # "Established",
         tasks' = [tasks EXCEPT ![l] = Append(@, t)], conn' = conn
  PROVE  OnceInv'
<1>1. tasks \in [Loops -> Seq(Task)]
  BY DEF IInv, TypeInv
<1> PICK a : a = Append(tasks[l], t)
  OBVIOUS
<1>2. Distinct(a) /\ ToSet(a) \subseteq ToSet(tasks[l]) \cup {t}
  BY <1>1, DistinctAppend, ToSetAppend DEF OnceInv
<1>3. tasks'[l] = a /\ \A m \in Loops \ {l} : tasks'[m] = tasks[m]
  BY <1>1
<1> QED BY <1>2, <1>3 DEF OnceInv

\* EnableInactiveRelease queues another kind of task.
LEMMA AcceptEnableStays ==
  ASSUME IInv, down = "up", OnceInv, WriteInv, AcceptEnable
  PROVE  OnceInv' /\ WriteInv' /\ FateInv'
<1> PICK c : c = accepting[2]
  OBVIOUS
<1> PICK e : e = EnableInactiveReleaseInLoop(conn[c])
  OBVIOUS
<1> PICK t : t = TaskOf("EnableInactiveRelease", c)
  OBVIOUS
<1>1. /\ loopOf[c] = Main => conn' = [conn EXCEPT ![c] = e] /\ down' = e.fate /\ tasks' = tasks
      /\ loopOf[c] # Main => /\ conn' = conn /\ down' = down
                             /\ tasks' = [tasks EXCEPT ![loopOf[c]] = Append(@, t)]
      /\ accepting # NoConn
  BY DEF AcceptEnable, RunInLoop
<1>2. TypeInv /\ config \in Scenario /\ c \in Conns /\ loopOf[c] \in Loops
  <2>1. TypeInv /\ accepting \in {"EnableInactiveRelease", "Insert"} \X Conns
    BY <1>1 DEF IInv, TypeInv
  <2>2. c \in Conns
    BY <2>1
  <2> QED BY <2>1, <2>2, ScenarioFacts DEF TypeInv
<1>3. CASE loopOf[c] = Main
  <2>1. Made(c) /\ (config.threads = 0 => conn[c].status = "CONNECTED")
    BY <1>1 DEF IInv, AcceptInv
  <2>2. Sound(config, conn[c]) /\ InPhase(conn[c]) /\ conn[c].fate = "up"
    BY <1>2 DEF IInv, ConnInv
  <2>3. Same(conn[c], e) /\ e.rev = conn[c].rev
    <3>1. /\ Sane(config, conn[c]) /\ conn[c].status \notin {"NEW", "BACKLOG"}
          /\ config.threads = 0 => conn[c].status # "DISCONNECTED"
      BY <2>1, <2>2 DEF Sound, Made
    <3> QED BY <1>2, <2>2, <3>1, EnableBecomes
  <2>4. e.status = conn[c].status /\ e.out = conn[c].out /\ e.fate = "up"
    BY <2>2, <2>3 DEF Same
  <2>5. conn'[c] = e /\ (\A d \in Conns \ {c} : conn'[d] = conn[d]) /\ down' = "up" /\ tasks' = tasks
    <3>1. conn \in [Conns -> Connection]
      BY <1>2 DEF TypeInv
    <3> QED BY <1>1, <1>2, <1>3, <2>4, <3>1
  <2>6. OnceInv'
    BY <2>4, <2>5, OnceKept
  <2> QED BY <2>3, <2>4, <2>5, <2>6 DEF WriteInv, FateInv
<1>4. CASE loopOf[c] # Main
  <2>1. t \in Task /\ t.op # "Established"
    BY <1>2, SMT DEF TaskOf, Task
  <2>2. OnceInv'
    BY <1>1, <1>2, <1>4, <2>1, OnceAdded, Zenon
  <2> QED BY <1>1, <1>4, <2>2 DEF WriteInv, FateInv
<1> QED BY <1>3, <1>4

\* epoll reports EPOLLOUT only for a connection that has something to send.
LEMMA PollingStays ==
  ASSUME IInv, down = "up", OnceInv, WriteInv, NEW l \in Loops, Polling(l)
  PROVE  OnceInv' /\ WriteInv' /\ FateInv'
<1>1. /\ tasks' = tasks /\ down' = down
      /\ conn' = [c \in Conns |-> IF c \in Ready(l)
                                  THEN [conn[c] EXCEPT !.rev = Revents(conn[c])]
                                  ELSE conn[c]]
  BY DEF Polling
<1>2. ASSUME NEW c \in Conns, c \in Ready(l)
      PROVE  /\ conn'[c].status = conn[c].status
             /\ "OUT" \in conn'[c].rev => conn'[c].out > 0
  <2> PICK n : n = conn'[c]
    OBVIOUS
  <2>1. n = [conn[c] EXCEPT !.rev = Revents(conn[c])]
    BY <1>1, <1>2
  <2>2. Sound(config, conn[c]) /\ InPhase(conn[c])
    BY DEF IInv, ConnInv
  <2>3. Same(conn[c], n) /\ n.rev = Revents(conn[c])
    BY <2>1, <2>2, Polled
  <2>4. conn[c].reg
    <3>1. Conns \cap {"listen", "timer"} = {}
      BY ReactorAssumption
    <3> QED BY <1>2, <3>1 DEF Ready
  <2>5. "OUT" \in Revents(conn[c]) => conn[c].out > 0
    <3>1. Live(conn[c])
      BY <2>2, <2>4 DEF InPhase, Waiting, Accepted, Released
    <3> QED BY <3>1 DEF Revents, Live
  <2> QED BY <2>3, <2>5 DEF Same
<1>3. \A c \in Conns : c \notin Ready(l) => conn'[c] = conn[c]
  BY <1>1
<1>4. OnceInv'
  BY <1>1, <1>2, <1>3, OnceKept
<1> QED BY <1>1, <1>2, <1>3, <1>4 DEF WriteInv, FateInv

\* No client touches what is to be sent or what epoll has reported.
LEMMA ClientStays ==
  ASSUME IInv, down = "up", OnceInv, WriteInv, NEW c \in Conns,
         Connect(c) \/ ClientSend(c) \/ ClientFin(c) \/ ClientReset(c) \/ ClientRead(c)
  PROVE  OnceInv' /\ WriteInv' /\ FateInv'
<1> PICK k : k = conn[c]
  OBVIOUS
<1> DEFINE s == k.sent + 1
           r == k.recvq + 1
<1>1. PICK n : /\ Client(c, n)
               /\ \/ k.status = "NEW" /\ n = [k EXCEPT !.status = "BACKLOG"]
                  \/ n = [k EXCEPT !.sent = s, !.recvq = r]
                  \/ n = [k EXCEPT !.fin = TRUE]
                  \/ n = [k EXCEPT !.rst = TRUE]
                  \/ n = [k EXCEPT !.room = TRUE]
  BY Zenon DEF Connect, ClientSend, ClientFin, ClientReset, ClientRead
<1>2. conn \in [Conns -> Connection] /\ k \in Connection
  BY DEF IInv, TypeInv
<1> HIDE DEF s, r
<1>3. /\ n.rev = k.rev /\ n.out = k.out
      /\ k.status = "CONNECTING" => n.status = "CONNECTING"
  <2>1. CASE k.status = "NEW" /\ n = [k EXCEPT !.status = "BACKLOG"]
    BY <1>2, <2>1, SMT DEF Connection
  <2>2. CASE n = [k EXCEPT !.sent = s, !.recvq = r]
    BY <1>2, <2>2, SMT DEF Connection
  <2>3. CASE n = [k EXCEPT !.fin = TRUE]
    BY <1>2, <2>3, SMT DEF Connection
  <2>4. CASE n = [k EXCEPT !.rst = TRUE]
    BY <1>2, <2>4, SMT DEF Connection
  <2>5. CASE n = [k EXCEPT !.room = TRUE]
    BY <1>2, <2>5, SMT DEF Connection
  <2> QED BY <1>1, <2>1, <2>2, <2>3, <2>4, <2>5
<1>4. /\ conn'[c] = n /\ (\A d \in Conns \ {c} : conn'[d] = conn[d])
      /\ tasks' = tasks /\ down' = down
  BY <1>1, <1>2 DEF Client
<1>5. OnceInv'
  BY <1>3, <1>4, OnceKept
<1> QED BY <1>3, <1>4, <1>5 DEF WriteInv, FateInv

\* Another thread's call queues another kind of task.
LEMMA CallFromThreadStays ==
  ASSUME IInv, down = "up", OnceInv, WriteInv,
         NEW c \in Conns, NEW op \in config.calls, CallFromThread(c, op)
  PROVE  OnceInv' /\ WriteInv' /\ FateInv'
<1> PICK t : t = TaskOf(op, c)
  OBVIOUS
<1>1. conn' = conn /\ down' = down /\ tasks' = [tasks EXCEPT ![loopOf[c]] = Append(@, t)]
  BY DEF CallFromThread
<1>2. loopOf[c] \in Loops /\ op \in {"Send", "ShutDown"}
  <2>1. TypeInv /\ config \in Scenario
    BY ScenarioFacts DEF IInv
  <2> QED BY <2>1 DEF TypeInv, Scenario
<1>3. t \in Task /\ t.op # "Established"
  BY <1>2, SMT DEF TaskOf, Task
<1>4. OnceInv'
  BY <1>1, <1>2, <1>3, OnceAdded, Zenon
<1> QED BY <1>1, <1>4 DEF WriteInv, FateInv

\* The whole of it is inductive, relative to the invariant above.
LEMMA NextStays ==
  ASSUME IInv, StayInv, [Next]_vars, Quiet(config)
  PROVE  StayInv'
<1>1. config' = config
  BY ConfigKept
<1> SUFFICES ASSUME config.timeout = 0 PROVE OnceInv' /\ WriteInv' /\ EmptyInv' /\ FateInv'
  BY <1>1 DEF StayInv
<1>2. OnceInv /\ WriteInv /\ EmptyInv /\ FateInv
  BY DEF StayInv
<1>3. EmptyInv'
  <2> SUFFICES ASSUME NEW c \in Conns
               PROVE  (config.app = "echo" => conn'[c].in = 0) /\ Flushed(conn'[c])
    BY <1>1 DEF EmptyInv
  <2>1. Lawful(config, conn[c], conn'[c])
    BY NextIInv DEF LawfulStep
  <2> QED BY <1>2, <2>1 DEF EmptyInv, Lawful
<1>4. ASSUME NEW l \in Loops, LoopStep(l) PROVE OnceInv' /\ WriteInv' /\ FateInv'
  <2>1. CASE Polling(l)
    BY <1>2, <1>4, <2>1, PollingStays DEF LoopStep
  <2>2. CASE \E c \in Conns : HandleChannel(l, c)
    BY <1>2, <1>4, <2>2, HandleChannelStays DEF LoopStep
  <2>3. CASE TimerReadCb(l)
    BY <1>2, <1>4, <2>3, TimerReadCbStays DEF LoopStep
  <2>4. CASE RunTask(l)
    BY <1>2, <1>4, <2>4, RunTaskStays DEF LoopStep
  <2>5. CASE \E c \in Conns : HandleListenRead(c)
    BY <1>2, <1>4, <2>5, HandleListenReadStays DEF LoopStep
  <2>6. CASE AcceptEnable
    BY <1>2, <1>4, <2>6, AcceptEnableStays DEF LoopStep
  <2>7. CASE AcceptInsert
    <3>1. conn' = conn /\ tasks' = tasks /\ down' = down
      BY <2>7 DEF AcceptInsert
    <3> QED BY <1>2, <3>1 DEF OnceInv, WriteInv, FateInv
  <2> QED BY <1>4, <2>1, <2>2, <2>3, <2>4, <2>5, <2>6, <2>7 DEF LoopStep
<1>5. ASSUME down = "up", NEW c \in Conns,
             \/ Connect(c) \/ ClientSend(c) \/ ClientFin(c) \/ ClientReset(c) \/ ClientRead(c)
             \/ \E op \in config.calls : CallFromThread(c, op)
      PROVE  OnceInv' /\ WriteInv' /\ FateInv'
  BY <1>2, <1>5, ClientStays, CallFromThreadStays
<1>6. CASE (\E l \in Loops : TimerExpires(l)) \/ UNCHANGED vars
  <2>1. conn' = conn /\ tasks' = tasks /\ down' = down
    BY <1>6 DEF TimerExpires, vars
  <2> QED BY <1>2, <1>3, <2>1 DEF OnceInv, WriteInv, FateInv
<1> QED BY <1>3, <1>4, <1>5, <1>6 DEF Next

(***************************************************************************)
(* No assertion of the code fails and no epoll_ctl meets a closed          *)
(* descriptor while no client resets its connection: AcceptCallback's      *)
(* Established finds CONNECTING, HandleWrite finds something to write, and *)
(* nothing runs on a released connection that could send.                  *)
(***************************************************************************)
THEOREM ServerStaysUp ==
  ASSUME \A s \in Scenarios : s.timeout = 0 => s.app = "echo" \/ "ShutDown" \notin s.calls
  PROVE  Spec => []ServerStays
<1>1. Init => StayInv
  <2> SUFFICES ASSUME Init PROVE OnceInv /\ WriteInv /\ EmptyInv /\ FateInv
    BY DEF StayInv
  <2>1. config \in Scenario /\ \A c \in Conns : conn[c] = NoClient
    BY ReactorAssumption DEF Init
  <2>2. /\ NoClient.in = 0 /\ NoClient.status = "NEW" /\ "OUT" \notin NoClient.rev
    BY <2>1, NoClientWaits, Zenon DEF Waiting, NoClient
  <2>3. EmptyInv /\ WriteInv
    BY <2>1, <2>2 DEF EmptyInv, WriteInv, Flushed
  <2>4. OnceInv
    <3>1. DOMAIN <<>> = {}
      BY EmptySeq
    <3> QED BY <3>1 DEF Init, OnceInv, Distinct, ToSet
  <2> QED BY <2>3, <2>4 DEF Init, FateInv
<1>2. IInv /\ StayInv /\ [Next]_vars => StayInv'
  <2> SUFFICES ASSUME IInv, StayInv, [Next]_vars PROVE StayInv'
    OBVIOUS
  <2>1. CASE config.timeout = 0
    <3>1. Quiet(config)
      BY <2>1 DEF Quiet, IInv, TypeInv
    <3> QED BY <3>1, NextStays
  <2>2. CASE config.timeout # 0
    BY <2>2, ConfigKept DEF StayInv
  <2> QED BY <2>1, <2>2
<1>3. StayInv => ServerStays
  BY DEF StayInv, FateInv, ServerStays
<1> QED BY <1>1, <1>2, <1>3, Invariance, PTL DEF Spec
=============================================================================
