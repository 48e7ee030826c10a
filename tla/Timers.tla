------------------------------- MODULE Timers -------------------------------
(***************************************************************************)
(* What the connection layer expects of EventLoop::AddTimerTask,           *)
(* RefreshTimerTask and RemoveTimerTask (src/muduo/server.hpp): a timer    *)
(* per id that runs its function once, `timeout` ticks after it was set or *)
(* last refreshed, unless it is removed before.  There is no wheel here;   *)
(* TimerWheel is the data structure that has to implement this.            *)
(***************************************************************************)
EXTENDS Naturals

CONSTANTS
  Ids,       \* timer ids (TcpServer hands out a fresh one per connection)
  Timeouts,  \* the timeouts callers ask for, in ticks
  MaxTicks,  \* expirations one read of the timerfd may report
  None       \* "no timer is set for this id"

VARIABLES
  timer,     \* per id: None, or its timeout and the ticks it has left
  fired      \* the ids whose function ran in the last step

timerVars == <<timer, fired>>

Armed(id) == timer[id] # None

Init ==
  /\ timer = [id \in Ids |-> None]
  /\ fired = {}

Set(id, timeout) ==
  /\ ~Armed(id)
  /\ timer' = [timer EXCEPT ![id] = [timeout |-> timeout, left |-> timeout]]
  /\ fired' = {}

Refresh(id) ==
  /\ Armed(id)
  /\ timer' = [timer EXCEPT ![id].left = timer[id].timeout]
  /\ fired' = {}

Remove(id) ==
  /\ Armed(id)
  /\ timer' = [timer EXCEPT ![id] = None]
  /\ fired' = {}

\* n ticks pass; every timer that runs out of them fires, once.
Elapse(n) ==
  /\ fired' = {id \in Ids : Armed(id) /\ timer[id].left <= n}
  /\ timer' = [id \in Ids |->
                 IF Armed(id) /\ id \notin fired'
                 THEN [timer[id] EXCEPT !.left = @ - n]
                 ELSE None]

Next ==
  \/ \E id \in Ids, timeout \in Timeouts : Set(id, timeout)
  \/ \E id \in Ids : Refresh(id) \/ Remove(id)
  \/ \E n \in 1 .. MaxTicks : Elapse(n)

Spec == Init /\ [][Next]_timerVars
=============================================================================
