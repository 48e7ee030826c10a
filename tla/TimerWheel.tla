----------------------------- MODULE TimerWheel -----------------------------
(***************************************************************************)
(* TimerWheel and TimerTask of src/muduo/server.hpp.                       *)
(*                                                                         *)
(* A slot of the wheel is a list of shared_ptr<TimerTask>; _timers_record  *)
(* holds a weak_ptr per id.  A task runs its function when the last        *)
(* shared_ptr to it goes, that is when the last slot holding it is         *)
(* cleared: refreshing pushes one more shared_ptr, removing only sets      *)
(* _cancel and forgets the record, so that a removed task stays in the     *)
(* wheel until its slots are cleared.  The destructor then also runs       *)
(* _release_func, which erases the record of the task's ID, whichever task *)
(* that record belongs to by then.                                         *)
(*                                                                         *)
(* A list is modelled by the set of its tasks: how often one slot holds a  *)
(* task changes neither its lifetime nor its firing.                       *)
(***************************************************************************)
EXTENDS Integers, FiniteSetsExt

CONSTANTS
  Ids,       \* timer ids
  Tasks,     \* the TimerTask objects that may exist at one time (a bound)
  Capacity,  \* _capacity, 60 in the code
  Timeouts,  \* the timeouts SetTimerTask is called with
  MaxTicks,  \* expirations one read of the timerfd may report (a bound)
  ReuseIds,  \* may an id be set again while a removed task of it lingers?
  None       \* no task

ASSUME CapacityAssumption == Capacity \in Nat \ {0}
ASSUME TimeoutsAssumption == Timeouts \subseteq Nat
ASSUME MaxTicksAssumption == MaxTicks \in Nat

\* A TimerTask: _id, _timeout, _cancel.
TimerTask == [id : Ids, timeout : Timeouts, cancel : BOOLEAN]

ASSUME NoneAssumption ==
  None \notin Tasks /\ None \notin TimerTask /\ None \notin [timeout : Timeouts, left : 1 .. Capacity]

VARIABLES
  tick,      \* _tick
  wheels,    \* _wheels: the tasks each slot holds a shared_ptr to
  record,    \* _timers_record: the task each id's weak_ptr points to
  task,      \* the TimerTask objects: None until made, and again once destroyed
  fired      \* the ids whose _timer_func ran in the last step (a history variable)

vars == <<tick, wheels, record, task, fired>>

Slots == 0 .. Capacity - 1

TypeOK ==
  /\ tick \in Slots
  /\ wheels \in [Slots -> SUBSET Tasks]
  /\ record \in [Ids -> Tasks \cup {None}]
  /\ task \in [Tasks -> TimerTask \cup {None}]
  /\ fired \subseteq Ids

Live(x) == task[x] # None

IfExists(id) == record[id] # None

\* Mutant of SlotAfter: the slot is not wrapped.
SlotAfterUnwrapped(timeout) == tick + timeout

\* (_tick + timeout) % _capacity
SlotAfter(timeout) == (tick + timeout) % Capacity

Push(x, slot) == wheels' = [wheels EXCEPT ![slot] = @ \cup {x}]

Init ==
  /\ tick = 0
  /\ wheels = [s \in Slots |-> {}]
  /\ record = [id \in Ids |-> None]
  /\ task = [x \in Tasks |-> None]
  /\ fired = {}

\* Nothing happens when the id is already recorded (a stuttering step).
SetTimerTask(id, timeout) ==
  /\ ~IfExists(id)
  /\ \E x \in Tasks :
       /\ ~Live(x)
       /\ task' = [task EXCEPT
                     ![x] = [id |-> id, timeout |-> timeout, cancel |-> FALSE]]
       /\ Push(x, SlotAfter(timeout))
       /\ record' = [record EXCEPT ![id] = x]
  /\ fired' = {}
  /\ UNCHANGED tick

RefreshTimerTask(id) ==
  /\ IfExists(id)
  /\ Live(record[id])
  /\ Push(record[id], SlotAfter(task[record[id]].timeout))
  /\ fired' = {}
  /\ UNCHANGED <<tick, record, task>>

\* Mutant of RemoveTimerTask: the task is not cancelled.
RemoveWithoutCancel(id) ==
  /\ IfExists(id)
  /\ record' = [record EXCEPT ![id] = None]
  /\ fired' = {}
  /\ UNCHANGED <<tick, wheels, task>>

RemoveTimerTask(id) ==
  /\ IfExists(id)
  /\ task' = IF Live(record[id])
             THEN [task EXCEPT ![record[id]].cancel = TRUE]
             ELSE task
  /\ record' = [record EXCEPT ![id] = None]
  /\ fired' = {}
  /\ UNCHANGED <<tick, wheels>>

\* The slots a Tick(nums) clears, one after the other.
Cleared(nums) == {(tick + k) % Capacity : k \in 1 .. nums}

\* Mutant of Dying: a slot owns its tasks, so a refreshed one dies early.
DyingWithFirstSlot(slots) ==
  {x \in Tasks : Live(x) /\ \E s \in slots : x \in wheels[s]}

\* The tasks whose last shared_ptr goes with these slots.
Dying(slots) ==
  {x \in Tasks : Live(x) /\ \A s \in Slots \ slots : x \notin wheels[s]}

\* Mutant of Destroy: no _release_func, the record stays.
DestroyWithoutRelease(dying) ==
  /\ fired' = {task[x].id : x \in {y \in dying : ~task[y].cancel}}
  /\ task' = [x \in Tasks |-> IF x \in dying THEN None ELSE task[x]]
  /\ UNCHANGED record

\* ~TimerTask of each dying task: _timer_func unless cancelled, then
\* _release_func = RemoveFromTimerWheel(id).
Destroy(dying) ==
  /\ fired' = {task[x].id : x \in {y \in dying : ~task[y].cancel}}
  /\ record' = [id \in Ids |->
                  IF \E x \in dying : task[x].id = id THEN None ELSE record[id]]
  /\ task' = [x \in Tasks |-> IF x \in dying THEN None ELSE task[x]]

\* Mutant of Tick: the hand is not wrapped.
TickUnwrapped(nums) ==
  /\ tick' = tick + nums
  /\ wheels' = [s \in Slots |-> IF s \in Cleared(nums) THEN {} ELSE wheels[s]]
  /\ Destroy(Dying(Cleared(nums)))

Tick(nums) ==
  /\ tick' = (tick + nums) % Capacity
  /\ wheels' = [s \in Slots |-> IF s \in Cleared(nums) THEN {} ELSE wheels[s]]
  /\ Destroy(Dying(Cleared(nums)))

-----------------------------------------------------------------------------

\* A removed task of this id is still in the wheel.
Lingers(id) == \E x \in Tasks : Live(x) /\ task[x].id = id /\ task[x].cancel

\* TcpServer never uses a timer id twice; a user who calls
\* CancelInactiveRelease and then EnableInactiveRelease on one connection does.
MaySet(id) == ReuseIds \/ ~Lingers(id)

Next ==
  \/ \E id \in Ids, timeout \in Timeouts : MaySet(id) /\ SetTimerTask(id, timeout)
  \/ \E id \in Ids : RefreshTimerTask(id)
  \/ \E id \in Ids : RemoveTimerTask(id)
  \/ \E nums \in 1 .. MaxTicks : Tick(nums)

Spec == Init /\ [][Next]_vars

-----------------------------------------------------------------------------

(***************************************************************************)
(* A task lives exactly as long as some slot holds it (no leak, no task    *)
(* destroyed while the wheel still points to it).                          *)
(***************************************************************************)
LivesInWheel == \A x \in Tasks : Live(x) <=> \E s \in Slots : x \in wheels[s]

(***************************************************************************)
(* A weak_ptr in _timers_record never dangles and never points to a        *)
(* removed task or to another id's: RefreshTimerTask's and                 *)
(* RemoveTimerTask's lock() always yields the id's own pending task.       *)
(***************************************************************************)
RecordSound ==
  \A id \in Ids : IfExists(id) =>
    /\ Live(record[id])
    /\ task[record[id]].id = id
    /\ ~task[record[id]].cancel

\* Both: a task exists as long as the wheel holds it, and what the record leads to is a
\* task the wheel holds.  (SetTimerTask, RefreshTimerTask, ~TimerTask)
WheelSound == LivesInWheel /\ RecordSound

(***************************************************************************)
(* The other direction: the task that is going to run can be found by its  *)
(* id ("如果要更新，如何找到对应的ptr", server.hpp:776).  Without it a       *)
(* refresh or a removal silently does nothing.                             *)
(***************************************************************************)
PendingFound ==
  \A x \in Tasks :
    Live(x) /\ ~task[x].cancel => record[task[x].id] = x

-----------------------------------------------------------------------------

(***************************************************************************)
(* Refinement: the ticks a task has left are the distance to the farthest  *)
(* slot that holds it.                                                     *)
(***************************************************************************)
Left(x) == Max({k \in 1 .. Capacity : x \in wheels[SlotAfter(k)]})

PendingTimer(id) ==
  IF IfExists(id)
  THEN [timeout |-> task[record[id]].timeout, left |-> Left(record[id])]
  ELSE None

Abstract == INSTANCE Timers WITH timer <- [id \in Ids |-> PendingTimer(id)]

(***************************************************************************)
(* The wheel implements Timers: a timer fires once, exactly when its last  *)
(* timeout has elapsed since it was set or refreshed, and never after it   *)
(* was removed, however many expirations one Tick reports.                 *)
(***************************************************************************)
ImplementsTimers == Abstract!Spec

=============================================================================
