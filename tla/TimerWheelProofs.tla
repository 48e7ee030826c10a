-------------------------- MODULE TimerWheelProofs --------------------------
(***************************************************************************)
(* Proofs about TimerWheel, for every capacity, every set of ids, tasks    *)
(* and timeouts.                                                           *)
(***************************************************************************)
EXTENDS TimerWheel, WellFoundedInduction, TLAPS

\* Records are only as good as the objects they point to, and those exist
\* only while the wheel holds them: the three are invariant together.
WheelInv == TypeOK /\ LivesInWheel /\ RecordSound

\* The hand and every slot index the code computes stay inside _wheels.
LEMMA SlotInRange ==
  ASSUME TypeOK, NEW n \in Nat
  PROVE  (tick + n) % Capacity \in Slots
<1>1. tick + n \in Nat
  BY CapacityAssumption DEF TypeOK, Slots
<1> QED BY <1>1, CapacityAssumption DEF Slots

\* The empty wheel.
LEMMA InitWheelInv == Init => WheelInv
  BY CapacityAssumption
  DEF Init, WheelInv, TypeOK, LivesInWheel, RecordSound, Slots, Live, IfExists

\* SetTimerTask puts a fresh object in one slot and in the record.
LEMMA SetKeepsWheelInv ==
  ASSUME WheelInv, NEW id \in Ids, NEW timeout \in Timeouts,
         SetTimerTask(id, timeout)
  PROVE  WheelInv'
<1> USE DEF WheelInv, Live, IfExists
<1>1. PICK x \in Tasks :
        /\ ~Live(x)
        /\ task' = [task EXCEPT
                      ![x] = [id |-> id, timeout |-> timeout, cancel |-> FALSE]]
        /\ wheels' = [wheels EXCEPT
                        ![SlotAfter(timeout)] = @ \cup {x}]
        /\ record' = [record EXCEPT ![id] = x]
  BY DEF SetTimerTask, Push
<1>2. SlotAfter(timeout) \in Slots
  BY SlotInRange, TimeoutsAssumption DEF SlotAfter
<1> DEFINE new == [id |-> id, timeout |-> timeout, cancel |-> FALSE]
<1>a. new \in TimerTask
  BY DEF TimerTask
<1>b. new # None
  BY <1>a, NoneAssumption
<1>3. task'[x] = new /\ task'[x] \in TimerTask /\ task'[x] # None
  BY <1>1, <1>a, <1>b DEF TypeOK
<1>4. TypeOK'
  BY <1>1, <1>2, <1>3 DEF TypeOK, SetTimerTask
<1>5. LivesInWheel'
  BY <1>1, <1>2, <1>3 DEF LivesInWheel, TypeOK
<1>6. RecordSound'
  BY <1>1, <1>3, NoneAssumption DEF RecordSound, TypeOK, TimerTask
<1> QED BY <1>4, <1>5, <1>6

\* RefreshTimerTask adds one more slot to a live object.
LEMMA RefreshKeepsWheelInv ==
  ASSUME WheelInv, NEW id \in Ids, RefreshTimerTask(id)
  PROVE  WheelInv'
<1> USE DEF WheelInv, Live, IfExists, RefreshTimerTask, Push
<1> DEFINE x == record[id]
<1>1. x \in Tasks /\ task[x] \in TimerTask
  BY DEF TypeOK
<1>2. SlotAfter(task[x].timeout) \in Slots
  <2>1. task[x].timeout \in Nat
    BY <1>1, TimeoutsAssumption DEF TimerTask
  <2> QED BY <2>1, SlotInRange DEF SlotAfter
<1>3. TypeOK'
  BY <1>1, <1>2 DEF TypeOK
<1>4. LivesInWheel'
  BY <1>1, <1>2 DEF LivesInWheel, TypeOK
<1>5. RecordSound'
  BY DEF RecordSound
<1> QED BY <1>3, <1>4, <1>5

\* RemoveTimerTask forgets the record; the cancelled object stays in its slots.
LEMMA RemoveKeepsWheelInv ==
  ASSUME WheelInv, NEW id \in Ids, RemoveTimerTask(id)
  PROVE  WheelInv'
<1> USE DEF WheelInv, Live, IfExists, RemoveTimerTask
<1> DEFINE x == record[id]
<1>1. x \in Tasks /\ task[x] \in TimerTask /\ task[x].id = id
  BY DEF TypeOK, RecordSound
<1>2. task' = [task EXCEPT ![x].cancel = TRUE]
  BY DEF RecordSound
<1>3. task'[x] \in TimerTask /\ task'[x] # None /\ task'[x].id = id
  <2> DEFINE cancelled == [task[x] EXCEPT !.cancel = TRUE]
  <2>1. cancelled \in TimerTask /\ cancelled.id = id
    BY <1>1 DEF TimerTask
  <2>2. task'[x] = cancelled
    BY <1>1, <1>2 DEF TypeOK
  <2> QED BY <2>1, <2>2, NoneAssumption
<1>4. \A y \in Tasks : y # x => task'[y] = task[y]
  BY <1>1, <1>2 DEF TypeOK
<1>5. TypeOK'
  BY <1>1, <1>2, <1>3 DEF TypeOK
<1>6. LivesInWheel'
  BY <1>1, <1>3, <1>4 DEF LivesInWheel
<1>7. RecordSound'
  <2> SUFFICES ASSUME NEW i \in Ids, record'[i] # None
               PROVE  /\ task'[record'[i]] # None
                      /\ task'[record'[i]].id = i
                      /\ ~task'[record'[i]].cancel
    BY DEF RecordSound
  <2>1. i # id /\ record'[i] = record[i] /\ record[i] \in Tasks
    BY DEF TypeOK
  <2>2. record[i] # x
    BY <1>1, <2>1 DEF RecordSound
  <2> QED BY <1>4, <2>1, <2>2 DEF RecordSound
<1> QED BY <1>5, <1>6, <1>7

\* Tick clears slots; the objects that lose their last slot go, and with
\* each of them the record of its id.
LEMMA TickKeepsWheelInv ==
  ASSUME WheelInv, NEW nums \in 1 .. MaxTicks, Tick(nums)
  PROVE  WheelInv'
<1> USE DEF WheelInv, Live, IfExists
<1> DEFINE gone == Dying(Cleared(nums))
<1>1. tick' \in Slots
  BY SlotInRange, MaxTicksAssumption DEF Tick
<1>2. wheels' = [s \in Slots |-> IF s \in Cleared(nums) THEN {} ELSE wheels[s]]
  BY DEF Tick
<1>3. /\ fired' = {task[x].id : x \in {y \in gone : ~task[y].cancel}}
      /\ record' = [i \in Ids |->
                      IF \E x \in gone : task[x].id = i THEN None ELSE record[i]]
      /\ task' = [x \in Tasks |-> IF x \in gone THEN None ELSE task[x]]
  BY DEF Tick, Destroy
<1>4. \A x \in gone : x \in Tasks /\ task[x] \in TimerTask
  BY DEF Dying, TypeOK
<1>5. fired' \subseteq Ids
  BY <1>3, <1>4 DEF TimerTask
<1>6. TypeOK'
  BY <1>1, <1>2, <1>3, <1>5 DEF TypeOK
<1>7. LivesInWheel'
  <2> SUFFICES ASSUME NEW x \in Tasks
               PROVE  task'[x] # None <=> \E s \in Slots : x \in wheels'[s]
    BY DEF LivesInWheel
  <2>1. x \in gone <=> /\ task[x] # None
                       /\ \A s \in Slots \ Cleared(nums) : x \notin wheels[s]
    BY DEF Dying
  <2> QED BY <1>2, <1>3, <2>1 DEF LivesInWheel
<1>8. RecordSound'
  <2> SUFFICES ASSUME NEW i \in Ids, record'[i] # None
               PROVE  /\ task'[record'[i]] # None
                      /\ task'[record'[i]].id = i
                      /\ ~task'[record'[i]].cancel
    BY DEF RecordSound
  <2>1. record'[i] = record[i] /\ record[i] \in Tasks /\ record[i] \notin gone
    BY <1>3 DEF TypeOK, RecordSound
  <2> QED BY <1>3, <2>1 DEF RecordSound
<1> QED BY <1>6, <1>7, <1>8

\* Every step preserves the invariant.
LEMMA NextKeepsWheelInv == WheelInv /\ [Next]_vars => WheelInv'
<1> SUFFICES ASSUME WheelInv, [Next]_vars PROVE WheelInv'
  OBVIOUS
<1>1. CASE \E id \in Ids, timeout \in Timeouts : SetTimerTask(id, timeout)
  BY <1>1, SetKeepsWheelInv
<1>2. CASE \E id \in Ids : RefreshTimerTask(id)
  BY <1>2, RefreshKeepsWheelInv
<1>3. CASE \E id \in Ids : RemoveTimerTask(id)
  BY <1>3, RemoveKeepsWheelInv
<1>4. CASE \E nums \in 1 .. MaxTicks : Tick(nums)
  BY <1>4, TickKeepsWheelInv
<1>5. CASE UNCHANGED vars
  BY <1>5 DEF vars, WheelInv, TypeOK, LivesInWheel, RecordSound, Live, IfExists
<1> QED BY <1>1, <1>2, <1>3, <1>4, <1>5 DEF Next

(***************************************************************************)
(* Type correctness of the wheel: _tick and every slot index stay within   *)
(* _wheels, whatever timeouts are asked for and however many expirations   *)
(* one Tick reports.                                                       *)
(***************************************************************************)
THEOREM WheelTypeCorrect == Spec => []TypeOK
<1>1. WheelInv => TypeOK
  BY DEF WheelInv
<1> QED BY InitWheelInv, NextKeepsWheelInv, <1>1, PTL DEF Spec

(***************************************************************************)
(* A TimerTask exists exactly while a slot of the wheel holds it, and a    *)
(* weak_ptr in _timers_record always leads to the id's own, uncancelled    *)
(* task, even when ids are set again while a removed task still lingers.   *)
(***************************************************************************)
THEOREM WheelRecordSound == Spec => []WheelSound
<1>1. WheelInv => WheelSound
  BY DEF WheelInv, WheelSound
<1> QED BY InitWheelInv, NextKeepsWheelInv, <1>1, PTL DEF Spec

-----------------------------------------------------------------------------

\* At most one task of an id exists, so that the _release_func of one cannot
\* erase the record of another.
OneTaskPerId ==
  \A x, y \in Tasks : Live(x) /\ Live(y) /\ task[x].id = task[y].id => x = y

\* What holds in addition when no id is set again while a removed task of it
\* lingers, as in TcpServer.
FreshInv == WheelInv /\ PendingFound /\ OneTaskPerId

\* An id without a record and without a lingering task has no task at all.
LEMMA SetKeepsFreshInv ==
  ASSUME FreshInv, NEW id \in Ids, NEW timeout \in Timeouts,
         ~Lingers(id), SetTimerTask(id, timeout)
  PROVE  PendingFound' /\ OneTaskPerId'
<1> USE DEF Live, IfExists
<1>1. PICK x \in Tasks :
        /\ task' = [task EXCEPT
                      ![x] = [id |-> id, timeout |-> timeout, cancel |-> FALSE]]
        /\ record' = [record EXCEPT ![id] = x]
  BY DEF SetTimerTask
<1>2. record[id] = None
  BY DEF SetTimerTask
<1>3. \A y \in Tasks : task[y] # None => task[y].id # id
  <2> SUFFICES ASSUME NEW y \in Tasks, task[y] # None, task[y].id = id
               PROVE  FALSE
    OBVIOUS
  <2>1. task[y].cancel \in BOOLEAN
    BY DEF FreshInv, WheelInv, TypeOK, TimerTask
  <2>2. CASE task[y].cancel
    BY <2>2 DEF Lingers
  <2>3. CASE ~task[y].cancel
    BY <2>3, <1>2, NoneAssumption DEF FreshInv, PendingFound
  <2> QED BY <2>1, <2>2, <2>3
<1>4. task'[x].id = id /\ \A y \in Tasks : y # x => task'[y] = task[y]
  BY <1>1 DEF FreshInv, WheelInv, TypeOK
<1>5. PendingFound'
  <2> SUFFICES ASSUME NEW y \in Tasks, task'[y] # None, ~task'[y].cancel
               PROVE  record'[task'[y].id] = y
    BY DEF PendingFound
  <2>1. CASE y = x
    BY <2>1, <1>1, <1>4 DEF FreshInv, WheelInv, TypeOK
  <2>2. CASE y # x
    <3>1. task'[y] = task[y] /\ task[y].id \in Ids /\ task[y].id # id
      BY <2>2, <1>3, <1>4 DEF FreshInv, WheelInv, TypeOK, TimerTask
    <3> QED BY <3>1, <1>1 DEF FreshInv, PendingFound, WheelInv, TypeOK
  <2> QED BY <2>1, <2>2
<1>6. OneTaskPerId'
  BY <1>3, <1>4 DEF FreshInv, OneTaskPerId
<1> QED BY <1>5, <1>6

\* Removing an id cancels the one task it has.
LEMMA RemoveKeepsFreshInv ==
  ASSUME FreshInv, NEW id \in Ids, RemoveTimerTask(id)
  PROVE  PendingFound' /\ OneTaskPerId'
<1> USE DEF Live, IfExists
<1> DEFINE x == record[id]
<1>1. x \in Tasks /\ task[x] \in TimerTask /\ task[x] # None /\ task[x].id = id
  BY DEF RemoveTimerTask, FreshInv, WheelInv, TypeOK, RecordSound
<1>2. task' = [task EXCEPT ![x].cancel = TRUE] /\ record' = [record EXCEPT ![id] = None]
  BY <1>1 DEF RemoveTimerTask
<1>3. /\ task'[x].id = id /\ task'[x].cancel
      /\ \A y \in Tasks : y # x => task'[y] = task[y]
  <2>1. task'[x] = [task[x] EXCEPT !.cancel = TRUE]
    BY <1>1, <1>2 DEF FreshInv, WheelInv, TypeOK
  <2> QED BY <1>1, <1>2, <2>1 DEF FreshInv, WheelInv, TypeOK, TimerTask
<1>4. \A y \in Tasks : task[y] # None /\ y # x => task[y].id # id
  BY <1>1 DEF FreshInv, OneTaskPerId
<1>5. PendingFound'
  <2> SUFFICES ASSUME NEW y \in Tasks, task'[y] # None, ~task'[y].cancel
               PROVE  record'[task'[y].id] = y
    BY DEF PendingFound
  <2>1. y # x /\ task'[y] = task[y] /\ task[y].id \in Ids /\ task[y].id # id
    BY <1>3, <1>4 DEF FreshInv, WheelInv, TypeOK, TimerTask
  <2> QED BY <2>1, <1>2 DEF FreshInv, PendingFound, WheelInv, TypeOK
<1>6. OneTaskPerId'
  BY <1>1, <1>3, <1>4 DEF FreshInv, OneTaskPerId
<1> QED BY <1>5, <1>6

\* A destroyed task erases the record of its id, which no other task has.
LEMMA TickKeepsFreshInv ==
  ASSUME FreshInv, NEW nums \in 1 .. MaxTicks, Tick(nums)
  PROVE  PendingFound' /\ OneTaskPerId'
<1> USE DEF Live, IfExists
<1> DEFINE gone == Dying(Cleared(nums))
<1>1. /\ record' = [i \in Ids |->
                      IF \E x \in gone : task[x].id = i THEN None ELSE record[i]]
      /\ task' = [x \in Tasks |-> IF x \in gone THEN None ELSE task[x]]
  BY DEF Tick, Destroy
<1>2. \A x \in gone : x \in Tasks /\ task[x] # None
  BY DEF Dying
<1>3. \A y \in Tasks : task'[y] # None =>
        y \notin gone /\ task'[y] = task[y] /\ task[y].id \in Ids
  BY <1>1 DEF FreshInv, WheelInv, TypeOK, TimerTask
<1>4. PendingFound'
  BY <1>1, <1>2, <1>3 DEF FreshInv, PendingFound, OneTaskPerId
<1>5. OneTaskPerId'
  BY <1>3 DEF FreshInv, OneTaskPerId
<1> QED BY <1>4, <1>5

\* The empty wheel.
LEMMA InitFreshInv == Init => FreshInv
<1>1. Init => PendingFound /\ OneTaskPerId
  BY DEF Init, PendingFound, OneTaskPerId, Live
<1> QED BY <1>1, InitWheelInv DEF FreshInv

\* Every step preserves it while no id is set again too early.
LEMMA NextKeepsFreshInv == ASSUME ~ReuseIds PROVE FreshInv /\ [Next]_vars => FreshInv'
<1> SUFFICES ASSUME FreshInv, [Next]_vars PROVE PendingFound' /\ OneTaskPerId'
  BY NextKeepsWheelInv DEF FreshInv
<1>1. CASE \E id \in Ids, timeout \in Timeouts :
             MaySet(id) /\ SetTimerTask(id, timeout)
  BY <1>1, SetKeepsFreshInv DEF MaySet
<1>2. CASE \E id \in Ids : RefreshTimerTask(id)
  BY <1>2 DEF RefreshTimerTask, FreshInv, PendingFound, OneTaskPerId, Live
<1>3. CASE \E id \in Ids : RemoveTimerTask(id)
  BY <1>3, RemoveKeepsFreshInv
<1>4. CASE \E nums \in 1 .. MaxTicks : Tick(nums)
  BY <1>4, TickKeepsFreshInv
<1>5. CASE UNCHANGED vars
  BY <1>5 DEF vars, FreshInv, PendingFound, OneTaskPerId, Live
<1> QED BY <1>1, <1>2, <1>3, <1>4, <1>5 DEF Next

(***************************************************************************)
(* With ids used once, a pending task is always found by its id, so that a *)
(* refresh or a removal never misses it (server.hpp:775).                  *)
(***************************************************************************)
THEOREM FreshIdsPendingFound == ASSUME ~ReuseIds PROVE Spec => []PendingFound
<1>1. FreshInv => PendingFound
  BY DEF FreshInv
<1> QED BY <1>1, InitFreshInv, NextKeepsFreshInv, PTL DEF Spec

-----------------------------------------------------------------------------

\* The remainder by _capacity of a number below two turns.
LEMMA RemainderIs ==
  ASSUME NEW a \in Nat, NEW r \in 0 .. Capacity - 1, a = r \/ a = r + Capacity
  PROVE  a % Capacity = r
<1>1. Capacity \in Nat /\ Capacity > 0
  BY CapacityAssumption
<1>2. a % Capacity \in 0 .. Capacity - 1 /\ a \div Capacity \in Nat
  BY <1>1
<1>3. a = Capacity * (a \div Capacity) + (a % Capacity)
  BY <1>1
<1> DEFINE q == a \div Capacity
           m == a % Capacity
<1>4. a = Capacity * q + m /\ q \in Nat /\ m \in 0 .. Capacity - 1
  BY <1>2, <1>3
<1> HIDE DEF q, m
<1>5. q >= 2 => Capacity * q >= Capacity * 2
  BY <1>1, <1>4
<1>6. q = 0 \/ q = 1 \/ q >= 2
  BY <1>4
<1>7. CASE q = 0
  BY <1>1, <1>4, <1>7
<1>8. CASE q = 1
  BY <1>1, <1>4, <1>8
<1>9. CASE q >= 2
  BY <1>1, <1>4, <1>5, <1>9
<1> QED BY <1>6, <1>7, <1>8, <1>9 DEF m

\* The slot k ticks ahead of slot t.
LEMMA Ahead ==
  ASSUME NEW t \in Slots, NEW k \in 0 .. Capacity
  PROVE  (t + k) % Capacity = IF t + k < Capacity THEN t + k ELSE t + k - Capacity
<1>1. t + k \in Nat
  BY CapacityAssumption DEF Slots
<1>2. CASE t + k < Capacity
  <2>1. t + k \in 0 .. Capacity - 1
    BY <1>2, CapacityAssumption DEF Slots
  <2> HIDE DEF Slots
  <2> QED BY <1>1, <1>2, <2>1, RemainderIs
<1>3. CASE ~(t + k < Capacity)
  <2>1. t + k - Capacity \in 0 .. Capacity - 1 /\ t + k = (t + k - Capacity) + Capacity
    BY <1>3, CapacityAssumption DEF Slots
  <2>2. (t + k) % Capacity = t + k - Capacity
    BY <1>1, <2>1, RemainderIs, Zenon
  <2> QED BY <1>3, <2>2
<1> QED BY <1>2, <1>3

\* Every slot is between one tick and a full turn ahead of _tick.
LEMMA EverySlotAhead ==
  ASSUME tick \in Slots, NEW s \in Slots
  PROVE  \E k \in 1 .. Capacity : s = SlotAfter(k)
<1>1. CASE s > tick
  <2> DEFINE k == s - tick
  <2>1. k \in 1 .. Capacity /\ k \in 0 .. Capacity /\ tick + k = s /\ s < Capacity
    BY <1>1, CapacityAssumption DEF Slots
  <2> QED BY <2>1, Ahead DEF SlotAfter
<1>2. CASE ~(s > tick)
  <2> DEFINE k == s - tick + Capacity
  <2>1. k \in 1 .. Capacity /\ k \in 0 .. Capacity /\ tick + k - Capacity = s
        /\ ~(tick + k < Capacity)
    BY <1>2, CapacityAssumption DEF Slots
  <2>2. SlotAfter(k) = s
    BY <2>1, Ahead DEF SlotAfter
  <2> QED BY <2>1, <2>2
<1> QED BY <1>1, <1>2

\* It is so at one distance only.
LEMMA OneDistance ==
  ASSUME tick \in Slots, NEW j \in 1 .. Capacity, NEW k \in 1 .. Capacity,
         SlotAfter(j) = SlotAfter(k)
  PROVE  j = k
<1>1. j \in 0 .. Capacity /\ k \in 0 .. Capacity
  BY CapacityAssumption
<1>2. /\ SlotAfter(j) = IF tick + j < Capacity THEN tick + j ELSE tick + j - Capacity
      /\ SlotAfter(k) = IF tick + k < Capacity THEN tick + k ELSE tick + k - Capacity
  BY <1>1, Ahead DEF SlotAfter
<1>3. tick \in Nat /\ tick < Capacity
  BY CapacityAssumption DEF Slots
<1>4. j \in Nat /\ k \in Nat /\ j > 0 /\ k > 0 /\ j <= Capacity /\ k <= Capacity /\ Capacity \in Nat
  BY CapacityAssumption
<1>5. (IF tick + j < Capacity THEN tick + j ELSE tick + j - Capacity)
        = (IF tick + k < Capacity THEN tick + k ELSE tick + k - Capacity)
  BY <1>2
<1> QED BY <1>3, <1>4, <1>5

\* A Tick clears the slots that are no farther ahead than its expirations.
LEMMA ClearedDistances ==
  ASSUME tick \in Slots, NEW nums \in Nat, NEW k \in 1 .. Capacity
  PROVE  SlotAfter(k) \in Cleared(nums) <=> k <= nums
<1>1. ASSUME k <= nums PROVE SlotAfter(k) \in Cleared(nums)
  <2>1. k \in 1 .. nums
    BY <1>1, CapacityAssumption
  <2> QED BY <2>1 DEF Cleared, SlotAfter
<1>2. ASSUME SlotAfter(k) \in Cleared(nums), ~(k <= nums) PROVE FALSE
  <2>1. PICK j \in 1 .. nums : SlotAfter(k) = SlotAfter(j)
    BY <1>2 DEF Cleared, SlotAfter
  <2>2. j \in 1 .. Capacity /\ j < k
    BY <1>2, CapacityAssumption
  <2>3. j = k
    BY <2>1, <2>2, OneDistance
  <2> QED BY <2>2, <2>3
<1> QED BY <1>1, <1>2

\* What Max is, of distances.
LEMMA GreatestIs ==
  ASSUME NEW D, D \subseteq 1 .. Capacity, NEW m \in D, \A y \in D : y <= m
  PROVE  Max(D) = m
<1>1. \A x \in D : x \in Nat
  BY CapacityAssumption
<1>2. \E x \in D : \A y \in D : x >= y
  BY <1>1
<1>3. Max(D) \in D /\ \A y \in D : Max(D) >= y
  BY <1>2 DEF Max
<1>4. Max(D) \in Nat /\ m \in Nat /\ Max(D) >= m /\ Max(D) <= m
  BY <1>1, <1>3
<1> QED BY <1>4

\* Max of some distances is one of them.
LEMMA GreatestExists ==
  ASSUME NEW D, D \subseteq 1 .. Capacity, D # {}
  PROVE  Max(D) \in D /\ \A y \in D : y <= Max(D)
<1> DEFINE T == {Capacity - k : k \in D}
<1>1. \A k \in D : k \in Nat /\ k <= Capacity /\ Capacity \in Nat
  BY CapacityAssumption
<1>2. T \subseteq Nat /\ T # {}
  <2>1. \A t \in T : t \in Nat
    BY <1>1
  <2>2. PICK k \in D : TRUE
    OBVIOUS
  <2>3. Capacity - k \in T
    BY <2>2
  <2> QED BY <2>1, <2>3
<1>3. PICK t \in T : \A y \in T : ~(<<y, t>> \in OpToRel(<, Nat))
  <2> HIDE DEF T
  <2> QED BY <1>2, WFMin, NatLessThanWellFounded
<1>4. \A y \in T : ~(y < t)
  <2> HIDE DEF T
  <2> QED BY <1>2, <1>3 DEF OpToRel
<1>5. PICK m \in D : t = Capacity - m
  OBVIOUS
<1>6. \A y \in D : y <= m
  <2> TAKE y \in D
  <2>1. ~(Capacity - y < Capacity - m)
    BY <1>4, <1>5
  <2> QED BY <2>1, <1>1
<1>7. Max(D) = m
  BY <1>6, GreatestIs
<1> QED BY <1>6, <1>7

-----------------------------------------------------------------------------

\* How many ticks away are the slots that hold a task.
Distances(x) == {k \in 1 .. Capacity : x \in wheels[SlotAfter(k)]}

\* No task is held longer than its timeout.
InTime == \A x \in Tasks : Live(x) => \A k \in Distances(x) : k <= task[x].timeout

TimerInv == FreshInv /\ InTime

\* What FreshInv says of an id that is recorded.
LEMMA RecordedTask ==
  ASSUME FreshInv, NEW id \in Ids, IfExists(id)
  PROVE  /\ record[id] \in Tasks /\ Live(record[id]) /\ task[record[id]] \in TimerTask
         /\ task[record[id]].id = id /\ task[record[id]].timeout \in Timeouts
         /\ ~task[record[id]].cancel
<1>1. record[id] \in Tasks
  BY DEF FreshInv, WheelInv, TypeOK, IfExists
<1>2. Live(record[id]) /\ task[record[id]].id = id /\ ~task[record[id]].cancel
  BY DEF FreshInv, WheelInv, RecordSound
<1>3. task[record[id]] \in TimerTask
  BY <1>1, <1>2 DEF FreshInv, WheelInv, TypeOK, Live
<1> QED BY <1>1, <1>2, <1>3 DEF TimerTask

\* A live task has a farthest slot.
LEMMA LeftIs ==
  ASSUME FreshInv, NEW x \in Tasks, Live(x)
  PROVE  Left(x) \in Distances(x) /\ \A k \in Distances(x) : k <= Left(x)
<1>1. PICK s \in Slots : x \in wheels[s]
  BY DEF FreshInv, WheelInv, LivesInWheel
<1>2. PICK k \in 1 .. Capacity : s = SlotAfter(k)
  BY EverySlotAhead DEF FreshInv, WheelInv, TypeOK
<1>3. k \in Distances(x) /\ Distances(x) \subseteq 1 .. Capacity
  BY <1>1, <1>2 DEF Distances
<1>4. Left(x) = Max(Distances(x))
  BY DEF Left, Distances
<1> HIDE DEF Distances
<1> QED BY <1>3, <1>4, GreatestExists

\* Where a task is pushed.
LEMMA PushDistances ==
  ASSUME TypeOK, NEW x \in Tasks, NEW t \in 1 .. Capacity,
         Push(x, SlotAfter(t)), tick' = tick, NEW y \in Tasks
  PROVE  Distances(y)' = IF y = x THEN Distances(y) \cup {t} ELSE Distances(y)
<1>1. \A k \in 1 .. Capacity : SlotAfter(k) \in Slots
  BY SlotInRange DEF SlotAfter
<1>2. \A k \in 1 .. Capacity : SlotAfter(k)' = SlotAfter(k)
  BY DEF SlotAfter
<1>3. \A k \in 1 .. Capacity : SlotAfter(k) = SlotAfter(t) => k = t
  BY OneDistance DEF TypeOK
<1>4. \A k \in 1 .. Capacity :
        wheels'[SlotAfter(k)] = IF k = t THEN wheels[SlotAfter(k)] \cup {x} ELSE wheels[SlotAfter(k)]
  BY <1>1, <1>3 DEF Push, TypeOK
<1>5. \A k \in 1 .. Capacity : k \in Distances(y)' <=> y \in wheels'[SlotAfter(k)]
  BY <1>2 DEF Distances
<1>6. Distances(y)' \subseteq 1 .. Capacity /\ Distances(y) \subseteq 1 .. Capacity
  BY DEF Distances
<1>7. \A k \in 1 .. Capacity : k \in Distances(y) <=> y \in wheels[SlotAfter(k)]
  BY DEF Distances
<1> QED BY <1>4, <1>5, <1>6, <1>7

\* A Tick brings every slot it does not clear nearer by as many ticks.
LEMMA TickDistances ==
  ASSUME TypeOK, NEW n \in 1 .. MaxTicks, Tick(n), NEW x \in Tasks, NEW k \in 1 .. Capacity
  PROVE  k \in Distances(x)' <=> k + n \in Distances(x)
<1>1. n \in Nat /\ n >= 1 /\ k \in Nat /\ k >= 1 /\ k <= Capacity /\ Capacity \in Nat
  BY CapacityAssumption, MaxTicksAssumption
<1>2. tick \in Slots /\ tick' \in Slots
  BY <1>1, SlotInRange DEF TypeOK, Tick
<1> DEFINE s == (tick' + k) % Capacity
<1>3. s = (IF tick' + k < Capacity THEN tick' + k ELSE tick' + k - Capacity) /\ s \in Slots
  <2>1. s = IF tick' + k < Capacity THEN tick' + k ELSE tick' + k - Capacity
    BY <1>1, <1>2, Ahead
  <2>2. tick' \in Nat /\ tick' < Capacity
    BY <1>1, <1>2 DEF Slots
  <2>3. tick' + k \in Nat
    <3> \A a, b \in Nat : a + b \in Nat
      OBVIOUS
    <3> QED BY <1>1, <2>2
  <2>4. s \in Slots
    BY <2>3, CapacityAssumption DEF Slots
  <2> HIDE DEF s
  <2> QED BY <2>1, <2>4
<1>4. k \in Distances(x)' <=> x \in wheels[s] /\ s \notin Cleared(n)
  BY <1>3 DEF Distances, SlotAfter, Tick
<1> HIDE DEF s
<1>5. CASE n >= Capacity
  <2>1. PICK j \in 1 .. Capacity : s = SlotAfter(j)
    BY <1>2, <1>3, EverySlotAhead
  <2>2. s \in Cleared(n)
    BY <1>1, <1>2, <1>5, <2>1, ClearedDistances
  <2>3. k + n \notin Distances(x)
    BY <1>1, <1>5 DEF Distances
  <2> QED BY <1>4, <2>2, <2>3
<1>6. CASE n < Capacity
  <2>1. tick' = IF tick + n < Capacity THEN tick + n ELSE tick + n - Capacity
    BY <1>1, <1>2, <1>6, Ahead DEF Tick
  <2>2. tick \in Nat /\ tick < Capacity
    BY <1>1, <1>2 DEF Slots
  <2>3. CASE k + n <= Capacity
    <3>1. s = SlotAfter(k + n)
      <4>1. SlotAfter(k + n) =
              IF tick + (k + n) < Capacity THEN tick + (k + n) ELSE tick + (k + n) - Capacity
        BY <1>1, <1>2, <2>3, Ahead DEF SlotAfter
      <4> QED BY <1>1, <1>3, <1>6, <2>1, <2>2, <2>3, <4>1
    <3>2. k + n \in 1 .. Capacity /\ ~(k + n <= n)
      BY <1>1, <2>3
    <3>3. s \notin Cleared(n)
      BY <1>1, <1>2, <3>1, <3>2, ClearedDistances
    <3> QED BY <1>4, <3>1, <3>2, <3>3 DEF Distances
  <2>4. CASE ~(k + n <= Capacity)
    <3> DEFINE j == k + n - Capacity
    <3>1. j \in 1 .. Capacity /\ j <= n
      BY <1>1, <1>6, <2>4
    <3>2. s = SlotAfter(j)
      <4>1. SlotAfter(j) = IF tick + j < Capacity THEN tick + j ELSE tick + j - Capacity
        BY <1>1, <1>2, <3>1, Ahead DEF SlotAfter
      <4> QED BY <1>1, <1>3, <1>6, <2>1, <2>2, <2>4, <4>1
    <3>3. s \in Cleared(n)
      BY <1>1, <1>2, <3>1, <3>2, ClearedDistances
    <3>4. k + n \notin Distances(x)
      BY <1>1, <2>4 DEF Distances
    <3> QED BY <1>4, <3>3, <3>4
  <2> QED BY <2>3, <2>4
<1> QED BY <1>1, <1>5, <1>6

\* Who dies in a Tick: the tasks whose farthest slot is cleared.
LEMMA DyingInTime ==
  ASSUME FreshInv, NEW n \in Nat, NEW x \in Tasks, Live(x)
  PROVE  x \in Dying(Cleared(n)) <=> Left(x) <= n
<1>1. tick \in Slots
  BY DEF FreshInv, WheelInv, TypeOK
<1>2. Left(x) \in Distances(x) /\ \A k \in Distances(x) : k <= Left(x) /\ k \in 1 .. Capacity
  BY LeftIs DEF Distances
<1>3. ASSUME Left(x) <= n, NEW s \in Slots \ Cleared(n), x \in wheels[s] PROVE FALSE
  <2>1. PICK k \in 1 .. Capacity : s = SlotAfter(k)
    BY <1>1, <1>3, EverySlotAhead
  <2>2. k \in Distances(x) /\ ~(k <= n)
    BY <1>1, <1>3, <2>1, ClearedDistances DEF Distances
  <2>3. k \in Nat /\ Left(x) \in Nat
    BY <1>2, CapacityAssumption
  <2> QED BY <1>2, <1>3, <2>2, <2>3
<1>4. ASSUME x \in Dying(Cleared(n)) PROVE Left(x) <= n
  <2>1. SlotAfter(Left(x)) \in Slots /\ x \in wheels[SlotAfter(Left(x))]
    <3>1. Left(x) \in Nat
      BY <1>2, CapacityAssumption
    <3> QED BY <1>2, <3>1, SlotInRange DEF FreshInv, WheelInv, Distances, SlotAfter
  <2>2. SlotAfter(Left(x)) \in Cleared(n)
    BY <1>4, <2>1 DEF Dying
  <2> QED BY <1>1, <1>2, <2>2, ClearedDistances
<1> QED BY <1>3, <1>4 DEF Dying

\* A record of a timeout is no missing timer.
LEMMA TimerIsNotNone ==
  ASSUME NEW t \in Timeouts, NEW l \in 1 .. Capacity
  PROVE  [timeout |-> t, left |-> l] # None
BY NoneAssumption

\* What the refinement shows of an id: its timeout and the distance to its last slot.
LEMMA ArmedIs ==
  ASSUME FreshInv, NEW id \in Ids
  PROVE  /\ PendingTimer(id) # None <=> IfExists(id)
         /\ IfExists(id) => /\ PendingTimer(id) = [timeout |-> task[record[id]].timeout,
                                                   left |-> Left(record[id])]
                            /\ Left(record[id]) \in 1 .. Capacity
<1>1. CASE IfExists(id)
  <2>1. Left(record[id]) \in 1 .. Capacity
    BY <1>1, RecordedTask, LeftIs DEF Distances
  <2> QED BY <1>1, <2>1, RecordedTask, TimerIsNotNone DEF PendingTimer
<1>2. CASE ~IfExists(id)
  BY <1>2 DEF PendingTimer
<1> QED BY <1>1, <1>2

\* A timer that a step leaves alone.
LEMMA SameTimer ==
  ASSUME NEW id \in Ids, record'[id] = record[id],
         IfExists(id) => task'[record[id]].timeout = task[record[id]].timeout
                         /\ Distances(record[id])' = Distances(record[id])
  PROVE  PendingTimer(id)' = PendingTimer(id)
<1>1. CASE IfExists(id)
  <2>1. Left(record[id])' = Max(Distances(record[id])') /\ Left(record[id]) = Max(Distances(record[id]))
    BY DEF Left, Distances
  <2> QED BY <1>1, <2>1 DEF PendingTimer, IfExists
<1>2. CASE ~IfExists(id)
  BY <1>2 DEF PendingTimer, IfExists
<1> QED BY <1>1, <1>2

\* SetTimerTask sets a timer.
LEMMA SetRefines ==
  ASSUME TimerInv, FreshInv', Timeouts \subseteq 1 .. Capacity,
         NEW id \in Ids, NEW timeout \in Timeouts, SetTimerTask(id, timeout)
  PROVE  Abstract!Set(id, timeout) /\ InTime'
<1>1. PICK x \in Tasks :
        /\ ~Live(x)
        /\ task' = [task EXCEPT
                      ![x] = [id |-> id, timeout |-> timeout, cancel |-> FALSE]]
        /\ Push(x, SlotAfter(timeout))
        /\ record' = [record EXCEPT ![id] = x]
  BY DEF SetTimerTask
<1>2. TypeOK /\ LivesInWheel /\ tick' = tick /\ ~IfExists(id) /\ fired' = {}
  BY DEF TimerInv, FreshInv, WheelInv, SetTimerTask
<1>3. timeout \in 1 .. Capacity
  OBVIOUS
<1>4. \A y \in Tasks : Distances(y)' = IF y = x THEN Distances(y) \cup {timeout} ELSE Distances(y)
  BY <1>1, <1>2, <1>3, PushDistances
<1>5. Distances(x) = {}
  <2>1. \A k \in 1 .. Capacity : SlotAfter(k) \in Slots
    BY <1>2, SlotInRange DEF SlotAfter
  <2> QED BY <1>1, <1>2, <2>1 DEF Distances, LivesInWheel
<1>6. Distances(x)' = {timeout}
  BY <1>4, <1>5
<1>7. /\ task'[x].timeout = timeout
      /\ \A y \in Tasks : y # x => task'[y] = task[y]
  BY <1>1, <1>2 DEF TypeOK
<1>8. record'[id] = x /\ \A i \in Ids : i # id => record'[i] = record[i]
  BY <1>1, <1>2 DEF TypeOK
<1>9. PendingTimer(id)' = [timeout |-> timeout, left |-> timeout]
  <2>1. Left(x)' = Max(Distances(x)')
    BY DEF Left, Distances
  <2>2. Max({timeout}) = timeout
    BY GreatestIs
  <2>3. x # None
    BY NoneAssumption
  <2> QED BY <1>6, <1>7, <1>8, <2>1, <2>2, <2>3 DEF PendingTimer, IfExists
<1>10. \A i \in Ids : i # id => PendingTimer(i)' = PendingTimer(i)
  <2> SUFFICES ASSUME NEW i \in Ids, i # id PROVE PendingTimer(i)' = PendingTimer(i)
    OBVIOUS
  <2>1. IfExists(i) => record[i] \in Tasks /\ record[i] # x
    BY <1>1, RecordedTask DEF TimerInv
  <2> QED BY <1>4, <1>7, <1>8, <2>1, SameTimer
<1>11. PendingTimer(id) = None
  BY <1>2 DEF PendingTimer
<1>12. InTime'
  <2> SUFFICES ASSUME NEW y \in Tasks, Live(y)', NEW k \in Distances(y)'
               PROVE  k <= task'[y].timeout
    BY DEF InTime
  <2>1. CASE y = x
    BY <1>3, <1>6, <1>7, <2>1
  <2>2. CASE y # x
    BY <1>4, <1>7, <2>2 DEF TimerInv, InTime, Live
  <2> QED BY <2>1, <2>2
<1> QED BY <1>2, <1>9, <1>10, <1>11, <1>12 DEF Abstract!Set, Abstract!Armed

\* RefreshTimerTask gives a timer all of its timeout again, because the new slot is the
\* farthest.
LEMMA RefreshRefines ==
  ASSUME TimerInv, Timeouts \subseteq 1 .. Capacity,
         NEW id \in Ids, RefreshTimerTask(id)
  PROVE  Abstract!Refresh(id) /\ InTime'
<1> PICK x \in Tasks : x = record[id]
  BY RecordedTask DEF RefreshTimerTask, TimerInv
<1> PICK t \in Timeouts : t = task[x].timeout
  BY RecordedTask DEF RefreshTimerTask, TimerInv
<1>1. /\ x \in Tasks /\ Live(x) /\ task[x].id = id /\ t \in Timeouts /\ t \in 1 .. Capacity
      /\ IfExists(id)
  BY RecordedTask DEF RefreshTimerTask, TimerInv
<1>2. /\ TypeOK /\ tick' = tick /\ record' = record /\ task' = task /\ fired' = {}
      /\ Push(x, SlotAfter(t))
  BY DEF TimerInv, FreshInv, WheelInv, RefreshTimerTask
<1>3. \A y \in Tasks : Distances(y)' = IF y = x THEN Distances(y) \cup {t} ELSE Distances(y)
  BY <1>1, <1>2, PushDistances
<1>4. \A k \in Distances(x)' : k <= t /\ k \in 1 .. Capacity
  <2>1. \A k \in Distances(x) : k <= t /\ k \in 1 .. Capacity
    BY <1>1 DEF TimerInv, InTime, Distances
  <2> QED BY <1>1, <1>3, <2>1
<1>5. Left(x)' = t
  <2>1. Left(x)' = Max(Distances(x)')
    BY <1>2 DEF Left, Distances
  <2>2. t \in Distances(x)' /\ Distances(x)' \subseteq 1 .. Capacity
    BY <1>1, <1>3, <1>4
  <2> QED BY <1>4, <2>1, <2>2, GreatestIs
<1>6. PendingTimer(id)' = [PendingTimer(id) EXCEPT !.left = PendingTimer(id).timeout]
  <2>1. PendingTimer(id) = [timeout |-> t, left |-> Left(x)]
    BY <1>1 DEF PendingTimer
  <2>2. PendingTimer(id)' = [timeout |-> t, left |-> Left(x)']
    BY <1>1, <1>2 DEF PendingTimer, IfExists
  <2> QED BY <1>5, <2>1, <2>2
<1>7. \A i \in Ids : i # id => PendingTimer(i)' = PendingTimer(i)
  <2> SUFFICES ASSUME NEW i \in Ids, i # id PROVE PendingTimer(i)' = PendingTimer(i)
    OBVIOUS
  <2>1. IfExists(i) => record[i] \in Tasks /\ record[i] # x
    BY <1>1, RecordedTask DEF TimerInv
  <2> QED BY <1>2, <1>3, <2>1, SameTimer
<1>8. PendingTimer(id) # None
  BY <1>1, ArmedIs DEF TimerInv
<1>9. InTime'
  <2> SUFFICES ASSUME NEW y \in Tasks, Live(y)', NEW k \in Distances(y)'
               PROVE  k <= task'[y].timeout
    BY DEF InTime
  <2>1. CASE y = x
    BY <1>2, <1>4, <2>1
  <2>2. CASE y # x
    BY <1>2, <1>3, <2>2 DEF TimerInv, InTime, Live
  <2> QED BY <2>1, <2>2
<1> QED BY <1>2, <1>6, <1>7, <1>8, <1>9 DEF Abstract!Refresh, Abstract!Armed

\* RemoveTimerTask removes a timer, and leaves its task in the wheel.
LEMMA RemoveRefines ==
  ASSUME TimerInv, NEW id \in Ids, RemoveTimerTask(id)
  PROVE  Abstract!Remove(id) /\ InTime'
<1> PICK x \in Tasks : x = record[id]
  BY RecordedTask DEF RemoveTimerTask, TimerInv
<1>1. Live(x) /\ IfExists(id) /\ task[x].id = id /\ task[x] \in TimerTask
  BY RecordedTask DEF RemoveTimerTask, TimerInv
<1>2. /\ TypeOK /\ tick' = tick /\ wheels' = wheels /\ fired' = {}
      /\ record' = [record EXCEPT ![id] = None] /\ task' = [task EXCEPT ![x].cancel = TRUE]
  BY <1>1 DEF TimerInv, FreshInv, WheelInv, RemoveTimerTask
<1>3. \A y \in Tasks : Distances(y)' = Distances(y)
  BY <1>2 DEF Distances, SlotAfter
<1>4. \A y \in Tasks : Live(y)' => Live(y) /\ task'[y].timeout = task[y].timeout
  <2> SUFFICES ASSUME NEW y \in Tasks, task'[y] # None
               PROVE  Live(y) /\ task'[y].timeout = task[y].timeout
    BY DEF Live
  <2>1. CASE y = x
    <3>1. task'[x] = [task[x] EXCEPT !.cancel = TRUE]
      BY <1>2 DEF TypeOK
    <3> QED BY <1>1, <2>1, <3>1 DEF TimerTask
  <2>2. CASE y # x
    BY <1>2, <2>2 DEF TypeOK, Live
  <2> QED BY <2>1, <2>2
<1>5. record'[id] = None /\ \A i \in Ids : i # id => record'[i] = record[i]
  BY <1>2 DEF TypeOK
<1>6. PendingTimer(id)' = None
  BY <1>5 DEF PendingTimer, IfExists
<1>7. \A i \in Ids : i # id => PendingTimer(i)' = PendingTimer(i)
  <2> SUFFICES ASSUME NEW i \in Ids, i # id PROVE PendingTimer(i)' = PendingTimer(i)
    OBVIOUS
  <2>1. IfExists(i) => record[i] \in Tasks /\ record[i] # x
    BY <1>1, RecordedTask DEF TimerInv
  <2>2. \A y \in Tasks : y # x => task'[y] = task[y]
    BY <1>2 DEF TypeOK
  <2> QED BY <1>3, <1>5, <2>1, <2>2, SameTimer
<1>8. PendingTimer(id) # None
  BY <1>1, ArmedIs DEF TimerInv
<1>9. InTime'
  BY <1>3, <1>4 DEF TimerInv, InTime
<1> QED BY <1>2, <1>6, <1>7, <1>8, <1>9 DEF Abstract!Remove, Abstract!Armed

\* A timer that does not run out in a Tick has so many ticks less to wait for.
LEMMA TickLeft ==
  ASSUME TimerInv, FreshInv', NEW n \in 1 .. MaxTicks, Tick(n),
         NEW x \in Tasks, Live(x), Live(x)'
  PROVE  Left(x)' = Left(x) - n
<1>1. n \in Nat /\ Capacity \in Nat
  BY MaxTicksAssumption, CapacityAssumption
<1>2. TypeOK
  BY DEF TimerInv, FreshInv, WheelInv
<1> PICK l \in 1 .. Capacity : l = Left(x)
  BY LeftIs DEF TimerInv, Distances
<1>3. l \in Distances(x) /\ \A k \in Distances(x) : k <= l
  BY LeftIs DEF TimerInv
<1>4. \A k \in 1 .. Capacity : k \in Distances(x)' <=> k + n \in Distances(x)
  BY <1>2, TickDistances
<1>5. ~(l <= n)
  <2>1. x \notin Dying(Cleared(n))
    BY DEF Tick, Destroy, Live
  <2> QED BY <1>1, <2>1, DyingInTime DEF TimerInv
<1>6. l - n \in 1 .. Capacity /\ (l - n) + n = l
  BY <1>1, <1>5
<1>7. l - n \in Distances(x)'
  BY <1>3, <1>4, <1>6
<1>8. \A k \in Distances(x)' : k \in 1 .. Capacity /\ k <= l - n
  <2> TAKE k \in Distances(x)'
  <2>1. k \in 1 .. Capacity
    BY DEF Distances
  <2>2. k + n <= l
    BY <1>3, <1>4, <2>1
  <2> QED BY <1>1, <2>1, <2>2
<1>9. Max(Distances(x)') = l - n
  BY <1>7, <1>8, GreatestIs
<1>10. Left(x)' = Max(Distances(x)')
  BY DEF Left, Distances
<1> QED BY <1>9, <1>10

\* Tick is the passing of so much time: the timers fire whose time has run out.
LEMMA TickRefines ==
  ASSUME TimerInv, FreshInv', Timeouts \subseteq 1 .. Capacity,
         NEW n \in 1 .. MaxTicks, Tick(n)
  PROVE  Abstract!Elapse(n) /\ InTime'
<1> PICK gone \in SUBSET Tasks : gone = Dying(Cleared(n))
  BY DEF Dying
<1>1. n \in Nat /\ TypeOK
  BY MaxTicksAssumption DEF TimerInv, FreshInv, WheelInv
<1>2. /\ fired' = {task[x].id : x \in {y \in gone : ~task[y].cancel}}
      /\ record' = [i \in Ids |->
                      IF \E x \in gone : task[x].id = i THEN None ELSE record[i]]
      /\ task' = [x \in Tasks |-> IF x \in gone THEN None ELSE task[x]]
  BY DEF Tick, Destroy
<1>3. \A x \in Tasks : Live(x) => (x \in gone <=> Left(x) <= n)
  BY <1>1, DyingInTime DEF TimerInv
<1>4. \A x \in gone : Live(x)
  BY DEF Dying
<1>5. \A id \in Ids : IfExists(id) =>
        \A x \in gone : task[x].id = id => x = record[id] /\ ~task[x].cancel
  BY <1>4, RecordedTask DEF TimerInv, FreshInv, OneTaskPerId
<1>6. \A x \in gone : ~task[x].cancel => task[x].id \in Ids /\ record[task[x].id] = x
  BY <1>4 DEF TimerInv, FreshInv, WheelInv, TypeOK, Live, TimerTask, PendingFound
<1>7. \A id \in Ids : id \in fired' <=> IfExists(id) /\ record[id] \in gone
  <2> SUFFICES ASSUME NEW id \in Ids PROVE id \in fired' <=> IfExists(id) /\ record[id] \in gone
    OBVIOUS
  <2>1. ASSUME id \in fired' PROVE IfExists(id) /\ record[id] \in gone
    <3>1. PICK x \in gone : ~task[x].cancel /\ id = task[x].id
      BY <1>2, <2>1
    <3>2. x # None
      BY NoneAssumption
    <3> QED BY <1>6, <3>1, <3>2 DEF IfExists
  <2>2. ASSUME IfExists(id), record[id] \in gone PROVE id \in fired'
    <3>1. task[record[id]].id = id /\ ~task[record[id]].cancel
      BY <2>2, RecordedTask DEF TimerInv
    <3> QED BY <1>2, <2>2, <3>1
  <2> QED BY <2>1, <2>2
<1>8. fired' \subseteq Ids
  BY <1>2, <1>6
<1>9. \A id \in Ids : IfExists(id) =>
        PendingTimer(id) # None /\ PendingTimer(id).left = Left(record[id])
  BY ArmedIs DEF TimerInv
<1>10. \A id \in Ids : ~IfExists(id) => PendingTimer(id) = None
  BY DEF PendingTimer
<1>11. fired' = {id \in Ids : PendingTimer(id) # None /\ PendingTimer(id).left <= n}
  <2>1. \A id \in Ids : IfExists(id) => (record[id] \in gone <=> Left(record[id]) <= n)
    BY <1>3, RecordedTask DEF TimerInv
  <2> QED BY <1>7, <1>8, <1>9, <1>10, <2>1
<1>12. ASSUME NEW id \in Ids
       PROVE  PendingTimer(id)' = IF PendingTimer(id) # None /\ id \notin fired'
                                  THEN [PendingTimer(id) EXCEPT !.left = @ - n] ELSE None
  <2>1. CASE ~IfExists(id)
    <3>1. record'[id] = None
      BY <1>2, <2>1 DEF IfExists
    <3> QED BY <1>10, <2>1, <3>1 DEF PendingTimer, IfExists
  <2>2. CASE IfExists(id) /\ id \in fired'
    <3>1. record[id] \in gone /\ task[record[id]].id = id
      BY <1>7, <2>2, RecordedTask DEF TimerInv
    <3>2. record'[id] = None
      BY <1>2, <3>1
    <3> QED BY <2>2, <3>2 DEF PendingTimer, IfExists
  <2>3. CASE IfExists(id) /\ id \notin fired'
    <3> PICK x \in Tasks : x = record[id]
      BY <2>3, RecordedTask DEF TimerInv
    <3>1. x \notin gone /\ Live(x)
      BY <1>7, <2>3, RecordedTask DEF TimerInv
    <3>2. ~\E y \in gone : task[y].id = id
      BY <1>5, <2>3, <3>1
    <3>3. record'[id] = x /\ task'[x] = task[x] /\ Live(x)'
      BY <1>2, <3>1, <3>2 DEF Live
    <3>4. Left(x)' = Left(x) - n
      BY <3>1, <3>3, TickLeft
    <3>5. PendingTimer(id)' = [timeout |-> task[x].timeout, left |-> Left(x) - n]
      BY <2>3, <3>3, <3>4 DEF PendingTimer, IfExists
    <3>6. PendingTimer(id) = [timeout |-> task[x].timeout, left |-> Left(x)] /\ PendingTimer(id) # None
      BY <2>3, ArmedIs DEF TimerInv
    <3> QED BY <2>3, <3>5, <3>6
  <2> QED BY <2>1, <2>2, <2>3
<1>13. InTime'
  <2> SUFFICES ASSUME NEW x \in Tasks, Live(x)', NEW k \in Distances(x)'
               PROVE  k <= task'[x].timeout
    BY DEF InTime
  <2>1. task'[x] = task[x] /\ Live(x)
    BY <1>2 DEF Live
  <2>2. k \in 1 .. Capacity /\ k + n \in Distances(x)
    BY <1>1, TickDistances DEF Distances
  <2>3. k + n <= task[x].timeout /\ task[x].timeout \in Timeouts
    BY <2>1, <2>2, <1>1 DEF TimerInv, InTime, TypeOK, Live, TimerTask
  <2>4. k \in Nat
    BY <2>2, CapacityAssumption
  <2>5. task[x].timeout \in Nat
    BY <2>3, TimeoutsAssumption
  <2> QED BY <1>1, <2>1, <2>3, <2>4, <2>5
<1> QED BY <1>11, <1>12, <1>13 DEF Abstract!Elapse, Abstract!Armed

(***************************************************************************)
(* The wheel implements Timers, for every capacity: with ids used once and *)
(* timeouts of at most one turn of the wheel, a timer fires once, exactly  *)
(* when its last timeout has elapsed since it was set or refreshed, and    *)
(* never after it was removed.                                             *)
(***************************************************************************)
THEOREM WheelImplementsTimers ==
  ASSUME ~ReuseIds, Timeouts \subseteq 1 .. Capacity
  PROVE  Spec => ImplementsTimers
<1>1. Init => TimerInv
  BY InitFreshInv DEF Init, TimerInv, InTime, Live
<1>2. Init => Abstract!Init
  BY DEF Init, Abstract!Init, PendingTimer, IfExists
<1>3. TimerInv /\ [Next]_vars => TimerInv' /\ [Abstract!Next]_Abstract!timerVars
  <2> SUFFICES ASSUME TimerInv, [Next]_vars
               PROVE  TimerInv' /\ [Abstract!Next]_Abstract!timerVars
    OBVIOUS
  <2>1. FreshInv'
    BY NextKeepsFreshInv DEF TimerInv
  <2>2. CASE \E id \in Ids, timeout \in Timeouts : MaySet(id) /\ SetTimerTask(id, timeout)
    BY <2>1, <2>2, SetRefines DEF TimerInv, Abstract!Next
  <2>3. CASE \E id \in Ids : RefreshTimerTask(id)
    BY <2>1, <2>3, RefreshRefines DEF TimerInv, Abstract!Next
  <2>4. CASE \E id \in Ids : RemoveTimerTask(id)
    BY <2>1, <2>4, RemoveRefines DEF TimerInv, Abstract!Next
  <2>5. CASE \E n \in 1 .. MaxTicks : Tick(n)
    BY <2>1, <2>5, TickRefines DEF TimerInv, Abstract!Next
  <2>6. CASE UNCHANGED vars
    <3>1. InTime'
      BY <2>6 DEF vars, TimerInv, InTime, Live, Distances, SlotAfter
    <3>2. UNCHANGED Abstract!timerVars
      BY <2>6 DEF vars, Abstract!timerVars, PendingTimer, IfExists, Left, SlotAfter
    <3> QED BY <2>1, <3>1, <3>2 DEF TimerInv
  <2> QED BY <2>2, <2>3, <2>4, <2>5, <2>6 DEF Next
<1> QED BY <1>1, <1>2, <1>3, PTL DEF Spec, ImplementsTimers, Abstract!Spec
=============================================================================
