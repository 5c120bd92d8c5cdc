--------------------------- MODULE TimeWheelProofs ---------------------------
(***************************************************************************)
(* For every number of slots, every alarm period and all timeouts: the     *)
(* wheel is a countdown, whatever its slots and turns, it and its pool     *)
(* agree, and no timer goes off before its time.                           *)
(***************************************************************************)
EXTENDS TimeWheel, MemoryPoolTheorems, FiniteSetTheorems

LEMMA NodesArePositive == Nodes \subseteq Nat \ {0}
BY BlockAssumption, WheelAssumption DEF Nodes

LEMMA NodesFinite ==
    ASSUME NEW S \in SUBSET Nodes
    PROVE  IsFiniteSet(S) /\ Cardinality(S) \in Nat
<1>1. MaxBlocks * BlockSize \in Nat
    BY BlockAssumption, WheelAssumption
<1>2. IsFiniteSet(Nodes)
    BY <1>1, FS_Interval DEF Nodes
<1> QED BY <1>2, FS_Subset, FS_CardinalityType


-----------------------------------------------------------------------------
(* The wheel's arithmetic. *)

\* tick() moves to the next slot, and from the last one to the first.
LEMMA NextSlot ==
    ASSUME NEW c \in Slots
    PROVE  (c + 1) % N = (IF c = N - 1 THEN 0 ELSE c + 1) /\ (c + 1) % N \in Slots
BY WheelAssumption DEF Slots

\* The slot k ahead is k % N slots away, and what is missing to k are whole turns.
LEMMA SlotsAndTurns ==
    ASSUME NEW c \in Slots, NEW k \in Nat
    PROVE  LET s == (c + (k % N)) % N
           IN  /\ s \in Slots
               /\ k \div N \in Nat
               /\ (IF s >= c THEN s - c ELSE s - c + N) + N * (k \div N) = k
<1> DEFINE r == k % N
           s == (c + r) % N
<1>1. r \in 0..(N - 1) /\ k \div N \in Nat /\ N * (k \div N) + r = k
    BY WheelAssumption
<1> HIDE DEF r
<1>2. s = IF c + r < N THEN c + r ELSE c + r - N
    BY <1>1, WheelAssumption DEF Slots
<1> HIDE DEF s
<1>3. s \in Slots /\ (IF s >= c THEN s - c ELSE s - c + N) = r
    BY <1>1, <1>2, WheelAssumption DEF Slots
<1>4. (IF s >= c THEN s - c ELSE s - c + N) + N * (k \div N) = k
    BY <1>1, <1>3, WheelAssumption
<1> QED BY <1>1, <1>3, <1>4 DEF s, r

-----------------------------------------------------------------------------
(* Wheel, recorded slots and pool. *)

LEMMA ArmedInSlot ==
    ASSUME IInv, NEW n \in Armed
    PROVE  n \in Nodes /\ time_slot[n] \in Slots /\ n \in slots[time_slot[n]]
BY DEF IInv, TypeOK, InItsSlot, Armed

\* What add_timer does: the object it gets from the pool is not in the wheel yet.
LEMMA AddEffect ==
    ASSUME IInv, NEW timeout \in Timeouts, add_timer(timeout)
    PROVE  \E n \in Nodes \ Armed : \E s \in Slots :
              /\ n = Allocated(pool) /\ s = SlotAhead(Ticks(timeout))
              /\ Armed' = Armed \cup {n}
              /\ slots' = [slots EXCEPT ![s] = @ \cup {n}]
              /\ rotation' = [rotation EXCEPT ![n] = Rotations(Ticks(timeout))]
              /\ time_slot' = [time_slot EXCEPT ![n] = s]
              /\ expire' = [expire EXCEPT ![n] = timeout]
              /\ pool' = Allocate(pool)
              /\ UNCHANGED <<cur_slot, alarm, late>>
<1>1. TypeOK /\ PoolSoundFor(pool, Armed)
    BY DEF IInv, PoolSound
<1>2. PICK n \in Nodes : n = Allocated(pool)
    BY DEF add_timer
<1>3. n \notin Armed
    BY <1>1, <1>2, AllocateSound DEF TypeOK
<1>4. timeout \in Nat /\ Ticks(timeout) \in Nat
    BY WheelAssumption DEF Ticks
<1>5. PICK s \in Slots : s = SlotAhead(Ticks(timeout))
    BY <1>1, <1>4, SlotsAndTurns DEF SlotAhead, TypeOK
<1>6. slots' = [slots EXCEPT ![s] = @ \cup {n}]
    BY <1>2, <1>5 DEF add_timer
<1>7. Armed' = Armed \cup {n}
    BY <1>1, <1>6 DEF Armed, TypeOK
<1> QED BY <1>2, <1>3, <1>5, <1>6, <1>7 DEF add_timer

\* What del_timer does: the timer is in the slot it records and in no other.
LEMMA DelEffect ==
    ASSUME IInv, NEW n \in Nodes, del_timer(n)
    PROVE  n \in Armed /\ Armed' = Armed \ {n}
<1>1. n \in Armed /\ slots' = [slots EXCEPT ![time_slot[n]] = @ \ {n}]
    BY DEF del_timer
<1>2. time_slot[n] \in Slots
    BY <1>1, ArmedInSlot
<1>3. \A s \in Slots : s # time_slot[n] => n \notin slots[s]
    BY DEF IInv, InItsSlot
<1>4. \A s \in Slots : slots'[s] = slots[s] \ {n}
    BY <1>1, <1>2, <1>3 DEF IInv, TypeOK
<1> QED BY <1>1, <1>4 DEF Armed

LEMMA TickEffect ==
    ASSUME IInv, timer_handler
    PROVE  Expired \subseteq Armed /\ Armed' = Armed \ Expired /\ Expired \in SUBSET Nodes
<1>1. TypeOK /\ cur_slot \in Slots
    BY DEF IInv, TypeOK
<1>2. slots' = [slots EXCEPT ![cur_slot] = @ \ Expired]
    BY DEF timer_handler
<1>3. Expired \subseteq slots[cur_slot] /\ Expired \subseteq Armed /\ Expired \in SUBSET Nodes
    BY <1>1 DEF Expired, Armed, TypeOK
<1>4. \A s \in Slots : s # cur_slot => slots[s] \cap Expired = {}
    BY <1>1, <1>3 DEF IInv, InItsSlot
<1>5. \A s \in Slots : slots'[s] = slots[s] \ Expired
    BY <1>1, <1>2, <1>4 DEF TypeOK
<1> QED BY <1>3, <1>5 DEF Armed

LEMMA NextIInv == IInv /\ [Next]_vars => IInv'
<1> SUFFICES ASSUME IInv, [Next]_vars PROVE IInv'
    OBVIOUS
<1>1. /\ TypeOK /\ InItsSlot /\ pool \in Pools
      /\ PoolSoundFor(pool, Armed)
    BY DEF IInv, PoolSound, TypeOK
<1>2. ASSUME NEW timeout \in Timeouts, add_timer(timeout) PROVE IInv'
  <2>1. PICK n \in Nodes \ Armed, s \in Slots :
              /\ n = Allocated(pool) /\ s = SlotAhead(Ticks(timeout))
              /\ Armed' = Armed \cup {n}
              /\ slots' = [slots EXCEPT ![s] = @ \cup {n}]
              /\ rotation' = [rotation EXCEPT ![n] = Rotations(Ticks(timeout))]
              /\ time_slot' = [time_slot EXCEPT ![n] = s]
              /\ expire' = [expire EXCEPT ![n] = timeout]
              /\ pool' = Allocate(pool)
              /\ UNCHANGED <<cur_slot, alarm, late>>
      BY <1>2, AddEffect
  <2>2. timeout \in Nat /\ Rotations(Ticks(timeout)) \in Nat
      BY WheelAssumption DEF Rotations, Ticks
  <2>3. pool' \in Pools /\ PoolSound'
      BY <1>1, <2>1, AllocateSound DEF PoolSound
  <2>4. TypeOK'
      BY <1>1, <2>1, <2>2, <2>3 DEF TypeOK
  <2>5. InItsSlot'
    <3> SUFFICES ASSUME NEW t \in Slots, NEW m \in slots'[t] PROVE time_slot'[m] = t
        BY DEF InItsSlot
    <3>1. CASE m = n
      <4>1. n \notin slots[t]
          BY <2>1 DEF Armed
      <4>2. t = s
          BY <1>1, <2>1, <3>1, <4>1 DEF TypeOK
      <4> QED BY <1>1, <2>1, <3>1, <4>2 DEF TypeOK
    <3>2. CASE m # n
      <4>1. m \in slots[t] /\ m \in Nodes
          BY <1>1, <2>1, <3>2 DEF TypeOK
      <4> QED BY <1>1, <2>1, <3>2, <4>1 DEF TypeOK, InItsSlot
    <3> QED BY <3>1, <3>2
  <2> QED BY <2>3, <2>4, <2>5 DEF IInv
<1>3. ASSUME NEW n \in Nodes, del_timer(n) PROVE IInv'
  <2>1. n \in Armed /\ Armed' = Armed \ {n}
      BY <1>3, DelEffect
  <2>2. /\ slots' = [slots EXCEPT ![time_slot[n]] = @ \ {n}]
        /\ pool' = Deallocate(pool, n)
        /\ expire' = [expire EXCEPT ![n] = 0]
        /\ UNCHANGED <<cur_slot, rotation, time_slot, alarm, late>>
      BY <1>3 DEF del_timer
  <2>3. pool' \in Pools /\ PoolSound'
      BY <1>1, <2>1, <2>2, DeallocateSound DEF PoolSound
  <2>4. TypeOK'
      BY <1>1, <2>2, <2>3 DEF TypeOK
  <2>5. InItsSlot'
      BY <1>1, <2>2 DEF TypeOK, InItsSlot
  <2> QED BY <2>3, <2>4, <2>5 DEF IInv
<1>4. CASE timer_handler
  <2>1. Expired \subseteq Armed /\ Armed' = Armed \ Expired /\ Expired \in SUBSET Nodes
      BY <1>4, TickEffect
  <2>2. /\ slots' = [slots EXCEPT ![cur_slot] = @ \ Expired]
        /\ rotation' = [n \in Nodes |-> IF n \in slots[cur_slot] \ Expired
                                        THEN rotation[n] - 1 ELSE rotation[n]]
        /\ expire' = [n \in Nodes |-> IF n \in Expired THEN 0 ELSE expire[n]]
        /\ cur_slot' = (cur_slot + 1) % N
        /\ alarm' = TIMESLOT /\ late' = 0 /\ time_slot' = time_slot
      BY <1>4 DEF timer_handler
  <2>3. PICK order \in Orders(Expired) : pool' = DeallocateAll(pool, order)
      BY <1>4 DEF timer_handler
  <2>4. Cardinality(Expired) \in Nat
      BY <2>1, NodesFinite
  <2>5. pool' \in Pools /\ PoolSound'
      BY <1>1, <2>1, <2>3, <2>4, DeallocateAllSound DEF PoolSound
  <2>6. TypeOK'
    <3>1. cur_slot' \in Slots
        BY <1>1, <2>2, NextSlot DEF TypeOK
    <3>2. rotation' \in [Nodes -> Nat]
      <4>1. \A n \in slots[cur_slot] \ Expired : rotation[n] # 0
          BY DEF Expired
      <4>2. rotation \in [Nodes -> Nat]
          BY <1>1 DEF TypeOK
      <4> QED BY <2>2, <4>1, <4>2
    <3>3. slots' \in [Slots -> SUBSET Nodes]
        BY <1>1, <2>2 DEF TypeOK
    <3>4. /\ expire' \in [Nodes -> Nat] /\ time_slot' \in [Nodes -> Slots]
        BY <1>1, <2>2 DEF TypeOK
    <3>5. alarm' \in 0..TIMESLOT /\ late' \in 0..MaxDelay
        BY <2>2, WheelAssumption
    <3> QED BY <2>5, <3>1, <3>2, <3>3, <3>4, <3>5 DEF TypeOK
  <2>7. InItsSlot'
      BY <1>1, <2>2 DEF TypeOK, InItsSlot
  <2> QED BY <2>5, <2>6, <2>7 DEF IInv
<1>5. CASE Second
  <2>1. UNCHANGED <<slots, cur_slot, rotation, time_slot, pool>>
      BY <1>5 DEF Second
  <2>2. alarm' \in 0..TIMESLOT /\ late' \in 0..MaxDelay
      BY <1>1, <1>5, WheelAssumption DEF Second, TypeOK
  <2>3. expire' \in [Nodes -> Nat]
      BY <1>1, <1>5 DEF Second, TypeOK
  <2>4. Armed' = Armed
      BY <2>1 DEF Armed
  <2> QED BY <1>1, <2>1, <2>2, <2>3, <2>4 DEF IInv, TypeOK, InItsSlot, PoolSound
<1>6. CASE UNCHANGED vars
  <2>1. Armed' = Armed
      BY <1>6 DEF vars, Armed
  <2> QED BY <1>1, <1>6, <2>1 DEF vars, IInv, TypeOK, InItsSlot, PoolSound
<1> QED BY <1>2, <1>3, <1>4, <1>5, <1>6 DEF Next

LEMMA InitIInv == Init => IInv
<1> SUFFICES ASSUME Init PROVE IInv
    OBVIOUS
<1>1. EmptyPool \in Pools /\ EmptyPool.free = <<>> /\ EmptyPool.blocks = 0
    BY DEF EmptyPool, Pools
<1>2. 0 \in Slots
    BY WheelAssumption DEF Slots
<1>3. TypeOK
  <2>1. /\ slots \in [Slots -> SUBSET Nodes] /\ cur_slot \in Slots
        /\ rotation \in [Nodes -> Nat] /\ time_slot \in [Nodes -> Slots]
        /\ expire \in [Nodes -> Nat]
      BY <1>2 DEF Init
  <2>2. pool \in Pools /\ alarm \in 0..TIMESLOT /\ late \in 0..MaxDelay
      BY <1>1, WheelAssumption DEF Init
  <2> QED BY <2>1, <2>2 DEF TypeOK
<1>4. Armed = {}
    BY DEF Init, Armed
<1>5. FreeObjects(EmptyPool) = {} /\ DOMAIN EmptyPool.free = {} /\ Objects(EmptyPool) = {}
    BY <1>1, BlockAssumption DEF FreeObjects, Objects
<1>6. PoolSound
    BY <1>4, <1>5 DEF Init, PoolSound, PoolSoundFor
<1>7. InItsSlot
    BY DEF Init, InItsSlot
<1> QED BY <1>3, <1>6, <1>7 DEF IInv

\* Wheel, recorded slots and pool agree: del_timer finds the timer in the slot it
\* looks in, and no timer is freed twice or lost (lst_timer.cpp:81-192).
THEOREM WheelSound == Spec => []IInv
BY InitIInv, NextIInv, PTL DEF Spec

-----------------------------------------------------------------------------
(* The countdown. *)

\* The ticks a timer in the wheel survives.
Left(n) == Distance(time_slot[n]) + N * rotation[n]

LEMMA LeftType ==
    ASSUME IInv, NEW n \in Armed
    PROVE  Left(n) \in Nat /\ (Left(n) = 0 <=> n \in Expired)
<1> DEFINE d == Distance(time_slot[n])
           r == rotation[n]
<1>1. /\ n \in Nodes /\ time_slot[n] \in Slots /\ n \in slots[time_slot[n]]
      /\ cur_slot \in Slots /\ r \in Nat
    BY ArmedInSlot DEF IInv, TypeOK
<1>2. d \in Nat /\ (d = 0 <=> time_slot[n] = cur_slot)
    BY <1>1, WheelAssumption DEF Distance, Slots
<1>3. n \in Expired <=> time_slot[n] = cur_slot /\ r = 0
    BY <1>1 DEF Expired, IInv, InItsSlot
<1>4. Left(n) = d + N * r
    BY DEF Left
<1> HIDE DEF d, r
<1>5. N * r \in Nat /\ (N * r = 0 <=> r = 0)
    BY <1>1, WheelAssumption
<1> QED BY <1>2, <1>3, <1>4, <1>5

\* add_timer puts the timer as many ticks ahead as its timeout is worth.
LEMMA LeftAfterAdd ==
    ASSUME IInv, NEW timeout \in Timeouts, add_timer(timeout)
    PROVE  \E n \in Nodes \ Armed :
              /\ Armed' = Armed \cup {n}
              /\ Left(n)' = Ticks(timeout)
              /\ \A m \in Armed : Left(m)' = Left(m)
              /\ expire' = [expire EXCEPT ![n] = timeout]
              /\ UNCHANGED <<alarm, late>>
<1>1. PICK n \in Nodes \ Armed, s \in Slots :
              /\ n = Allocated(pool) /\ s = SlotAhead(Ticks(timeout))
              /\ Armed' = Armed \cup {n}
              /\ slots' = [slots EXCEPT ![s] = @ \cup {n}]
              /\ rotation' = [rotation EXCEPT ![n] = Rotations(Ticks(timeout))]
              /\ time_slot' = [time_slot EXCEPT ![n] = s]
              /\ expire' = [expire EXCEPT ![n] = timeout]
              /\ pool' = Allocate(pool)
              /\ UNCHANGED <<cur_slot, alarm, late>>
    BY AddEffect
<1>2. TypeOK
    BY DEF IInv
<1>3. PICK k \in Nat : k = Ticks(timeout)
    BY WheelAssumption DEF Ticks
<1>4. Distance(s) + N * (k \div N) = k
    BY <1>1, <1>2, <1>3, SlotsAndTurns DEF SlotAhead, Distance, TypeOK
<1>5. time_slot'[n] = s /\ rotation'[n] = k \div N
    BY <1>1, <1>2, <1>3 DEF TypeOK, Rotations
<1>6. Left(n)' = k
    BY <1>1, <1>4, <1>5 DEF Left, Distance
<1>7. \A m \in Nodes : m # n => time_slot'[m] = time_slot[m] /\ rotation'[m] = rotation[m]
    BY <1>1, <1>2 DEF TypeOK
<1>8. \A m \in Armed : m \in Nodes /\ m # n
    BY <1>1, ArmedInSlot
<1>9. \A m \in Armed : Left(m)' = Left(m)
    BY <1>1, <1>7, <1>8 DEF Left, Distance
<1> QED BY <1>1, <1>3, <1>6, <1>9

\* tick() takes one from every timer it leaves: the next slot is one closer, and the
\* timers of the slot left behind lose a turn and are N - 1 slots away.
LEMMA LeftAfterTick ==
    ASSUME IInv, timer_handler, NEW n \in Armed \ Expired
    PROVE  Left(n)' = Left(n) - 1
<1>1. /\ n \in Nodes /\ time_slot[n] \in Slots /\ n \in slots[time_slot[n]]
      /\ cur_slot \in Slots /\ rotation[n] \in Nat
    BY ArmedInSlot DEF IInv, TypeOK
<1>2. /\ cur_slot' = (cur_slot + 1) % N /\ time_slot' = time_slot
      /\ rotation'[n] = IF n \in slots[cur_slot] \ Expired
                        THEN rotation[n] - 1 ELSE rotation[n]
    BY <1>1 DEF timer_handler
<1>3. cur_slot' = IF cur_slot = N - 1 THEN 0 ELSE cur_slot + 1
    BY <1>1, <1>2, NextSlot
<1>4. CASE time_slot[n] = cur_slot
  <2>1. rotation'[n] = rotation[n] - 1 /\ rotation[n] # 0
      BY <1>1, <1>2, <1>4 DEF Expired
  <2>2. Distance(time_slot[n]) = 0 /\ Distance(time_slot[n])' = N - 1
      BY <1>1, <1>2, <1>3, <1>4, WheelAssumption DEF Distance, Slots
  <2>3. N * (rotation[n] - 1) = N * rotation[n] - N
      BY <1>1, WheelAssumption
  <2>4. N * rotation[n] \in Int
      BY <1>1, WheelAssumption
  <2> QED BY <1>2, <2>1, <2>2, <2>3, <2>4, WheelAssumption DEF Left
<1>5. CASE time_slot[n] # cur_slot
  <2>1. rotation'[n] = rotation[n]
      BY <1>1, <1>2, <1>5 DEF IInv, InItsSlot
  <2>2. Distance(time_slot[n])' = Distance(time_slot[n]) - 1 /\ Distance(time_slot[n]) \in Int
      BY <1>1, <1>2, <1>3, <1>5, WheelAssumption DEF Distance, Slots
  <2>3. N * rotation[n] \in Int
      BY <1>1, WheelAssumption
  <2> QED BY <1>2, <2>1, <2>2, <2>3 DEF Left
<1> QED BY <1>4, <1>5

\* The other steps do not touch it.
LEMMA LeftUnchanged ==
    ASSUME IInv, (\E n \in Nodes : del_timer(n)) \/ Second \/ UNCHANGED vars
    PROVE  \A m \in Nodes : Left(m)' = Left(m)
BY DEF del_timer, Second, vars, Left, Distance

-----------------------------------------------------------------------------
(* The wheel implements TimerService. *)

LEMMA WheelStep ==
    ASSUME IInv, IInv', [Next]_vars
    PROVE  [Service!Next]_leftBar
<1>1. leftBar = [m \in Nodes |-> IF m \in Armed THEN Left(m) ELSE -1]
    BY DEF leftBar, Left
<1>2. leftBar' = [m \in Nodes |-> IF m \in Armed' THEN Left(m)' ELSE -1]
    BY DEF leftBar, Left
<1>3. ASSUME NEW timeout \in Timeouts, add_timer(timeout) PROVE Service!Next
  <2>1. PICK n \in Nodes \ Armed :
              /\ Armed' = Armed \cup {n}
              /\ Left(n)' = Ticks(timeout)
              /\ \A m \in Armed : Left(m)' = Left(m)
      BY <1>3, LeftAfterAdd
  <2>2. leftBar[n] = -1
      BY <1>1, <2>1
  <2>3. leftBar' = [leftBar EXCEPT ![n] = Ticks(timeout)]
      BY <1>1, <1>2, <2>1
  <2>4. Service!Add(n, Ticks(timeout))
      BY <2>2, <2>3 DEF Service!Add, Service!Off
  <2> QED BY <2>4 DEF Service!Next
<1>4. ASSUME NEW n \in Nodes, del_timer(n) PROVE Service!Next
  <2>1. n \in Armed /\ Armed' = Armed \ {n} /\ \A m \in Nodes : Left(m)' = Left(m)
      BY <1>4, DelEffect, LeftUnchanged
  <2>2. leftBar[n] # -1
      BY <1>1, <2>1, LeftType
  <2>3. leftBar' = [leftBar EXCEPT ![n] = -1]
      BY <1>1, <1>2, <2>1
  <2>4. Service!Del(n)
      BY <2>2, <2>3 DEF Service!Del, Service!Off
  <2> QED BY <2>4 DEF Service!Next
<1>5. CASE timer_handler
  <2>1. Expired \subseteq Armed /\ Armed' = Armed \ Expired
      BY <1>5, TickEffect
  <2>2. \A m \in Armed \ Expired : Left(m)' = Left(m) - 1
      BY <1>5, LeftAfterTick
  <2>3. \A m \in Armed : Left(m) \in Nat /\ (Left(m) = 0 <=> m \in Expired)
      BY LeftType
  <2>4. \A m \in Nodes : (IF leftBar[m] > 0 THEN leftBar[m] - 1 ELSE -1)
                             = (IF m \in Armed' THEN Left(m)' ELSE -1)
      BY <1>1, <2>1, <2>2, <2>3
  <2>5. Service!Tick
      BY <1>2, <2>4 DEF Service!Tick, Service!Off
  <2> QED BY <2>5 DEF Service!Next
<1>6. CASE Second \/ UNCHANGED vars
  <2>1. Armed' = Armed
      BY <1>6 DEF Second, vars, Armed
  <2>2. \A m \in Nodes : Left(m)' = Left(m)
      BY <1>6, LeftUnchanged
  <2> QED BY <1>1, <1>2, <2>1, <2>2
<1> QED BY <1>3, <1>4, <1>5, <1>6 DEF Next

\* Slots, turns and the modulo arithmetic of add_timer and tick amount to a countdown
\* of as many ticks as the timeout is worth, for every number of slots
\* (lst_timer.cpp:40-55, :153-191).
THEOREM WheelImplementsTimerService == Spec => ImplementsTimerService
<1>1. Init => Service!Init
    BY DEF Init, Service!Init, Service!Off, leftBar, Armed
<1>2. IInv /\ IInv' /\ [Next]_vars => [Service!Next]_leftBar
    BY WheelStep
<1> QED BY <1>1, <1>2, WheelSound, PTL DEF Spec, Service!Spec, ImplementsTimerService

-----------------------------------------------------------------------------
(* When timers go off. *)

\* Between two alarms lie at least TIMESLOT seconds: what is left of a timer's time
\* is at most what its ticks and the alarm in progress still take.
TimeLeft == \A n \in Armed : expire[n] <= Left(n) * TIMESLOT + alarm

\* Only timer_handler sets the alarm.
LEMMA AlarmRises ==
    ASSUME IInv, [Next]_vars, alarm' > alarm
    PROVE  timer_handler /\ alarm = 0
BY DEF IInv, TypeOK, Next, add_timer, del_timer, timer_handler, Second, vars

\* A second takes one from the time of a timer, until none is left.
LEMMA SecondEffect ==
    ASSUME IInv, Second
    PROVE  /\ Armed' = Armed
           /\ \A n \in Nodes : Left(n)' = Left(n)
           /\ \A n \in Armed : expire'[n] = IF expire[n] > 0 THEN expire[n] - 1 ELSE 0
           /\ \/ alarm > 0 /\ alarm' = alarm - 1
              \/ alarm = 0 /\ alarm' = alarm
<1>1. Armed' = Armed
    BY DEF Second, Armed
<1>2. \A n \in Nodes : Left(n)' = Left(n)
    BY LeftUnchanged
<1>3. \A n \in Armed : expire'[n] = IF expire[n] > 0 THEN expire[n] - 1 ELSE 0
    BY ArmedInSlot DEF Second
<1>4. \/ alarm > 0 /\ alarm' = alarm - 1
      \/ alarm = 0 /\ alarm' = alarm
    BY WheelAssumption DEF Second, IInv, TypeOK
<1> QED BY <1>1, <1>2, <1>3, <1>4

\* With a slot per second no timeout is longer than its ticks take.
LEMMA TicksCover ==
    ASSUME SI = 1, NEW timeout \in Timeouts
    PROVE  timeout <= Ticks(timeout) * TIMESLOT
<1>1. timeout \in Nat /\ TIMESLOT \in Nat /\ TIMESLOT >= 1
    BY WheelAssumption
<1>2. Ticks(timeout) \in Nat /\ timeout <= Ticks(timeout)
  <2>1. timeout \div 1 = timeout
      BY <1>1
  <2> QED BY <1>1, <2>1 DEF Ticks
<1>3. ASSUME NEW k \in Nat PROVE k <= k * TIMESLOT
    BY <1>1
<1> QED BY <1>1, <1>2, <1>3

LEMMA TimesAreNaturals ==
    ASSUME IInv, NEW n \in Armed
    PROVE  n \in Nodes /\ expire[n] \in Nat /\ Left(n) \in Nat /\ Left(n) * TIMESLOT \in Nat
<1>1. n \in Nodes /\ Left(n) \in Nat
    BY ArmedInSlot, LeftType
<1>2. expire[n] \in Nat
    BY <1>1 DEF IInv, TypeOK
<1> QED BY <1>1, <1>2, WheelAssumption

LEMMA TimeLeftStep ==
    ASSUME SI = 1, IInv, TimeLeft, [Next]_vars PROVE TimeLeft'
<1> SUFFICES ASSUME NEW m \in Armed' PROVE expire'[m] <= Left(m)' * TIMESLOT + alarm'
    BY DEF TimeLeft
<1>1. /\ TIMESLOT \in Nat /\ alarm \in 0..TIMESLOT /\ expire \in [Nodes -> Nat]
    BY WheelAssumption DEF IInv, TypeOK
<1>2. ASSUME NEW n \in Armed
      PROVE  /\ n \in Nodes /\ expire[n] \in Nat /\ Left(n) \in Nat
             /\ Left(n) * TIMESLOT \in Nat
             /\ expire[n] <= Left(n) * TIMESLOT + alarm
    BY <1>2, TimesAreNaturals DEF TimeLeft
<1>3. ASSUME NEW timeout \in Timeouts, add_timer(timeout)
      PROVE  expire'[m] <= Left(m)' * TIMESLOT + alarm'
  <2>1. PICK n \in Nodes \ Armed :
              /\ Armed' = Armed \cup {n}
              /\ Left(n)' = Ticks(timeout)
              /\ \A g \in Armed : Left(g)' = Left(g)
              /\ expire' = [expire EXCEPT ![n] = timeout]
              /\ UNCHANGED alarm
      BY <1>3, LeftAfterAdd
  <2>2. CASE m = n
    <3>1. Ticks(timeout) * TIMESLOT \in Nat /\ timeout \in Nat
        BY WheelAssumption DEF Ticks
    <3>2. expire'[m] = timeout /\ Left(m)' * TIMESLOT = Ticks(timeout) * TIMESLOT
        BY <1>1, <2>1, <2>2
    <3> QED BY <1>1, <2>1, <3>1, <3>2, TicksCover
  <2>3. CASE m # n
      BY <1>1, <1>2, <2>1, <2>3
  <2> QED BY <2>2, <2>3
<1>4. ASSUME NEW n \in Nodes, del_timer(n)
      PROVE  expire'[m] <= Left(m)' * TIMESLOT + alarm'
  <2>1. Armed' = Armed \ {n} /\ \A g \in Nodes : Left(g)' = Left(g)
      BY <1>4, DelEffect, LeftUnchanged
  <2>2. expire' = [expire EXCEPT ![n] = 0] /\ alarm' = alarm
      BY <1>4 DEF del_timer
  <2> QED BY <1>1, <1>2, <2>1, <2>2
<1>5. CASE timer_handler
  <2>1. m \in Armed \ Expired /\ m \in Nodes
      BY <1>2, <1>5, TickEffect
  <2>2. alarm = 0 /\ alarm' = TIMESLOT /\ expire'[m] = expire[m]
      BY <1>5, <2>1 DEF timer_handler
  <2>3. Left(m)' = Left(m) - 1
      BY <1>5, <2>1, LeftAfterTick
  <2>4. (Left(m) - 1) * TIMESLOT = Left(m) * TIMESLOT - TIMESLOT
      BY <1>1, <1>2, <2>1
  <2> QED BY <1>1, <1>2, <2>1, <2>2, <2>3, <2>4
<1>6. CASE Second
    BY <1>1, <1>2, <1>6, SecondEffect
<1>7. CASE UNCHANGED vars
  <2>1. Armed' = Armed /\ expire' = expire /\ alarm' = alarm
      BY <1>7 DEF vars, Armed
  <2> QED BY <1>2, <1>7, <2>1, LeftUnchanged
<1> QED BY <1>3, <1>4, <1>5, <1>6, <1>7 DEF Next

\* With the slot of one second the code has (lst_timer.h:87) no timer goes off before
\* the time recorded in it, whatever TIMESLOT is and however its addition falls
\* between two alarms (lst_timer.cpp:40-64).
THEOREM TimersAreNotEarly == ASSUME SI = 1 PROVE Spec => NeverEarly
<1>1. Init => TimeLeft
    BY DEF Init, TimeLeft, Armed
<1>2. IInv /\ TimeLeft /\ [Next]_vars => TimeLeft'
    BY TimeLeftStep
<1>3. IInv /\ TimeLeft /\ [Next]_vars
          => [alarm' > alarm => \A n \in Expired : expire[n] = 0]_vars
  <2> SUFFICES ASSUME IInv, TimeLeft, [Next]_vars, alarm' > alarm, NEW n \in Expired
               PROVE  expire[n] = 0
      OBVIOUS
  <2>1. timer_handler /\ alarm = 0
      BY AlarmRises
  <2>2. n \in Armed
      BY <2>1, TickEffect
  <2>3. Left(n) = 0
      BY <2>2, LeftType
  <2>4. expire[n] <= 0 * TIMESLOT + 0
      BY <2>1, <2>2, <2>3 DEF TimeLeft
  <2> QED BY <2>2, <2>4, TimesAreNaturals, WheelAssumption
<1> QED BY <1>1, <1>2, <1>3, WheelSound, PTL DEF Spec, NeverEarly
=============================================================================
