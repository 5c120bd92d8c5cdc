------------------------------ MODULE TimeWheel ------------------------------
(***************************************************************************)
(* The time wheel of timer/lst_timer.cpp and the alarm that drives it.     *)
(*                                                                         *)
(* The wheel has N slots; a timer lies in one of them with the number of   *)
(* turns it must still wait.  tick() visits the current slot and moves on. *)
(* It is called by timer_handler() when the event loop has read SIGALRM,   *)
(* which alarm(TIMESLOT) raises TIMESLOT seconds after the previous call;  *)
(* the loop may get to it late.  The list of a slot is a set here: no      *)
(* decision depends on its order, only the order in which tick() deletes   *)
(* the timers that are due, and that one is arbitrary.                     *)
(***************************************************************************)
EXTENDS Integers, Sequences, FiniteSets, MemoryPool

CONSTANTS
    N,          \* number of slots
    SI,         \* seconds per slot
    TIMESLOT,   \* seconds between two alarms
    Timeouts,   \* the arguments add_timer is called with
    MaxTimeout, \* bound: the largest of them
    MaxBlocks,  \* bound: blocks of timers the pool may obtain
    MaxDelay    \* bound: seconds the event loop may leave SIGALRM unread

ASSUME WheelAssumption ==
    /\ N \in Nat \ {0} /\ SI \in Nat \ {0} /\ TIMESLOT \in Nat \ {0}
    /\ MaxTimeout \in Nat /\ Timeouts \subseteq 0..MaxTimeout
    /\ MaxBlocks \in Nat /\ MaxDelay \in Nat

VARIABLES
    slots,      \* slots[s]: the timers of slot s
    cur_slot,   \* the current slot
    rotation,   \* rotation[n]: the turns timer n must still wait
    time_slot,  \* time_slot[n]: the slot timer n was put in
    expire,     \* expire[n]: the seconds until the time recorded in n, 0 once it is over
    pool,       \* util_timer::m_pool
    alarm,      \* seconds until SIGALRM
    late        \* seconds since SIGALRM

vars == <<slots, cur_slot, rotation, time_slot, expire, pool, alarm, late>>

Nodes == 1..(MaxBlocks * BlockSize)
Slots == 0..(N - 1)

\* The timers in the wheel.
Armed == UNION {slots[s] : s \in Slots}

TypeOK == /\ slots \in [Slots -> SUBSET Nodes]
          /\ cur_slot \in Slots
          /\ rotation \in [Nodes -> Nat]
          /\ time_slot \in [Nodes -> Slots]
          /\ expire \in [Nodes -> Nat]
          /\ pool \in Pools
          /\ alarm \in 0..TIMESLOT
          /\ late \in 0..MaxDelay

Init == /\ slots = [s \in Slots |-> {}]
        /\ cur_slot = 0
        /\ rotation = [n \in Nodes |-> 0]
        /\ time_slot = [n \in Nodes |-> 0]
        /\ expire = [n \in Nodes |-> 0]
        /\ pool = EmptyPool
        /\ alarm = TIMESLOT
        /\ late = 0

\* Fault: the tick in progress is counted as a whole one.
TicksOneLess(timeout) == IF timeout < SI THEN 0 ELSE timeout \div SI - 1

\* The ticks a timeout is worth: at least one.
Ticks(timeout) == IF timeout < SI THEN 1 ELSE timeout \div SI

\* The slot `ticks` ahead of the current one.
SlotAhead(ticks) == (cur_slot + (ticks % N)) % N

\* The turns a timer waits after the first visit of its slot.
Rotations(ticks) == ticks \div N

add_timer(timeout) ==
    LET n == Allocated(pool)
        ticks == Ticks(timeout)
        ts == SlotAhead(ticks)
    IN  /\ n \in Nodes
        /\ pool' = Allocate(pool)
        /\ rotation' = [rotation EXCEPT ![n] = Rotations(ticks)]
        /\ time_slot' = [time_slot EXCEPT ![n] = ts]
        /\ expire' = [expire EXCEPT ![n] = timeout]
        /\ slots' = [slots EXCEPT ![ts] = @ \cup {n}]
        /\ UNCHANGED <<cur_slot, alarm, late>>

\* Fault: the timer is freed but stays in its slot.
del_unlinked(n) ==
    /\ n \in Armed
    /\ pool' = Deallocate(pool, n)
    /\ UNCHANGED <<slots, cur_slot, rotation, time_slot, expire, alarm, late>>

\* Only timers that are in the wheel are deleted: the callers see to it.
del_timer(n) ==
    /\ n \in Armed
    /\ slots' = [slots EXCEPT ![time_slot[n]] = @ \ {n}]
    /\ pool' = Deallocate(pool, n)
    /\ expire' = [expire EXCEPT ![n] = 0]   \* freed: nobody reads it again
    /\ UNCHANGED <<cur_slot, rotation, time_slot, alarm, late>>

\* The timers of the current slot that wait for no further turn.
Expired == {n \in slots[cur_slot] : rotation[n] = 0}

\* Fault: a timer that waits for another turn is not counted down.
timer_handler_no_turn ==
    /\ alarm = 0
    /\ \E order \in Orders(Expired) : pool' = DeallocateAll(pool, order)
    /\ slots' = [slots EXCEPT ![cur_slot] = @ \ Expired]
    /\ expire' = [n \in Nodes |-> IF n \in Expired THEN 0 ELSE expire[n]]
    /\ cur_slot' = (cur_slot + 1) % N
    /\ alarm' = TIMESLOT
    /\ late' = 0
    /\ UNCHANGED <<rotation, time_slot>>

\* timer_handler(): tick() and the next alarm.  What the callbacks of the expired
\* timers do is in WebServer.
timer_handler ==
    /\ alarm = 0
    /\ \E order \in Orders(Expired) : pool' = DeallocateAll(pool, order)
    /\ slots' = [slots EXCEPT ![cur_slot] = @ \ Expired]
    /\ rotation' = [n \in Nodes |-> IF n \in slots[cur_slot] \ Expired
                                    THEN rotation[n] - 1 ELSE rotation[n]]
    /\ expire' = [n \in Nodes |-> IF n \in Expired THEN 0 ELSE expire[n]]
    /\ cur_slot' = (cur_slot + 1) % N
    /\ alarm' = TIMESLOT
    /\ late' = 0
    /\ UNCHANGED time_slot

\* A second passes.
Second ==
    /\ IF alarm > 0 THEN alarm' = alarm - 1 /\ UNCHANGED late
                    ELSE late < MaxDelay /\ late' = late + 1 /\ UNCHANGED alarm
    /\ expire' = [n \in Nodes |-> IF expire[n] > 0 THEN expire[n] - 1 ELSE 0]
    /\ UNCHANGED <<slots, cur_slot, rotation, time_slot, pool>>

Next == \/ \E timeout \in Timeouts : add_timer(timeout)
        \/ \E n \in Nodes : del_timer(n)
        \/ timer_handler
        \/ Second

Spec == Init /\ [][Next]_vars

\* Time passes and the event loop reads the signal.
FairSpec == Spec /\ WF_vars(Second) /\ WF_vars(timer_handler)

-----------------------------------------------------------------------------
(* Safety.                                                                 *)

\* del_timer finds a timer's list by the slot recorded in the timer
\* (lst_timer.cpp:88): the timer lies in that slot and in no other.
InItsSlot == \A s \in Slots : \A n \in slots[s] : time_slot[n] = s

\* No timer in the wheel is on the free list, none is lost, and none is freed
\* twice, whichever way it left the wheel (lst_timer.cpp:98, :107, :169, :184).
PoolSound == PoolSoundFor(pool, Armed)

\* Wheel, recorded slots and pool agree, across deletions and ticks
\* (lst_timer.cpp:81-192).
IInv == TypeOK /\ InItsSlot /\ PoolSound

\* A timer never goes off before the time recorded in it, however the adding of
\* the timer falls between two alarms (lst_timer.cpp:64): the tick in progress
\* may be about to end, and the wheel allows for it by one tick more.  How late it
\* goes off is another matter: TIMESLOT seconds for each tick it is worth.
NeverEarly == [][alarm' > alarm => \A n \in Expired : expire[n] = 0]_vars

\* Every timer in the wheel leaves it, by being deleted or by going off.
EveryTimerEnds == \A n \in Nodes : (n \in Armed) ~> (n \notin Armed)

-----------------------------------------------------------------------------
(* The wheel implements TimerService: the ticks a timer still survives are *)
(* its distance from the current slot and N for each turn it waits.        *)
Distance(s) == IF s >= cur_slot THEN s - cur_slot ELSE s - cur_slot + N

leftBar == [n \in Nodes |-> IF n \in Armed
                            THEN Distance(time_slot[n]) + N * rotation[n]
                            ELSE -1]

Service == INSTANCE TimerService
               WITH Timers <- Nodes,
                    Counts <- {Ticks(timeout) : timeout \in Timeouts},
                    left <- leftBar

\* Slots, turns and the modulo arithmetic of add_timer and tick
\* (lst_timer.cpp:51-55, :153-191) amount to a countdown.
ImplementsTimerService == Service!Spec
=============================================================================
