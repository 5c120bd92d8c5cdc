--------------------------- MODULE WebServerProofs ---------------------------
(***************************************************************************)
(* For every number of descriptors and workers, in both modes: the         *)
(* handlers of the event loop find a timer that is set and belongs to      *)
(* their descriptor, no timer is freed twice or left behind,               *)
(* m_user_count is never above the connections that are open, and, where   *)
(* requests end before their timers and workers do not close, a connection *)
(* has one owner at a time and gets the answers to its own requests.       *)
(***************************************************************************)
EXTENDS WebServer, MemoryPoolTheorems, FiniteSetTheorems

\* epoll_wait reports a descriptor once: a handler that closes it is not followed
\* by another handler of the same batch (webserver.cpp:402, :409).
BatchOnce == \A d, e \in batch : d[1] = e[1] => d = e

\* A timer that is set is one of the pool's objects in use, the loop's events have
\* timers, and an event is the only one of its descriptor.  TimerBound alone is
\* not inductive: freeing one timer must not free another descriptor's, which
\* PoolSound excludes, and closing a descriptor must leave none of its events,
\* which BatchOnce excludes.
IInv == TypeOK /\ PoolSound /\ TimerBound /\ BatchOnce

LEMMA NodesArePositive == Nodes \subseteq Nat \ {0}
BY BlockAssumption, ServerAssumption DEF Nodes

LEMMA ArmedIsFinite ==
    ASSUME NEW S \in SUBSET Nodes
    PROVE  IsFiniteSet(S) /\ Cardinality(S) \in Nat
<1>1. MaxBlocks * BlockSize \in Nat
    BY BlockAssumption, ServerAssumption
<1>2. IsFiniteSet(Nodes)
    BY <1>1, FS_Interval DEF Nodes
<1> QED BY <1>2, FS_Subset, FS_CardinalityType

\* adjust_timer gives back the object it freed: the pointer the caller holds is
\* still that of its timer (webserver.cpp:193-204).
LEMMA AdjustKeepsTimer ==
    ASSUME tm \in Timers, PoolSound, NEW n \in Armed, tm.user_data[n] \in Fds
    PROVE  /\ NewTimer(n) = n
           /\ Adjusted(n) \in Timers
           /\ Adjusted(n).pool = tm.pool
           /\ Adjusted(n).user_data = tm.user_data
           /\ Adjusted(n).left = [tm.left EXCEPT ![n] = Life]
<1>1. n \in Nodes /\ n \in Nat \ {0} /\ tm.pool \in Pools
    BY NodesArePositive DEF Armed, Timers
<1> DEFINE d == DelTimer(tm, n)
<1>2. /\ d.left = [tm.left EXCEPT ![n] = Off]
      /\ d.user_data = tm.user_data
      /\ d.pool = Deallocate(tm.pool, n)
    BY DEF DelTimer, Timers
<1>3. Allocated(d.pool) = n /\ Allocate(d.pool) = tm.pool
    BY <1>1, <1>2, AllocateAfterDeallocate
<1>4. Adjusted(n) = [left      |-> [d.left EXCEPT ![n] = Life],
                     user_data |-> [d.user_data EXCEPT ![n] = tm.user_data[n]],
                     pool      |-> tm.pool]
    BY <1>3 DEF Adjusted, AddTimer
<1>5. [d.left EXCEPT ![n] = Life] = [tm.left EXCEPT ![n] = Life]
    BY <1>1, <1>2 DEF Timers
<1>6. [d.user_data EXCEPT ![n] = tm.user_data[n]] = tm.user_data
    BY <1>1, <1>2 DEF Timers
<1>7. [tm.left EXCEPT ![n] = Life] \in [Nodes -> 0..Life \cup {Off}]
    BY <1>1, ServerAssumption DEF Timers
<1>8. Adjusted(n) = [left |-> [tm.left EXCEPT ![n] = Life],
                     user_data |-> tm.user_data, pool |-> tm.pool]
    BY <1>4, <1>5, <1>6
<1> QED BY <1>1, <1>3, <1>7, <1>8 DEF NewTimer, Timers

LEMMA InitIInv == Init => IInv
<1> SUFFICES ASSUME Init PROVE IInv
    OBVIOUS
<1>1. EmptyPool \in Pools /\ EmptyPool.free = <<>> /\ EmptyPool.blocks = 0
    BY DEF EmptyPool, Pools
<1>2. TypeOK
  <2>1. users \in [Fds -> HttpConns]
      BY DEF Init, HttpConns
  <2>2. tm \in Timers
    <3>1. tm = [left |-> [n \in Nodes |-> Off], user_data |-> [n \in Nodes |-> 0],
                pool |-> EmptyPool]
        BY DEF Init
    <3> QED BY <3>1, <1>1 DEF Timers
  <2>3. job \in [Workers -> Jobs]
      BY DEF Init, Jobs
  <2>4. queue \in Seq(Fds) /\ Len(queue) <= QueueCap
      BY ServerAssumption DEF Init
  <2>5. batch \in SUBSET (Fds \X Events)
      BY DEF Init
  <2>6. /\ conn \in [Fds -> Gens \cup {0}]
        /\ epoll \in [Fds -> {"none", "off", "in", "out"}]
        /\ users_timer \in [Fds -> Nodes \cup {0}]
      BY DEF Init
  <2>7. accepting \in BOOLEAN /\ timeout \in BOOLEAN
      BY Zenon DEF Init
  <2>8. m_user_count \in Int /\ accepted \in 0..MaxAccept
      BY ServerAssumption DEF Init
  <2> QED BY <2>1, <2>2, <2>3, <2>4, <2>5, <2>6, <2>7, <2>8 DEF TypeOK
<1>3. PoolSound
  <2>1. Armed = {}
      BY DEF Init, Armed
  <2>2. tm.pool = EmptyPool
      BY DEF Init
  <2>3. FreeObjects(EmptyPool) = {} /\ DOMAIN EmptyPool.free = {}
      BY <1>1 DEF FreeObjects
  <2>4. Objects(EmptyPool) = {}
      BY <1>1, BlockAssumption DEF Objects
  <2> QED BY <2>1, <2>2, <2>3, <2>4 DEF PoolSound, PoolSoundFor
<1>4. TimerBound /\ BatchOnce
    BY DEF Init, TimerBound, BatchOnce, BatchFds
<1> QED BY <1>2, <1>3, <1>4 DEF IInv

-----------------------------------------------------------------------------
(* What the parts of a handler do. *)

\* The descriptors TimerBound speaks of.
Known == {fd \in Fds : conn[fd] # 0 \/ epoll[fd] # "none" \/ fd \in BatchFds}

LEMMA KnownHasTimer ==
    ASSUME TypeOK, TimerBound, NEW fd \in Known
    PROVE  /\ users_timer[fd] \in Armed /\ users_timer[fd] \in Nodes
           /\ tm.user_data[users_timer[fd]] = fd
BY DEF TimerBound, Known, Armed

\* What does not touch timers and makes no descriptor known leaves them bound.
LEMMA TimersUntouched ==
    ASSUME PoolSound, TimerBound, UNCHANGED <<users_timer, tm>>, Known' \subseteq Known
    PROVE  PoolSound' /\ TimerBound'
<1>1. Armed' = Armed
    BY DEF Armed
<1>2. PoolSound'
    BY <1>1 DEF PoolSound
<1>3. TimerBound'
    BY <1>1 DEF TimerBound, Known
<1> QED BY <1>2, <1>3

LEMMA HandleTakesEvent ==
    ASSUME TypeOK, BatchOnce, NEW fd \in Fds, NEW ev \in Events, Handle(fd, ev)
    PROVE  /\ fd \in Known
           /\ batch' \in SUBSET (Fds \X Events)
           /\ BatchOnce'
           /\ BatchFds' \subseteq BatchFds \ {fd}
<1>1. <<fd, ev>> \in batch /\ batch' = batch \ {<<fd, ev>>}
    BY DEF Handle
<1>2. batch' \in SUBSET (Fds \X Events) /\ BatchOnce'
    BY <1>1 DEF TypeOK, BatchOnce
<1>3. fd \in Known
    BY <1>1 DEF Known, BatchFds
<1>4. ASSUME NEW g \in BatchFds' PROVE g \in BatchFds /\ g # fd
  <2>1. PICK e \in batch' : g = e[1]
      BY DEF BatchFds
  <2>2. e \in batch /\ e # <<fd, ev>>
      BY <1>1, <2>1
  <2>3. e[1] # fd
      BY <1>1, <2>2 DEF BatchOnce
  <2> QED BY <2>1, <2>2, <2>3 DEF BatchFds
<1> QED BY <1>2, <1>3, <1>4

\* A handler that closes its descriptor, whatever adjust_timer did before.
LEMMA DealTimerStep ==
    ASSUME IInv, NEW fd \in Fds, NEW ev \in Events, Handle(fd, ev),
           NEW t \in Timers, t.pool = tm.pool, t.user_data = tm.user_data,
           \A m \in Nodes : t.left[m] # Off <=> m \in Armed,
           deal_timer(t, fd, users_timer[fd]),
           UNCHANGED <<users, users_timer, work>>
    PROVE  IInv'
<1> DEFINE n == users_timer[fd]
<1> USE DEF IInv
<1>1. /\ fd \in Known
      /\ batch' \in SUBSET (Fds \X Events)
      /\ BatchOnce'
      /\ BatchFds' \subseteq BatchFds \ {fd}
    BY HandleTakesEvent
<1>2. n \in Armed /\ n \in Nodes /\ tm.user_data[n] = fd
    BY <1>1, KnownHasTimer
<1>3. /\ tm' = DelTimer(t, n)
      /\ conn' = [conn EXCEPT ![fd] = 0]
      /\ epoll' = [epoll EXCEPT ![fd] = "none"]
      /\ m_user_count' = m_user_count - 1
    BY DEF deal_timer, CloseFd
<1>4. /\ tm'.left = [t.left EXCEPT ![n] = Off]
      /\ tm'.user_data = tm.user_data
      /\ tm'.pool = Deallocate(tm.pool, n)
      /\ tm' = [left |-> tm'.left, user_data |-> tm'.user_data, pool |-> tm'.pool]
    BY <1>3 DEF DelTimer, Timers
<1>5. tm.pool \in Pools /\ PoolSoundFor(tm.pool, Armed)
    BY DEF TypeOK, Timers, PoolSound
<1>6. /\ tm'.pool \in Pools
      /\ PoolSoundFor(tm'.pool, Armed \ {n})
    BY <1>2, <1>4, <1>5, DeallocateSound
<1>7. Armed' = Armed \ {n}
    BY <1>2, <1>4 DEF Armed, Timers
<1>8. tm' \in Timers
  <2>1. tm'.left \in [Nodes -> 0..Life \cup {Off}]
      BY <1>2, <1>4 DEF Timers
  <2>2. tm'.user_data \in [Nodes -> Fds \cup {0}]
      BY <1>4 DEF TypeOK, Timers
  <2> QED BY <2>1, <2>2, <1>4, <1>6 DEF Timers
<1>9. TypeOK'
  <2>1. conn' \in [Fds -> Gens \cup {0}] /\ epoll' \in [Fds -> {"none", "off", "in", "out"}]
      BY <1>3 DEF TypeOK
  <2>2. /\ users' \in [Fds -> HttpConns] /\ users_timer' \in [Fds -> Nodes \cup {0}]
        /\ queue' \in Seq(Fds) /\ Len(queue') <= QueueCap
        /\ job' \in [Workers -> Jobs]
      BY DEF TypeOK, work
  <2>3. /\ accepting' \in BOOLEAN /\ timeout' \in BOOLEAN
        /\ accepted' \in 0..MaxAccept /\ m_user_count' \in Int
      BY <1>3 DEF TypeOK, Handle, loop
  <2> QED BY <2>1, <2>2, <2>3, <1>1, <1>8 DEF TypeOK
<1>10. TimerBound'
  <2> SUFFICES ASSUME NEW g \in Fds, conn'[g] # 0 \/ epoll'[g] # "none" \/ g \in BatchFds'
               PROVE  users_timer'[g] \in Armed' /\ tm'.user_data[users_timer'[g]] = g
      BY DEF TimerBound
  <2>1. g # fd
      BY <1>1, <1>3 DEF TypeOK
  <2>2. g \in Known
      BY <2>1, <1>1, <1>3 DEF Known, TypeOK
  <2>3. users_timer[g] \in Armed /\ tm.user_data[users_timer[g]] = g
      BY <2>2, KnownHasTimer
  <2>4. users_timer[g] # n
      BY <2>1, <2>3, <1>2
  <2> QED BY <2>3, <2>4, <1>4, <1>7
<1> QED BY <1>1, <1>6, <1>7, <1>9, <1>10 DEF PoolSound

\* A handler that keeps its connection and gives its timer a new life.
LEMMA AdjustStep ==
    ASSUME IInv, NEW fd \in Known, adjust_timer(users_timer[fd])
    PROVE  /\ tm' \in Timers
           /\ users_timer' = users_timer
           /\ tm'.user_data = tm.user_data
           /\ Armed' = Armed
           /\ PoolSound'
<1> DEFINE n == users_timer[fd]
<1>1. TypeOK /\ PoolSound /\ TimerBound
    BY DEF IInv
<1>2. n \in Armed /\ n \in Nodes /\ tm.user_data[n] = fd /\ fd \in Fds
    BY <1>1, KnownHasTimer DEF Known
<1>3. /\ NewTimer(n) = n
      /\ Adjusted(n) \in Timers
      /\ Adjusted(n).pool = tm.pool
      /\ Adjusted(n).user_data = tm.user_data
      /\ Adjusted(n).left = [tm.left EXCEPT ![n] = Life]
    BY <1>1, <1>2, AdjustKeepsTimer DEF TypeOK
<1>4. tm' = Adjusted(n) /\ users_timer' = [users_timer EXCEPT ![fd] = n]
    BY <1>2, <1>3 DEF adjust_timer
<1>5. users_timer' = users_timer
    BY <1>1, <1>2, <1>4 DEF TypeOK
<1>6. Armed' = Armed
    BY <1>1, <1>2, <1>3, <1>4, ServerAssumption DEF Armed, TypeOK, Timers, Off
<1>7. PoolSound'
    BY <1>1, <1>3, <1>4, <1>6 DEF PoolSound
<1> QED BY <1>3, <1>4, <1>5, <1>6, <1>7

LEMMA BoundAfterAdjust ==
    ASSUME TimerBound, users_timer' = users_timer, tm'.user_data = tm.user_data,
           Armed' = Armed, Known' \subseteq Known
    PROVE  TimerBound'
BY DEF TimerBound, Known

-----------------------------------------------------------------------------
(* The steps of the main thread. *)

LEMMA FailsStep ==
    ASSUME IInv, NEW fd \in Fds, NEW ev \in Events, Fails(fd, ev)
    PROVE  IInv'
<1> DEFINE n == users_timer[fd]
<1>1. TypeOK /\ PoolSound /\ TimerBound /\ BatchOnce /\ tm \in Timers
    BY DEF IInv, TypeOK
<1>2. Handle(fd, ev) /\ UNCHANGED <<users, work>>
    BY DEF Fails
<1>3. fd \in Known
    BY <1>1, <1>2, HandleTakesEvent
<1>4. n \in Armed /\ n \in Nodes /\ tm.user_data[n] = fd
    BY <1>1, <1>3, KnownHasTimer
<1>5. CASE Reactor
  <2> DEFINE t == Adjusted(n)
  <2>1. /\ NewTimer(n) = n /\ t \in Timers
        /\ t.pool = tm.pool /\ t.user_data = tm.user_data
        /\ t.left = [tm.left EXCEPT ![n] = Life]
      BY <1>1, <1>4, AdjustKeepsTimer
  <2>2. \A m \in Nodes : t.left[m] # Off <=> m \in Armed
      BY <1>1, <1>4, <2>1, ServerAssumption DEF Armed, Timers, Off
  <2>3. deal_timer(t, fd, n)
      BY <1>5 DEF Fails
  <2>4. users_timer' = users_timer
    <3>1. users_timer' = [users_timer EXCEPT ![tm.user_data[n]] = NewTimer(n)]
        BY <1>5 DEF Fails
    <3>2. users_timer' = [users_timer EXCEPT ![fd] = users_timer[fd]]
        BY <3>1, <2>1, <1>4
    <3> QED BY <3>2, <1>1 DEF TypeOK
  <2> HIDE DEF t
  <2> QED BY <1>2, <2>1, <2>2, <2>3, <2>4, DealTimerStep
<1>6. CASE ~Reactor
  <2>1. deal_timer(tm, fd, n) /\ users_timer' = users_timer
      BY <1>6 DEF Fails
  <2>2. \A m \in Nodes : tm.left[m] # Off <=> m \in Armed
      BY DEF Armed
  <2> QED BY <1>1, <1>2, <2>1, <2>2, DealTimerStep
<1> QED BY <1>5, <1>6

LEMMA HangUpStep ==
    ASSUME IInv, NEW fd \in Fds, HangUp(fd)
    PROVE  IInv'
<1>1. tm \in Timers /\ "hup" \in Events
    BY DEF IInv, TypeOK, Events
<1>2. /\ Handle(fd, "hup") /\ deal_timer(tm, fd, users_timer[fd])
      /\ UNCHANGED <<users, users_timer, work>>
    BY DEF HangUp
<1>3. \A m \in Nodes : tm.left[m] # Off <=> m \in Armed
    BY DEF Armed
<1> QED BY <1>1, <1>2, <1>3, DealTimerStep

\* The three handlers that keep the connection differ in users, epoll and queue.
LEMMA KeepStep ==
    ASSUME IInv, NEW fd \in Fds, NEW ev \in Events, Handle(fd, ev),
           adjust_timer(users_timer[fd]),
           UNCHANGED <<conn, job, m_user_count>>,
           users' \in [Fds -> HttpConns],
           epoll' \in [Fds -> {"none", "off", "in", "out"}],
           \A g \in Fds : epoll'[g] # "none" => epoll[g] # "none",
           queue' \in Seq(Fds), Len(queue') <= QueueCap
    PROVE  IInv'
<1>1. TypeOK /\ PoolSound /\ TimerBound /\ BatchOnce
    BY DEF IInv
<1>2. /\ fd \in Known
      /\ batch' \in SUBSET (Fds \X Events) /\ BatchOnce'
      /\ BatchFds' \subseteq BatchFds \ {fd}
    BY <1>1, HandleTakesEvent
<1>3. /\ tm' \in Timers
      /\ users_timer' = users_timer
      /\ tm'.user_data = tm.user_data
      /\ Armed' = Armed
      /\ PoolSound'
    BY <1>2, AdjustStep
<1>4. Known' \subseteq Known
    BY <1>2 DEF Known
<1>5. TimerBound'
    BY <1>1, <1>3, <1>4, BoundAfterAdjust
<1>6. TypeOK'
    BY <1>1, <1>2, <1>3 DEF TypeOK, Handle, loop
<1> QED BY <1>2, <1>3, <1>5, <1>6 DEF IInv

LEMMA ModfdType ==
    ASSUME TypeOK, NEW fd \in Fds, NEW ev \in {"in", "out"}, Modfd(fd, ev)
    PROVE  /\ epoll' \in [Fds -> {"none", "off", "in", "out"}]
           /\ \A g \in Fds : epoll'[g] # "none" => epoll[g] # "none"
BY DEF TypeOK, Modfd

LEMMA ReadOkStep ==
    ASSUME IInv, NEW fd \in Fds, ReadOk(fd)
    PROVE  IInv'
<1>1. TypeOK /\ "in" \in Events
    BY DEF IInv, Events
<1>2. users' \in [Fds -> HttpConns]
  <2>1. /\ users' = [users EXCEPT ![fd].request = IF @ = 0 THEN conn[fd] ELSE @]
        /\ users[fd] \in HttpConns /\ conn[fd] \in Gens \cup {0}
      BY <1>1 DEF ReadOk, TypeOK
  <2> QED BY <1>1, <2>1 DEF TypeOK, HttpConns
<1>3. queue' \in Seq(Fds) /\ Len(queue') <= QueueCap
    BY <1>1, ServerAssumption DEF ReadOk, Enqueue, TypeOK
<1>4. epoll' \in [Fds -> {"none", "off", "in", "out"}]
    BY <1>1 DEF ReadOk, TypeOK
<1> QED BY <1>1, <1>2, <1>3, <1>4, KeepStep DEF ReadOk

LEMMA WriteAgainStep ==
    ASSUME IInv, NEW fd \in Fds, WriteAgain(fd)
    PROVE  IInv'
<1>1. TypeOK /\ "out" \in Events
    BY DEF IInv, Events
<1>2. /\ epoll' \in [Fds -> {"none", "off", "in", "out"}]
      /\ \A g \in Fds : epoll'[g] # "none" => epoll[g] # "none"
    BY <1>1, ModfdType DEF WriteAgain
<1>3. users' \in [Fds -> HttpConns] /\ queue' \in Seq(Fds) /\ Len(queue') <= QueueCap
    BY <1>1 DEF WriteAgain, TypeOK, work
<1> QED BY <1>1, <1>2, <1>3, KeepStep DEF WriteAgain, work

LEMMA WriteDoneStep ==
    ASSUME IInv, NEW fd \in Fds, WriteDone(fd)
    PROVE  IInv'
<1>1. TypeOK /\ "out" \in Events
    BY DEF IInv, Events
<1>2. /\ epoll' \in [Fds -> {"none", "off", "in", "out"}]
      /\ \A g \in Fds : epoll'[g] # "none" => epoll[g] # "none"
    BY <1>1, ModfdType DEF WriteDone
<1>3. queue' \in Seq(Fds) /\ Len(queue') <= QueueCap
    BY <1>1 DEF WriteDone, TypeOK, work
<1>4. users' \in [Fds -> HttpConns]
    BY <1>1 DEF WriteDone, Reset, TypeOK, HttpConns
<1> QED BY <1>1, <1>2, <1>3, <1>4, KeepStep DEF WriteDone, work

LEMMA EpollWaitStep ==
    ASSUME IInv, epoll_wait
    PROVE  IInv'
<1>1. TypeOK /\ PoolSound /\ TimerBound /\ BatchOnce
    BY DEF IInv
<1> DEFINE Ready == {fd \in Fds : epoll[fd] \in {"in", "out"}}
<1>a. PICK S \in SUBSET Ready : \E hups \in SUBSET S :
          /\ batch' = {<<fd, IF fd \in hups THEN "hup" ELSE epoll[fd]>> : fd \in S}
          /\ epoll' = Disarm(S)
    BY DEF epoll_wait
<1>2. PICK hups \in SUBSET S :
          /\ batch' = {<<fd, IF fd \in hups THEN "hup" ELSE epoll[fd]>> : fd \in S}
          /\ epoll' = Disarm(S)
    BY <1>a
<1>3. BatchFds' = S
  <2>1. ASSUME NEW g \in BatchFds' PROVE g \in S
    <3>1. PICK e \in batch' : g = e[1]
        BY DEF BatchFds
    <3> QED BY <1>2, <3>1
  <2>2. ASSUME NEW g \in S PROVE g \in BatchFds'
    <3> DEFINE e == <<g, IF g \in hups THEN "hup" ELSE epoll[g]>>
    <3>1. e \in batch' /\ e[1] = g
        BY <1>2
    <3> QED BY <3>1 DEF BatchFds
  <2> QED BY <2>1, <2>2
<1>4. batch' \in SUBSET (Fds \X Events)
    BY <1>2 DEF Events
<1>5. BatchOnce'
    BY <1>2 DEF BatchOnce
<1>6. epoll' \in [Fds -> {"none", "off", "in", "out"}]
    BY <1>1, <1>2 DEF Disarm, TypeOK
<1>7. Known' \subseteq Known
    BY <1>2, <1>3 DEF Known, Disarm, epoll_wait
<1>8. PoolSound' /\ TimerBound'
    BY <1>1, <1>7, TimersUntouched DEF epoll_wait
<1>9. TypeOK'
  <2>1. accepting' \in BOOLEAN /\ timeout' \in BOOLEAN
      BY DEF epoll_wait
  <2>2. UNCHANGED <<conn, users, users_timer, tm, queue, job, m_user_count, accepted>>
      BY DEF epoll_wait, work
  <2> QED BY <1>1, <1>4, <1>6, <2>1, <2>2 DEF TypeOK
<1> QED BY <1>5, <1>8, <1>9 DEF IInv

LEMMA AcceptStep ==
    ASSUME IInv, NEW fd \in Fds, Accept(fd)
    PROVE  IInv'
<1> DEFINE n == Allocated(tm.pool)
<1>1. TypeOK /\ PoolSound /\ TimerBound /\ BatchOnce
    BY DEF IInv
<1>2. tm.pool \in Pools /\ PoolSoundFor(tm.pool, Armed) /\ n \in Nodes
    BY <1>1 DEF TypeOK, Timers, PoolSound, Accept
<1>3. /\ n \notin Armed
      /\ Allocate(tm.pool) \in Pools
      /\ PoolSoundFor(Allocate(tm.pool), Armed \cup {n})
    BY <1>2, AllocateSound
<1>4. /\ tm' = [left      |-> [tm.left EXCEPT ![n] = Life],
                user_data |-> [tm.user_data EXCEPT ![n] = fd],
                pool      |-> Allocate(tm.pool)]
      /\ users_timer' = [users_timer EXCEPT ![fd] = n]
      /\ conn' = [conn EXCEPT ![fd] = accepted + 1]
      /\ epoll' = [epoll EXCEPT ![fd] = "in"]
      /\ UNCHANGED <<batch, timeout, queue, job>>
    BY DEF Accept, AddTimer, work
<1>5. tm' \in Timers
    BY <1>1, <1>2, <1>3, <1>4, ServerAssumption DEF TypeOK, Timers
<1>6. Armed' = Armed \cup {n}
    BY <1>1, <1>2, <1>4, ServerAssumption DEF Armed, TypeOK, Timers, Off
<1>7. PoolSound'
    BY <1>3, <1>4, <1>6 DEF PoolSound
<1>8. TypeOK'
  <2>1. users' \in [Fds -> HttpConns]
      BY <1>1 DEF Accept, InitUser, TypeOK, HttpConns
  <2>2. accepted + 1 \in Gens /\ accepted' \in 0..MaxAccept
      BY <1>1, ServerAssumption DEF Accept, TypeOK, Gens
  <2>3. conn' \in [Fds -> Gens \cup {0}] /\ epoll' \in [Fds -> {"none", "off", "in", "out"}]
      BY <1>1, <1>4, <2>2 DEF TypeOK
  <2>4. users_timer' \in [Fds -> Nodes \cup {0}]
      BY <1>1, <1>2, <1>4 DEF TypeOK
  <2>5. accepting' \in BOOLEAN
      BY DEF Accept
  <2>6. m_user_count' \in Int
      BY <1>1 DEF Accept, TypeOK
  <2> QED BY <1>1, <1>4, <1>5, <2>1, <2>2, <2>3, <2>4, <2>5, <2>6 DEF TypeOK
<1>9. TimerBound'
  <2> SUFFICES ASSUME NEW g \in Fds, conn'[g] # 0 \/ epoll'[g] # "none" \/ g \in BatchFds'
               PROVE  users_timer'[g] \in Armed' /\ tm'.user_data[users_timer'[g]] = g
      BY DEF TimerBound
  <2>1. CASE g = fd
    <3>1. users_timer'[g] = n
        BY <1>1, <1>4, <2>1 DEF TypeOK
    <3>2. tm'.user_data[n] = fd
        BY <1>1, <1>2, <1>4 DEF TypeOK, Timers
    <3> QED BY <2>1, <3>1, <3>2, <1>6
  <2>2. CASE g # fd
    <3>1. g \in Known
        BY <1>1, <1>4, <2>2 DEF Known, TypeOK, BatchFds
    <3>2. users_timer[g] \in Armed /\ tm.user_data[users_timer[g]] = g
        BY <1>1, <3>1, KnownHasTimer
    <3>3. users_timer'[g] = users_timer[g] /\ users_timer[g] # n
        BY <1>1, <1>3, <1>4, <2>2, <3>2 DEF TypeOK
    <3>4. tm'.user_data[users_timer[g]] = tm.user_data[users_timer[g]]
        BY <1>1, <1>4, <3>2, <3>3 DEF TypeOK, Timers, Armed
    <3> QED BY <3>2, <3>3, <3>4, <1>6
  <2> QED BY <2>1, <2>2
<1>10. BatchOnce'
    BY <1>1, <1>4 DEF BatchOnce
<1> QED BY <1>7, <1>8, <1>9, <1>10 DEF IInv

LEMMA AcceptEndsStep ==
    ASSUME IInv, AcceptEnds
    PROVE  IInv'
<1>1. UNCHANGED <<conn, epoll, users, users_timer, tm, batch, timeout, queue, job,
                  m_user_count, accepted>> /\ accepting' = FALSE
    BY DEF AcceptEnds, work
<1>2. TypeOK' /\ BatchOnce'
    BY <1>1 DEF IInv, TypeOK, BatchOnce
<1>3. Known' = Known
    BY <1>1 DEF Known, BatchFds
<1> QED BY <1>1, <1>2, <1>3, TimersUntouched DEF IInv

LEMMA TimerHandlerStep ==
    ASSUME IInv, timer_handler
    PROVE  IInv'
<1>1. TypeOK /\ PoolSound /\ TimerBound /\ BatchOnce
    BY DEF IInv
<1>2. /\ batch = {} /\ batch' = {} /\ timeout' = FALSE
      /\ UNCHANGED <<users, users_timer, accepting, queue, job, accepted>>
    BY DEF timer_handler, work
<1>3. PICK order \in Orders(Due) :
          tm' = [tm EXCEPT !.left = [n \in Nodes |-> CountedDown(n)],
                           !.pool = DeallocateAll(@, order)]
    BY DEF timer_handler
<1>4. /\ tm'.left = [n \in Nodes |-> CountedDown(n)]
      /\ tm'.user_data = tm.user_data
      /\ tm'.pool = DeallocateAll(tm.pool, order)
      /\ tm' = [left |-> tm'.left, user_data |-> tm'.user_data, pool |-> tm'.pool]
    BY <1>1, <1>3 DEF TypeOK, Timers
<1>5. Due \subseteq Armed /\ Due \in SUBSET Nodes /\ Cardinality(Due) \in Nat
    BY ArmedIsFinite DEF Due, Armed
<1>6. tm.pool \in Pools /\ PoolSoundFor(tm.pool, Armed)
    BY <1>1 DEF TypeOK, Timers, PoolSound
<1>7. tm'.pool \in Pools /\ PoolSoundFor(tm'.pool, Armed \ Due)
    BY <1>4, <1>5, <1>6, DeallocateAllSound
<1>8. Armed' = Armed \ Due
    BY <1>1, <1>4, ServerAssumption DEF Armed, Due, CountedDown, TypeOK, Timers, Off
<1>9. tm' \in Timers
  <2>1. \A n \in Nodes : CountedDown(n) \in 0..Life \cup {Off}
      BY <1>1, ServerAssumption DEF CountedDown, TypeOK, Timers, Off
  <2> QED BY <1>1, <1>4, <1>7, <2>1 DEF TypeOK, Timers
<1>10. /\ conn' = [fd \in Fds |-> IF fd \in DueFds THEN 0 ELSE conn[fd]]
       /\ epoll' = [fd \in Fds |-> IF fd \in DueFds THEN "none" ELSE epoll[fd]]
       /\ m_user_count' = m_user_count - Cardinality(Due)
    BY DEF timer_handler, Callbacks
<1>11. TypeOK'
  <2>1. conn' \in [Fds -> Gens \cup {0}] /\ epoll' \in [Fds -> {"none", "off", "in", "out"}]
      BY <1>1, <1>10 DEF TypeOK
  <2>2. m_user_count' \in Int
      BY <1>1, <1>5, <1>10 DEF TypeOK
  <2>3. batch' \in SUBSET (Fds \X Events)
      BY <1>2
  <2> QED BY <1>1, <1>2, <1>9, <2>1, <2>2, <2>3 DEF TypeOK
<1>12. TimerBound'
  <2> SUFFICES ASSUME NEW g \in Fds, conn'[g] # 0 \/ epoll'[g] # "none" \/ g \in BatchFds'
               PROVE  users_timer'[g] \in Armed' /\ tm'.user_data[users_timer'[g]] = g
      BY DEF TimerBound
  <2>1. BatchFds' = {}
      BY <1>2 DEF BatchFds
  <2>2. g \notin DueFds /\ g \in Known
      BY <1>10, <2>1 DEF Known
  <2>3. users_timer[g] \in Armed /\ tm.user_data[users_timer[g]] = g
      BY <1>1, <2>2, KnownHasTimer
  <2>4. users_timer[g] \notin Due
      BY <2>2, <2>3 DEF DueFds
  <2> QED BY <1>2, <1>4, <1>8, <2>3, <2>4
<1>13. BatchOnce'
    BY <1>2 DEF BatchOnce
<1> QED BY <1>4, <1>7, <1>8, <1>11, <1>12, <1>13 DEF IInv, PoolSound

-----------------------------------------------------------------------------
(* The steps of a worker: none makes a descriptor known to the main thread. *)

LEMMA WorkerFrame ==
    ASSUME IInv, UNCHANGED main, TypeOK', Known' \subseteq Known
    PROVE  IInv'
<1>1. UNCHANGED <<users_timer, tm, batch>>
    BY DEF main
<1>2. BatchOnce'
    BY <1>1 DEF IInv, BatchOnce
<1> QED BY <1>1, <1>2, TimersUntouched DEF IInv

LEMMA BusyWorker ==
    ASSUME TypeOK, NEW w \in Workers, job[w].at \in Places
    PROVE  job[w] \in Serving /\ job[w].fd \in Fds
<1>1. job[w] # Idle /\ job[w] \notin Releasing
    BY DEF Idle, Places, Releasing
<1>2. job[w] \in Serving
    BY <1>1 DEF TypeOK, Jobs
<1> QED BY <1>2 DEF Serving

LEMMA GotoType ==
    ASSUME TypeOK, NEW w \in Workers, job[w].at \in Places, NEW p \in Places, Goto(w, p)
    PROVE  job' \in [Workers -> Jobs]
<1>1. job[w] \in Serving
    BY BusyWorker
<1>2. [job[w] EXCEPT !.at = p] \in Serving
    BY <1>1 DEF Serving
<1> QED BY <1>2 DEF Goto, TypeOK, Jobs

\* What a worker does to the registrations never registers a descriptor.
LEMMA WorkerStep ==
    ASSUME IInv, UNCHANGED main,
           conn' \in [Fds -> Gens \cup {0}],
           \A g \in Fds : conn'[g] # 0 => conn[g] # 0,
           epoll' \in [Fds -> {"none", "off", "in", "out"}],
           \A g \in Fds : epoll'[g] # "none" => epoll[g] # "none",
           users' \in [Fds -> HttpConns],
           job' \in [Workers -> Jobs],
           queue' \in Seq(Fds), Len(queue') <= QueueCap,
           m_user_count' \in Int
    PROVE  IInv'
<1>1. UNCHANGED <<users_timer, tm, batch, accepting, timeout, accepted>>
    BY DEF main, loop
<1>2. TypeOK'
    BY <1>1 DEF IInv, TypeOK
<1>3. Known' \subseteq Known
    BY <1>1 DEF Known, BatchFds
<1> QED BY <1>2, <1>3, WorkerFrame

LEMMA ProcessStep ==
    ASSUME IInv, NEW w \in Workers, Process(w)
    PROVE  IInv'
<1>1. TypeOK
    BY DEF IInv
<1>2. UNCHANGED main
    BY DEF Process, Take, Parse, Answer, CloseConn, ForgetConn, Arm, Release, Release
<1>3. /\ conn \in [Fds -> Gens \cup {0}]
      /\ epoll \in [Fds -> {"none", "off", "in", "out"}]
      /\ users \in [Fds -> HttpConns] /\ job \in [Workers -> Jobs]
      /\ queue \in Seq(Fds) /\ Len(queue) <= QueueCap
      /\ m_user_count \in Int /\ QueueCap \in Nat
    BY <1>1, ServerAssumption DEF TypeOK
<1>4. CASE Take(w)
  <2>1. /\ queue # <<>> /\ queue' = Tail(queue)
        /\ job' = [job EXCEPT ![w] = [at |-> "parse", fd |-> Head(queue), for |-> 0]]
        /\ UNCHANGED <<conn, epoll, users, m_user_count>>
      BY <1>4 DEF Take
  <2>2. Head(queue) \in Fds /\ queue' \in Seq(Fds) /\ Len(queue') <= QueueCap
      BY <1>3, <2>1
  <2>3. [at |-> "parse", fd |-> Head(queue), for |-> 0] \in Serving
      BY <2>2 DEF Serving, Places
  <2>4. job' \in [Workers -> Jobs]
      BY <1>3, <2>1, <2>3 DEF Jobs
  <2> QED BY <1>2, <1>3, <2>1, <2>2, <2>4, WorkerStep
<1>5. CASE Parse(w)
  <2>1. UNCHANGED <<conn, epoll, users, queue, m_user_count>> /\ job[w].at \in Places
      BY <1>5 DEF Parse, Places
  <2>2. job' \in [Workers -> Jobs]
    <3>1. CASE Goto(w, "arm_in")
        BY <1>1, <2>1, <3>1, GotoType DEF Places
    <3>2. CASE job' = [job EXCEPT ![w].at = "answer", ![w].for = users[job[w].fd].request]
      <4>1. job[w] \in Serving /\ users[job[w].fd].request \in Gens \cup {0}
          BY <1>1, <1>3, <2>1, BusyWorker DEF HttpConns
      <4>2. [job[w] EXCEPT !.at = "answer", !.for = users[job[w].fd].request] \in Serving
          BY <4>1 DEF Serving, Places
      <4> QED BY <1>3, <3>2, <4>2 DEF Jobs
    <3> QED BY <1>5, <3>1, <3>2 DEF Parse
  <2> QED BY <1>2, <1>3, <2>1, <2>2, WorkerStep
<1>6. CASE Answer(w)
  <2>1. UNCHANGED <<conn, epoll, queue, m_user_count>> /\ job[w].at \in Places
      BY <1>6 DEF Answer, Places
  <2>2. job' \in [Workers -> Jobs]
      BY <1>1, <1>6, <2>1, GotoType DEF Answer, Places
  <2>3. users' \in [Fds -> HttpConns]
    <3>1. job[w] \in Serving /\ job[w].fd \in Fds
        BY <1>1, <2>1, BusyWorker
    <3>2. [users[job[w].fd] EXCEPT !.reply = job[w].for] \in HttpConns
        BY <1>3, <3>1 DEF HttpConns, Serving
    <3> QED BY <1>3, <1>6, <3>1, <3>2 DEF Answer
  <2> QED BY <1>2, <1>3, <2>1, <2>2, <2>3, WorkerStep
<1>7. CASE CloseConn(w)
  <2>1. UNCHANGED <<users, queue, m_user_count>> /\ job[w].at \in Places
      BY <1>7 DEF CloseConn, Places
  <2>2. job' \in [Workers -> Jobs]
      BY <1>1, <1>7, <2>1, GotoType DEF CloseConn, Places
  <2>3. CASE CloseFd(job[w].fd)
      BY <1>2, <1>3, <2>1, <2>2, <2>3, WorkerStep DEF CloseFd
  <2>4. CASE UNCHANGED <<conn, epoll>>
      BY <1>2, <1>3, <2>1, <2>2, <2>4, WorkerStep
  <2> QED BY <1>7, <2>3, <2>4 DEF CloseConn
<1>8. CASE ForgetConn(w)
  <2>1. /\ UNCHANGED <<conn, epoll, queue>> /\ job[w].at \in Places
        /\ m_user_count' = m_user_count - 1
      BY <1>8 DEF ForgetConn, Places
  <2>2. job' \in [Workers -> Jobs]
      BY <1>1, <1>8, <2>1, GotoType DEF ForgetConn, Places
  <2>3. users' \in [Fds -> HttpConns]
      BY <1>3, <1>8 DEF ForgetConn, HttpConns
  <2> QED BY <1>2, <1>3, <2>1, <2>2, <2>3, WorkerStep
<1>9. CASE Arm(w)
  <2>1. UNCHANGED <<conn, users, queue, m_user_count>> /\ job[w].at \in Places
      BY <1>9 DEF Arm, Places
  <2>2. job[w] \in Serving /\ job[w].fd \in Fds
      BY <1>1, <2>1, BusyWorker
  <2>3. job' \in [Workers -> Jobs]
    <3>1. [job[w] EXCEPT !.at = "release", !.for = 0] \in Releasing
        BY <2>2 DEF Serving, Releasing
    <3> QED BY <1>3, <1>9, <3>1 DEF Arm, Jobs
  <2>4. /\ epoll' \in [Fds -> {"none", "off", "in", "out"}]
        /\ \A g \in Fds : epoll'[g] # "none" => epoll[g] # "none"
      BY <1>1, <1>9, <2>2, ModfdType DEF Arm
  <2> QED BY <1>2, <1>3, <2>1, <2>3, <2>4, WorkerStep
<1>10. CASE Release(w)
  <2>1. UNCHANGED <<conn, epoll, users, queue, m_user_count>> /\ job' \in [Workers -> Jobs]
      BY <1>3, <1>10 DEF Release, Jobs
  <2> QED BY <1>2, <1>3, <2>1, WorkerStep
<1> QED BY <1>4, <1>5, <1>6, <1>7, <1>8, <1>9, <1>10 DEF Process

-----------------------------------------------------------------------------
(* The theorems. *)

LEMMA NextIInv == IInv /\ [Next]_vars => IInv'
<1> SUFFICES ASSUME IInv, [Next]_vars PROVE IInv'
    OBVIOUS
<1>1. CASE epoll_wait
    BY <1>1, EpollWaitStep
<1>2. ASSUME NEW fd \in Fds, Accept(fd) PROVE IInv'
    BY <1>2, AcceptStep
<1>3. ASSUME NEW fd \in Fds, HandleOne(fd) PROVE IInv'
    BY <1>3, HangUpStep, ReadOkStep, FailsStep, WriteAgainStep, WriteDoneStep
    DEF HandleOne, ReadFails, WriteFails, Events
<1>4. CASE AcceptEnds
    BY <1>4, AcceptEndsStep
<1>5. CASE timer_handler
    BY <1>5, TimerHandlerStep
<1>6. ASSUME NEW w \in Workers, Process(w) PROVE IInv'
    BY <1>6, ProcessStep
<1>7. CASE UNCHANGED vars
  <2>1. UNCHANGED <<conn, epoll, users, users_timer, tm, batch, accepting, timeout,
                    queue, job, m_user_count, accepted>>
      BY <1>7 DEF vars
  <2>2. TypeOK'
      BY <2>1 DEF IInv, TypeOK
  <2>3. Known' = Known /\ BatchOnce'
      BY <2>1 DEF IInv, Known, BatchFds, BatchOnce
  <2> QED BY <2>1, <2>2, <2>3, TimersUntouched DEF IInv
<1> QED BY <1>1, <1>2, <1>3, <1>4, <1>5, <1>6, <1>7 DEF Next

LEMMA SpecIInv == Spec => []IInv
<1> QED BY InitIInv, NextIInv, PTL DEF Spec

\* The program never leaves its types: in particular the queue never exceeds
\* max_requests (threadpool.h:95, :114) and a worker's task names a descriptor.
THEOREM TypeCorrect == Spec => []TypeOK
<1>1. IInv => TypeOK
    BY DEF IInv
<1> QED BY <1>1, SpecIInv, PTL

\* Every handler of the event loop uses a timer that is set and is its
\* descriptor's own (webserver.cpp:303, :348, :423), although workers close
\* descriptors the kernel hands out again and ticks free timers.
THEOREM TimersBound == Spec => []TimerBound
<1>1. IInv => TimerBound
    BY DEF IInv
<1> QED BY <1>1, SpecIInv, PTL

\* No timer is freed twice, used after it was freed, or lost, also in Reactor mode,
\* where deal_timer is given a pointer that adjust_timer has freed
\* (webserver.cpp:303, :308, :327).
THEOREM TimersSound == Spec => []PoolSound
<1>1. IInv => PoolSound
    BY DEF IInv
<1> QED BY <1>1, SpecIInv, PTL

-----------------------------------------------------------------------------
(* What the steps do to timers and connections, as the further invariants  *)
(* need to know it.                                                        *)

LEMMA CloseEffect ==
    ASSUME IInv, NEW fd \in Fds, HangUp(fd) \/ ReadFails(fd) \/ WriteFails(fd)
    PROVE  /\ fd \in BatchFds /\ batch' \subseteq batch /\ fd \notin BatchFds'
           /\ users_timer[fd] \in Armed /\ tm.user_data[users_timer[fd]] = fd
           /\ Armed' = Armed \ {users_timer[fd]}
           /\ tm'.user_data = tm.user_data /\ users_timer' = users_timer
           /\ conn' = [conn EXCEPT ![fd] = 0]
           /\ epoll' = [epoll EXCEPT ![fd] = "none"]
           /\ m_user_count' = m_user_count - 1
           /\ UNCHANGED <<users, queue, job>>
<1> DEFINE n == users_timer[fd]
<1>1. TypeOK /\ PoolSound /\ TimerBound /\ BatchOnce /\ tm \in Timers
    BY DEF IInv, TypeOK
<1>2. PICK ev \in Events : Handle(fd, ev) /\ ((ev = "hup" /\ HangUp(fd)) \/ Fails(fd, ev))
    BY DEF HangUp, ReadFails, WriteFails, Fails, Events
<1>3. fd \in Known /\ fd \notin BatchFds'
    BY <1>1, <1>2, HandleTakesEvent
<1>4. fd \in BatchFds /\ batch' \subseteq batch
    BY <1>2 DEF Handle, BatchFds
<1>5. n \in Armed /\ n \in Nodes /\ tm.user_data[n] = fd
    BY <1>1, <1>3, KnownHasTimer
<1>6. PICK t \in Timers : /\ t.user_data = tm.user_data
                          /\ \A m \in Nodes : t.left[m] # Off <=> m \in Armed
                          /\ deal_timer(t, fd, n)
                          /\ users_timer' = users_timer
  <2>1. \A m \in Nodes : tm.left[m] # Off <=> m \in Armed
      BY DEF Armed
  <2>2. CASE ev = "hup" /\ HangUp(fd)
      BY <1>1, <2>1, <2>2 DEF HangUp
  <2>3. CASE Fails(fd, ev) /\ ~Reactor
      BY <1>1, <2>1, <2>3 DEF Fails
  <2>4. CASE Fails(fd, ev) /\ Reactor
    <3> DEFINE t == Adjusted(n)
    <3>1. /\ NewTimer(n) = n /\ t \in Timers /\ t.user_data = tm.user_data
          /\ t.left = [tm.left EXCEPT ![n] = Life]
        BY <1>1, <1>5, AdjustKeepsTimer
    <3>2. \A m \in Nodes : t.left[m] # Off <=> m \in Armed
        BY <1>1, <1>5, <3>1, ServerAssumption DEF Armed, Timers, Off
    <3>3. deal_timer(t, fd, n)
        BY <2>4 DEF Fails
    <3>4. users_timer' = [users_timer EXCEPT ![tm.user_data[n]] = NewTimer(n)]
        BY <2>4 DEF Fails
    <3>5. users_timer' = [users_timer EXCEPT ![fd] = users_timer[fd]]
        BY <3>1, <3>4, <1>5
    <3>6. users_timer' = users_timer
        BY <3>5, <1>1 DEF TypeOK
    <3> HIDE DEF t
    <3> QED BY <3>1, <3>2, <3>3, <3>6
  <2> QED BY <1>2, <2>2, <2>3, <2>4
<1>7. /\ tm' = DelTimer(t, n)
      /\ conn' = [conn EXCEPT ![fd] = 0] /\ epoll' = [epoll EXCEPT ![fd] = "none"]
      /\ m_user_count' = m_user_count - 1
    BY <1>6 DEF deal_timer, CloseFd
<1>8. tm'.left = [t.left EXCEPT ![n] = Off] /\ tm'.user_data = tm.user_data
    BY <1>6, <1>7 DEF DelTimer, Timers
<1>9. Armed' = Armed \ {n}
    BY <1>5, <1>6, <1>8 DEF Armed, Timers
<1>10. UNCHANGED <<users, queue, job>>
    BY <1>2 DEF HangUp, Fails, work
<1> QED BY <1>3, <1>4, <1>5, <1>6, <1>7, <1>8, <1>9, <1>10

LEMMA KeepEffect ==
    ASSUME IInv, NEW fd \in Fds, ReadOk(fd) \/ WriteAgain(fd) \/ WriteDone(fd)
    PROVE  /\ fd \in BatchFds /\ batch' \subseteq batch /\ fd \notin BatchFds'
           /\ Armed' = Armed
           /\ tm'.user_data = tm.user_data /\ users_timer' = users_timer
           /\ UNCHANGED <<conn, job, m_user_count>>
<1>1. TypeOK /\ BatchOnce
    BY DEF IInv
<1>2. PICK ev \in Events : Handle(fd, ev)
    BY DEF ReadOk, WriteAgain, WriteDone, Events
<1>3. fd \in Known /\ fd \notin BatchFds'
    BY <1>1, <1>2, HandleTakesEvent
<1>4. fd \in BatchFds /\ batch' \subseteq batch
    BY <1>2 DEF Handle, BatchFds
<1>5. adjust_timer(users_timer[fd]) /\ UNCHANGED <<conn, job, m_user_count>>
    BY DEF ReadOk, WriteAgain, WriteDone, work
<1> QED BY <1>3, <1>4, <1>5, AdjustStep

LEMMA AcceptEffect ==
    ASSUME IInv, NEW fd \in Fds, Accept(fd)
    PROVE  /\ conn[fd] = 0 /\ accepted + 1 \in Nat \ {0}
           /\ conn' = [conn EXCEPT ![fd] = accepted + 1]
           /\ epoll' = [epoll EXCEPT ![fd] = "in"]
           /\ users' = [users EXCEPT ![fd] = [sock |-> TRUE, request |-> 0, reply |-> 0]]
           /\ m_user_count' = m_user_count + 1
           /\ Allocated(tm.pool) \in Nodes \ Armed
           /\ Armed' = Armed \cup {Allocated(tm.pool)}
           /\ tm'.user_data = [tm.user_data EXCEPT ![Allocated(tm.pool)] = fd]
           /\ users_timer' = [users_timer EXCEPT ![fd] = Allocated(tm.pool)]
           /\ UNCHANGED <<batch, queue, job>>
<1> DEFINE n == Allocated(tm.pool)
<1>1. TypeOK /\ tm.pool \in Pools /\ PoolSoundFor(tm.pool, Armed) /\ n \in Nodes
    BY DEF IInv, TypeOK, Timers, PoolSound, Accept
<1>2. n \notin Armed
    BY <1>1, AllocateSound
<1>3. /\ tm' = [left      |-> [tm.left EXCEPT ![n] = Life],
                user_data |-> [tm.user_data EXCEPT ![n] = fd],
                pool      |-> Allocate(tm.pool)]
      /\ users_timer' = [users_timer EXCEPT ![fd] = n]
      /\ UNCHANGED <<batch, queue, job>>
    BY DEF Accept, AddTimer, work
<1>4. Armed' = Armed \cup {n}
    BY <1>1, <1>3, ServerAssumption DEF Armed, TypeOK, Timers, Off
<1> QED BY <1>1, <1>2, <1>3, <1>4 DEF Accept, InitUser, TypeOK

LEMMA TickEffect ==
    ASSUME IInv, timer_handler
    PROVE  /\ batch = {} /\ batch' = {}
           /\ Due \subseteq Armed /\ Armed' = Armed \ Due
           /\ tm'.user_data = tm.user_data
           /\ conn' = [fd \in Fds |-> IF fd \in DueFds THEN 0 ELSE conn[fd]]
           /\ epoll' = [fd \in Fds |-> IF fd \in DueFds THEN "none" ELSE epoll[fd]]
           /\ m_user_count' = m_user_count - Cardinality(Due)
           /\ SlowWorkers \/ DueFds \cap Busy = {}
           /\ UNCHANGED <<users, users_timer, queue, job>>
<1>1. tm \in Timers
    BY DEF IInv, TypeOK
<1>2. PICK order \in Orders(Due) :
          tm' = [tm EXCEPT !.left = [n \in Nodes |-> CountedDown(n)],
                           !.pool = DeallocateAll(@, order)]
    BY DEF timer_handler
<1>3. tm'.left = [n \in Nodes |-> CountedDown(n)] /\ tm'.user_data = tm.user_data
    BY <1>1, <1>2 DEF Timers
<1>4. Armed' = Armed \ Due /\ Due \subseteq Armed
    BY <1>1, <1>3, ServerAssumption DEF Armed, Due, CountedDown, Timers, Off
<1>5. UNCHANGED <<users, users_timer, batch, queue, job>> /\ batch = {}
    BY DEF timer_handler, work
<1> QED BY <1>3, <1>4, <1>5 DEF timer_handler, Callbacks

\* The other steps leave the timers and the count of connections alone.
LEMMA OtherEffect ==
    ASSUME epoll_wait \/ AcceptEnds \/ (\E w \in Workers : Process(w)) \/ UNCHANGED vars
    PROVE  /\ Armed' = Armed /\ tm'.user_data = tm.user_data
           /\ UNCHANGED <<tm, users_timer>>
<1>1. UNCHANGED <<tm, users_timer>>
    BY DEF epoll_wait, AcceptEnds, Process, Take, Parse, Answer, CloseConn, ForgetConn, Arm, Release, main,
           vars
<1> QED BY <1>1 DEF Armed

-----------------------------------------------------------------------------
(* Timers and the count of connections. *)

\* Without an answer that exceeds the buffer no worker is on its way to close
\* (http_conn.cpp:788-790).
NoClosing == ~WorkersMayClose =>
    \A w \in Workers : job[w].at \notin {"close", "forget"}

\* Only the worker's own job changes, and how.
LEMMA GotoMoves ==
    ASSUME TypeOK, NEW w \in Workers, NEW p \in Places, Goto(w, p)
    PROVE  /\ job'[w].at = p /\ job'[w].fd = job[w].fd /\ job'[w].for = job[w].for
           /\ \A v \in Workers : v # w => job'[v] = job[v]
<1>1. job'[w] = [job[w] EXCEPT !.at = p]
    BY DEF Goto, TypeOK
<1>2. job[w] \in Jobs
    BY DEF TypeOK
<1>3. job'[w].at = p /\ job'[w].fd = job[w].fd /\ job'[w].for = job[w].for
    BY <1>1, <1>2 DEF Jobs, Idle, Serving, Releasing
<1> QED BY <1>3 DEF Goto, TypeOK

LEMMA OthersStay ==
    ASSUME TypeOK, NEW w \in Workers, Process(w), NEW v \in Workers, v # w
    PROVE  job'[v] = job[v]
BY DEF TypeOK, Process, Take, Parse, Answer, CloseConn, ForgetConn, Arm, Release, Goto

LEMMA ParseMoves ==
    ASSUME TypeOK, NEW w \in Workers, Parse(w)
    PROVE  /\ job'[w].fd = job[w].fd
           /\ \/ job'[w].at = "arm_in"
              \/ /\ job'[w].at = "answer"
                 /\ job'[w].for = users[job[w].fd].request
                 /\ users[job[w].fd].request # 0
<1>1. CASE Goto(w, "arm_in")
    BY <1>1, GotoMoves DEF Places
<1>2. CASE /\ users[job[w].fd].request # 0
           /\ job' = [job EXCEPT ![w].at = "answer", ![w].for = users[job[w].fd].request]
  <2>1. job'[w] = [job[w] EXCEPT !.at = "answer", !.for = users[job[w].fd].request]
      BY <1>2 DEF TypeOK
  <2>2. job[w] \in Jobs
      BY DEF TypeOK
  <2>3. /\ job'[w].fd = job[w].fd /\ job'[w].at = "answer"
        /\ job'[w].for = users[job[w].fd].request
      BY <2>1, <2>2 DEF Jobs, Idle, Serving, Releasing
  <2> QED BY <1>2, <2>3
<1> QED BY <1>1, <1>2 DEF Parse

LEMMA TakeMoves ==
    ASSUME TypeOK, NEW w \in Workers, Take(w)
    PROVE  job'[w].at = "parse" /\ job'[w].fd = Head(queue) /\ job'[w].for = 0
<1>1. job'[w] = [at |-> "parse", fd |-> Head(queue), for |-> 0]
    BY DEF Take, TypeOK
<1> QED BY <1>1

LEMMA ArmMoves ==
    ASSUME TypeOK, NEW w \in Workers, Arm(w)
    PROVE  job'[w].at = "release" /\ job'[w].fd = job[w].fd
<1>1. job[w] \in Serving
    BY BusyWorker DEF Arm, Places
<1>2. job'[w] = [job[w] EXCEPT !.at = "release", !.for = 0]
    BY DEF Arm, TypeOK
<1> QED BY <1>1, <1>2 DEF Serving

LEMMA ReleaseMoves ==
    ASSUME TypeOK, NEW w \in Workers, Release(w)
    PROVE  job[w].at = "release" /\ job'[w].at = "idle"
BY DEF Release, TypeOK, Idle

LEMMA LoopKeepsJobs ==
    ASSUME IInv, \/ \E fd \in Fds : Accept(fd) \/ HandleOne(fd)
                 \/ epoll_wait \/ AcceptEnds \/ timer_handler \/ UNCHANGED vars
    PROVE  job' = job
<1>1. ASSUME NEW fd \in Fds, Accept(fd) \/ HandleOne(fd) PROVE job' = job
    BY <1>1, CloseEffect, KeepEffect, AcceptEffect DEF HandleOne
<1>2. ASSUME epoll_wait \/ AcceptEnds \/ timer_handler \/ UNCHANGED vars PROVE job' = job
    BY <1>2, TickEffect DEF epoll_wait, AcceptEnds, work, vars
<1> QED BY <1>1, <1>2

LEMMA NoClosingStep == ASSUME IInv, NoClosing, [Next]_vars PROVE NoClosing'
<1> SUFFICES ASSUME ~WorkersMayClose, NEW w \in Workers
             PROVE  job'[w].at \notin {"close", "forget"}
    BY DEF NoClosing
<1>1. TypeOK /\ \A v \in Workers : job[v].at \notin {"close", "forget"}
    BY DEF IInv, NoClosing
<1>2. CASE job' = job
    BY <1>1, <1>2
<1>3. ASSUME NEW v \in Workers, Process(v), w # v PROVE job'[w].at \notin {"close", "forget"}
    BY <1>1, <1>3, OthersStay
<1>4. CASE Process(w)
  <2>1. CASE Take(w)
      BY <1>1, <2>1, TakeMoves
  <2>2. CASE Parse(w)
      BY <1>1, <2>2, ParseMoves
  <2>3. CASE Answer(w)
      BY <1>1, <2>3, GotoMoves DEF Answer, Places
  <2>4. CASE Arm(w)
      BY <1>1, <2>4, ArmMoves
  <2>5. CASE Release(w)
      BY <1>1, <2>5, ReleaseMoves
  <2> QED BY <1>1, <1>4, <2>1, <2>2, <2>3, <2>4, <2>5 DEF Process, CloseConn, ForgetConn
<1> QED BY <1>2, <1>3, <1>4, LoopKeepsJobs DEF Next

\* A worker closes a descriptor only by close_conn.
LEMMA WorkerKeepsConn ==
    ASSUME NEW w \in Workers, Process(w), job[w].at # "close" PROVE conn' = conn
BY DEF Process, Take, Parse, Answer, CloseConn, ForgetConn, Arm, Release, Release

\* A timer that is set belongs to a descriptor (webserver.cpp:178-183).
TimersOfFds == \A n \in Armed : tm.user_data[n] \in Fds

LEMMA TimersOfFdsStep == ASSUME IInv, TimersOfFds, [Next]_vars PROVE TimersOfFds'
<1>1. tm \in Timers
    BY DEF IInv, TypeOK
<1>2. ASSUME NEW fd \in Fds, Accept(fd) PROVE TimersOfFds'
  <2> DEFINE n == Allocated(tm.pool)
  <2>1. /\ n \in Nodes \ Armed /\ Armed' = Armed \cup {n}
        /\ tm'.user_data = [tm.user_data EXCEPT ![n] = fd]
      BY <1>2, AcceptEffect
  <2> HIDE DEF n
  <2>2. \A m \in Nodes : tm'.user_data[m] = IF m = n THEN fd ELSE tm.user_data[m]
      BY <1>1, <2>1 DEF Timers
  <2>3. Armed' \subseteq Nodes
      BY DEF Armed
  <2> QED BY <2>1, <2>2, <2>3 DEF TimersOfFds
<1>3. ASSUME NEW fd \in Fds, HandleOne(fd) PROVE TimersOfFds'
    BY <1>3, CloseEffect, KeepEffect DEF HandleOne, TimersOfFds
<1>4. CASE timer_handler
    BY <1>4, TickEffect DEF TimersOfFds
<1>5. CASE epoll_wait \/ AcceptEnds \/ (\E w \in Workers : Process(w)) \/ UNCHANGED vars
    BY <1>5, OtherEffect DEF TimersOfFds
<1> QED BY <1>2, <1>3, <1>4, <1>5 DEF Next

LEMMA NoOrphanStep ==
    ASSUME IInv, NoClosing, TimersOfFds, NoOrphanTimer, [Next]_vars PROVE NoOrphanTimer'
<1> SUFFICES ASSUME ~WorkersMayClose, NEW m \in Armed'
             PROVE  conn'[tm'.user_data[m]] # 0 /\ users_timer'[tm'.user_data[m]] = m
    BY DEF NoOrphanTimer
<1>1. TypeOK /\ tm \in Timers
    BY DEF IInv, TypeOK
<1>2. \A n \in Armed : conn[tm.user_data[n]] # 0 /\ users_timer[tm.user_data[n]] = n
    BY DEF NoOrphanTimer
<1>3. \A n \in Armed : n \in Nodes /\ tm.user_data[n] \in Fds
    BY DEF Armed, TimersOfFds
<1>4. ASSUME NEW fd \in Fds, HangUp(fd) \/ ReadFails(fd) \/ WriteFails(fd)
      PROVE  conn'[tm'.user_data[m]] # 0 /\ users_timer'[tm'.user_data[m]] = m
  <2>1. /\ users_timer[fd] \in Armed /\ tm.user_data[users_timer[fd]] = fd
        /\ Armed' = Armed \ {users_timer[fd]}
        /\ tm'.user_data = tm.user_data /\ users_timer' = users_timer
        /\ conn' = [conn EXCEPT ![fd] = 0]
      BY <1>4, CloseEffect
  <2>2. m \in Armed /\ tm.user_data[m] # fd
      BY <1>2, <2>1
  <2> QED BY <1>1, <1>2, <2>1, <2>2 DEF TypeOK
<1>5. ASSUME NEW fd \in Fds, ReadOk(fd) \/ WriteAgain(fd) \/ WriteDone(fd)
      PROVE  conn'[tm'.user_data[m]] # 0 /\ users_timer'[tm'.user_data[m]] = m
    BY <1>2, <1>5, KeepEffect
<1>6. ASSUME NEW fd \in Fds, Accept(fd)
      PROVE  conn'[tm'.user_data[m]] # 0 /\ users_timer'[tm'.user_data[m]] = m
  <2> DEFINE n == Allocated(tm.pool)
  <2>1. /\ conn[fd] = 0 /\ accepted + 1 # 0
        /\ conn' = [conn EXCEPT ![fd] = accepted + 1]
        /\ n \in Nodes \ Armed
        /\ Armed' = Armed \cup {n}
        /\ tm'.user_data = [tm.user_data EXCEPT ![n] = fd]
        /\ users_timer' = [users_timer EXCEPT ![fd] = n]
      BY <1>6, AcceptEffect
  <2> HIDE DEF n
  <2>2. CASE m = n
      BY <1>1, <2>1, <2>2 DEF TypeOK, Timers
  <2>3. CASE m # n
    <3>1. m \in Armed /\ tm'.user_data[m] = tm.user_data[m] /\ tm.user_data[m] # fd
        BY <1>1, <1>2, <1>3, <2>1, <2>3 DEF Timers
    <3> QED BY <1>1, <1>2, <2>1, <3>1 DEF TypeOK
  <2> QED BY <2>2, <2>3
<1>7. CASE timer_handler
  <2>1. /\ Armed' = Armed \ Due /\ Due \subseteq Armed
        /\ tm'.user_data = tm.user_data /\ users_timer' = users_timer
        /\ conn' = [fd \in Fds |-> IF fd \in DueFds THEN 0 ELSE conn[fd]]
      BY <1>7, TickEffect
  <2>2. m \in Armed /\ m \notin Due
      BY <2>1
  <2>3. tm.user_data[m] \notin DueFds
      BY <1>2, <2>1, <2>2 DEF DueFds
  <2>4. tm.user_data[m] \in Fds
      BY <1>3, <2>2
  <2> QED BY <1>2, <2>1, <2>2, <2>3, <2>4
<1>8. CASE epoll_wait \/ AcceptEnds \/ (\E w \in Workers : Process(w)) \/ UNCHANGED vars
  <2>1. conn' = conn
      BY <1>8, WorkerKeepsConn DEF epoll_wait, AcceptEnds, NoClosing, vars
  <2> QED BY <1>2, <1>8, <2>1, OtherEffect
<1> QED BY <1>4, <1>5, <1>6, <1>7, <1>8 DEF Next, HandleOne

-----------------------------------------------------------------------------
(* Counting connections. *)

LEMMA OpenFinite == IsFiniteSet(Open) /\ Cardinality(Open) \in Nat
BY ServerAssumption, FS_Subset, FS_CardinalityType DEF Open

LEMMA OpenAfterClose ==
    ASSUME TypeOK, NEW fd \in Fds, conn' = [conn EXCEPT ![fd] = 0]
    PROVE  /\ Open' = Open \ {fd}
           /\ Cardinality(Open') = IF conn[fd] # 0 THEN Cardinality(Open) - 1
                                                  ELSE Cardinality(Open)
<1>1. Open' = Open \ {fd}
    BY DEF Open, TypeOK
<1>2. fd \in Open <=> conn[fd] # 0
    BY DEF Open
<1> QED BY <1>1, <1>2, OpenFinite, FS_RemoveElement

LEMMA OpenAfterAccept ==
    ASSUME IInv, NEW fd \in Fds, Accept(fd)
    PROVE  Cardinality(Open') = Cardinality(Open) + 1
<1>1. conn[fd] = 0 /\ accepted + 1 # 0 /\ conn' = [conn EXCEPT ![fd] = accepted + 1]
    BY AcceptEffect
<1>2. Open' = Open \cup {fd} /\ fd \notin Open
    BY <1>1 DEF Open, IInv, TypeOK
<1> QED BY <1>2, OpenFinite, FS_AddElement

\* A tick closes at most as many connections as it discounts, and as many when the
\* timers that are due have connections of their own.
LEMMA OpenAfterTick ==
    ASSUME IInv, TimersOfFds, timer_handler
    PROVE  /\ Cardinality(Due) \in Nat
           /\ Cardinality(Open) - Cardinality(Due) <= Cardinality(Open')
           /\ (\A n \in Armed : conn[tm.user_data[n]] # 0 /\ users_timer[tm.user_data[n]] = n)
                  => Cardinality(Open') = Cardinality(Open) - Cardinality(Due)
<1> DEFINE f == [n \in Due |-> tm.user_data[n]]
<1>1. Due \subseteq Armed /\ conn' = [fd \in Fds |-> IF fd \in DueFds THEN 0 ELSE conn[fd]]
    BY TickEffect
<1>2. IsFiniteSet(Due) /\ Cardinality(Due) \in Nat
    BY ArmedIsFinite DEF Due, Armed
<1>3. f \in Surjection(Due, DueFds)
    BY DEF Surjection, DueFds
<1>4. /\ IsFiniteSet(DueFds) /\ Cardinality(DueFds) <= Cardinality(Due)
      /\ f \in Injection(Due, DueFds) => Cardinality(DueFds) = Cardinality(Due)
    BY <1>2, <1>3, FS_Surjection
<1>5. Cardinality(DueFds) \in Nat
    BY <1>4, FS_CardinalityType
<1>6. Open' = Open \ DueFds
    BY <1>1 DEF Open
<1>7. Cardinality(Open') = Cardinality(Open) - Cardinality(Open \cap DueFds)
    BY <1>6, OpenFinite, FS_Difference
<1>8. Cardinality(Open \cap DueFds) <= Cardinality(DueFds) /\ Cardinality(Open \cap DueFds) \in Nat
    BY <1>4, FS_Intersection, FS_CardinalityType
<1>9. ASSUME \A n \in Armed : conn[tm.user_data[n]] # 0 /\ users_timer[tm.user_data[n]] = n
      PROVE  Cardinality(Open') = Cardinality(Open) - Cardinality(Due)
  <2>1. f \in Injection(Due, DueFds)
      BY <1>1, <1>3, <1>9 DEF Injection, IsInjective, Surjection
  <2>2. DueFds \subseteq Open
      BY <1>1, <1>9 DEF DueFds, Open, TimersOfFds
  <2>3. Open \cap DueFds = DueFds
      BY <2>2
  <2> QED BY <1>4, <1>7, <2>1, <2>3
<1> QED BY <1>2, <1>4, <1>5, <1>7, <1>8, <1>9, OpenFinite

LEMMA CountExactStep ==
    ASSUME IInv, NoClosing, TimersOfFds, NoOrphanTimer, CountExact, [Next]_vars
    PROVE  CountExact'
<1> SUFFICES ASSUME ~WorkersMayClose PROVE m_user_count' = Cardinality(Open')
    BY DEF CountExact
<1>1. TypeOK /\ m_user_count = Cardinality(Open)
    BY DEF IInv, CountExact
<1>2. \A n \in Armed : conn[tm.user_data[n]] # 0 /\ users_timer[tm.user_data[n]] = n
    BY DEF NoOrphanTimer
<1>3. ASSUME NEW fd \in Fds, HangUp(fd) \/ ReadFails(fd) \/ WriteFails(fd)
      PROVE  m_user_count' = Cardinality(Open')
  <2>1. /\ users_timer[fd] \in Armed /\ tm.user_data[users_timer[fd]] = fd
        /\ conn' = [conn EXCEPT ![fd] = 0] /\ m_user_count' = m_user_count - 1
      BY <1>3, CloseEffect
  <2>2. conn[fd] # 0
      BY <1>2, <2>1
  <2> QED BY <1>1, <2>1, <2>2, OpenAfterClose
<1>4. ASSUME NEW fd \in Fds, ReadOk(fd) \/ WriteAgain(fd) \/ WriteDone(fd)
      PROVE  m_user_count' = Cardinality(Open')
    BY <1>1, <1>4, KeepEffect DEF Open
<1>5. ASSUME NEW fd \in Fds, Accept(fd) PROVE m_user_count' = Cardinality(Open')
    BY <1>1, <1>5, AcceptEffect, OpenAfterAccept
<1>6. CASE timer_handler
    BY <1>1, <1>2, <1>6, TickEffect, OpenAfterTick
<1>7. CASE epoll_wait \/ AcceptEnds \/ UNCHANGED vars
    BY <1>1, <1>7 DEF epoll_wait, AcceptEnds, vars, Open
<1>8. ASSUME NEW w \in Workers, Process(w) PROVE m_user_count' = Cardinality(Open')
  <2>1. job[w].at \notin {"close", "forget"}
      BY DEF NoClosing
  <2>2. conn' = conn /\ m_user_count' = m_user_count
      BY <1>8, <2>1 DEF Process, Take, Parse, Answer, CloseConn, ForgetConn, Arm, Release, Release
  <2> QED BY <1>1, <2>2 DEF Open
<1> QED BY <1>3, <1>4, <1>5, <1>6, <1>7, <1>8 DEF Next, HandleOne

\* The workers between close and m_user_count--.
Forgetting == {w \in Workers : job[w].at = "forget"}

LEMMA CountNeverAboveStep ==
    ASSUME IInv, TimersOfFds, CountNeverAbove, [Next]_vars
    PROVE  CountNeverAbove'
<1>1. /\ TypeOK /\ m_user_count \in Int
      /\ m_user_count <= Cardinality(Open) + Cardinality(Forgetting)
    BY DEF IInv, TypeOK, CountNeverAbove, Forgetting
<1>2. IsFiniteSet(Forgetting) /\ Cardinality(Forgetting) \in Nat /\ Cardinality(Open) \in Nat
    BY ServerAssumption, OpenFinite, FS_Subset, FS_CardinalityType DEF Forgetting
<1> SUFFICES m_user_count' <= Cardinality(Open') + Cardinality(Forgetting')
    BY DEF CountNeverAbove, Forgetting
<1>3. ASSUME job' = job PROVE Forgetting' = Forgetting
    BY <1>3 DEF Forgetting
<1>4. ASSUME NEW fd \in Fds, HangUp(fd) \/ ReadFails(fd) \/ WriteFails(fd)
      PROVE  m_user_count' <= Cardinality(Open') + Cardinality(Forgetting')
  <2>1. conn' = [conn EXCEPT ![fd] = 0] /\ m_user_count' = m_user_count - 1 /\ job' = job
      BY <1>4, CloseEffect
  <2>2. Cardinality(Open') = Cardinality(Open) \/ Cardinality(Open') = Cardinality(Open) - 1
      BY <1>1, <2>1, OpenAfterClose
  <2> QED BY <1>1, <1>2, <1>3, <2>1, <2>2
<1>5. ASSUME NEW fd \in Fds, ReadOk(fd) \/ WriteAgain(fd) \/ WriteDone(fd)
      PROVE  m_user_count' <= Cardinality(Open') + Cardinality(Forgetting')
    BY <1>1, <1>3, <1>5, KeepEffect DEF Open
<1>6. ASSUME NEW fd \in Fds, Accept(fd)
      PROVE  m_user_count' <= Cardinality(Open') + Cardinality(Forgetting')
  <2>1. m_user_count' = m_user_count + 1 /\ job' = job
      BY <1>6, AcceptEffect
  <2>2. Cardinality(Open') = Cardinality(Open) + 1
      BY <1>6, OpenAfterAccept
  <2> QED BY <1>1, <1>2, <1>3, <2>1, <2>2
<1>7. CASE timer_handler
  <2>1. m_user_count' = m_user_count - Cardinality(Due) /\ job' = job
      BY <1>7, TickEffect
  <2>2. /\ Cardinality(Due) \in Nat
        /\ Cardinality(Open) - Cardinality(Due) <= Cardinality(Open')
      BY <1>7, OpenAfterTick
  <2>3. Cardinality(Open') \in Nat
      BY ServerAssumption, FS_Subset, FS_CardinalityType DEF Open
  <2> QED BY <1>1, <1>2, <1>3, <2>1, <2>2, <2>3
<1>8. CASE epoll_wait \/ AcceptEnds \/ UNCHANGED vars
  <2>1. conn' = conn /\ m_user_count' = m_user_count
      BY <1>8 DEF epoll_wait, AcceptEnds, vars
  <2>2. Open' = Open /\ job' = job
      BY <1>8, <2>1, LoopKeepsJobs DEF Open
  <2> QED BY <1>1, <1>3, <2>1, <2>2
<1>9. ASSUME NEW w \in Workers, Process(w)
      PROVE  m_user_count' <= Cardinality(Open') + Cardinality(Forgetting')
  <2>1. \A v \in Workers : v # w => job'[v] = job[v]
      BY <1>1, <1>9, OthersStay
  <2>2. ASSUME job[w].at # "forget", job'[w].at # "forget" PROVE Forgetting' = Forgetting
      BY <2>1, <2>2 DEF Forgetting
  <2>3. ASSUME conn' = conn PROVE Open' = Open
      BY <2>3 DEF Open
  <2>4. CASE Take(w) \/ Parse(w) \/ Answer(w) \/ Arm(w) \/ Release(w)
    <3>1. conn' = conn /\ m_user_count' = m_user_count /\ job[w].at # "forget"
        BY <2>4 DEF Take, Parse, Answer, Arm, Release
    <3>2. job'[w].at # "forget"
        BY <1>1, <2>4, TakeMoves, ParseMoves, ArmMoves, ReleaseMoves, GotoMoves
           DEF Answer, Places
    <3> QED BY <1>1, <2>2, <2>3, <3>1, <3>2
  <2>5. CASE ForgetConn(w)
    <3>1. conn' = conn /\ m_user_count' = m_user_count - 1 /\ w \in Forgetting
        BY <2>5 DEF ForgetConn, Forgetting
    <3>2. job'[w].at = "arm_out"
        BY <1>1, <2>5, GotoMoves DEF ForgetConn, Places
    <3>3. Forgetting' = Forgetting \ {w}
        BY <2>1, <3>2 DEF Forgetting
    <3>4. Cardinality(Forgetting') = Cardinality(Forgetting) - 1
        BY <1>2, <3>1, <3>3, FS_RemoveElement
    <3> QED BY <1>1, <1>2, <2>3, <3>1, <3>4
  <2>6. CASE CloseConn(w) /\ users[job[w].fd].sock
    <3>1. /\ job[w].at = "close" /\ CloseFd(job[w].fd) /\ Goto(w, "forget")
          /\ m_user_count' = m_user_count
        BY <2>6 DEF CloseConn
    <3>2. job'[w].at = "forget" /\ job[w].fd \in Fds
        BY <1>1, <3>1, GotoMoves, BusyWorker DEF Places
    <3>3. Forgetting' = Forgetting \cup {w} /\ w \notin Forgetting
        BY <2>1, <3>1, <3>2 DEF Forgetting
    <3>4. Cardinality(Forgetting') = Cardinality(Forgetting) + 1
        BY <1>2, <3>3, FS_AddElement
    <3>5. Cardinality(Open') = Cardinality(Open) \/ Cardinality(Open') = Cardinality(Open) - 1
      <4>1. conn' = [conn EXCEPT ![job[w].fd] = 0]
          BY <3>1 DEF CloseFd
      <4> QED BY <1>1, <3>2, <4>1, OpenAfterClose
    <3> QED BY <1>1, <1>2, <3>1, <3>4, <3>5
  <2>7. CASE CloseConn(w) /\ ~users[job[w].fd].sock
    <3>1. /\ job[w].at = "close" /\ Goto(w, "arm_out")
          /\ conn' = conn /\ m_user_count' = m_user_count
        BY <2>7 DEF CloseConn
    <3>2. job'[w].at = "arm_out"
        BY <1>1, <3>1, GotoMoves DEF Places
    <3> QED BY <1>1, <2>2, <2>3, <3>1, <3>2
  <2> QED BY <1>9, <2>4, <2>5, <2>6, <2>7 DEF Process
<1> QED BY <1>4, <1>5, <1>6, <1>7, <1>8, <1>9 DEF Next, HandleOne

-----------------------------------------------------------------------------

\* NoOrphanTimer is what makes the count exact: a timer that goes off closes a
\* connection that is open and no other timer's.
CountInv == NoClosing /\ TimersOfFds /\ NoOrphanTimer /\ CountExact /\ CountNeverAbove

LEMMA SpecCountInv == Spec => []CountInv
<1>1. Init => CountInv
  <2> SUFFICES ASSUME Init PROVE CountInv
      OBVIOUS
  <2>1. Armed = {} /\ Open = {} /\ m_user_count = 0
      BY DEF Init, Armed, Open
  <2>2. Forgetting = {} /\ NoClosing
      BY DEF Init, Forgetting, NoClosing, Idle
  <2>3. Cardinality(Open) = 0 /\ Cardinality(Forgetting) = 0
      BY <2>1, <2>2, FS_EmptySet
  <2>4. CountExact /\ CountNeverAbove
      BY <2>1, <2>3 DEF CountExact, CountNeverAbove, Forgetting
  <2> QED BY <2>1, <2>2, <2>4 DEF CountInv, TimersOfFds, NoOrphanTimer
<1>2. IInv /\ CountInv /\ [Next]_vars => CountInv'
    BY NoClosingStep, TimersOfFdsStep, NoOrphanStep, CountExactStep, CountNeverAboveStep
    DEF CountInv
<1> QED BY <1>1, <1>2, SpecIInv, PTL DEF Spec

\* While no worker closes a connection every timer has an open connection and is the
\* one recorded for it (webserver.cpp:176-204).
THEOREM NoTimerLeftBehind == Spec => []NoOrphanTimer
BY SpecCountInv, PTL DEF CountInv

\* While no worker closes a connection m_user_count is the number of open
\* connections (http_conn.cpp:121, lst_timer.cpp:268).
THEOREM CountIsExact == Spec => []CountExact
BY SpecCountInv, PTL DEF CountInv

\* m_user_count never exceeds the number of open connections, but for workers
\* between close and decrement, also when timer and worker close the same
\* descriptor (http_conn.cpp:158-165, lst_timer.cpp:262-268).
THEOREM CountIsNeverAbove == Spec => []CountNeverAbove
BY SpecCountInv, PTL DEF CountInv

-----------------------------------------------------------------------------
(* One owner for every http_conn. *)

\* The descriptors the main thread is told of, or will be.
Told == {fd \in Fds : epoll[fd] \in {"in", "out"} \/ fd \in BatchFds}

\* No descriptor is queued twice, served twice, or queued and served at once.
ServedOnce ==
    /\ \A i, j \in DOMAIN queue : queue[i] = queue[j] => i = j
    /\ \A w, v \in InProcess : job[w].fd = job[v].fd => w = v
    /\ \A i \in DOMAIN queue : \A w \in InProcess : queue[i] # job[w].fd

\* What OneOwner needs to be inductive: of a descriptor whose event is being handled
\* no other event can arrive, and a descriptor some worker uses or will use is open,
\* so that accept() cannot give it out and arm it (lst_timer.cpp:223).
Apart == /\ ServedOnce
         /\ Busy \cap Told = {}
         /\ \A fd \in BatchFds : epoll[fd] \notin {"in", "out"}
         /\ \A fd \in Busy \cap Fds : conn[fd] # 0

\* An event is that of an open connection.
LEMMA BatchIsOpen ==
    ASSUME IInv, NoOrphanTimer, ~WorkersMayClose, NEW fd \in BatchFds
    PROVE  fd \in Fds /\ conn[fd] # 0
<1>1. fd \in Fds
    BY DEF BatchFds, IInv, TypeOK
<1>2. users_timer[fd] \in Armed /\ tm.user_data[users_timer[fd]] = fd
    BY <1>1 DEF IInv, TimerBound
<1> QED BY <1>1, <1>2 DEF NoOrphanTimer

\* A step of the main thread that leaves queue and workers alone.
LEMMA ApartFrame ==
    ASSUME Apart, queue' = queue, job' = job,
           \A fd \in Busy \cap Fds : conn'[fd] # 0,
           Busy \cap Told' = {},
           \A fd \in BatchFds' : epoll'[fd] \notin {"in", "out"}
    PROVE  Apart'
<1>1. InProcess' = InProcess
    BY DEF InProcess
<1>2. Busy' = Busy
    BY <1>1 DEF Busy
<1> QED BY <1>1, <1>2 DEF Apart, ServedOnce

LEMMA ApartClose ==
    ASSUME IInv, Apart, NEW fd \in Fds, HangUp(fd) \/ ReadFails(fd) \/ WriteFails(fd)
    PROVE  Apart'
<1>1. /\ fd \in BatchFds /\ BatchFds' \subseteq BatchFds \ {fd}
      /\ conn' = [conn EXCEPT ![fd] = 0] /\ epoll' = [epoll EXCEPT ![fd] = "none"]
      /\ UNCHANGED <<queue, job>>
  <2>1. PICK ev \in Events : Handle(fd, ev)
      BY DEF HangUp, ReadFails, WriteFails, Fails, Events
  <2>2. BatchFds' \subseteq BatchFds \ {fd}
      BY <2>1, HandleTakesEvent DEF IInv
  <2> QED BY <2>2, CloseEffect
<1>2. fd \notin Busy
    BY <1>1 DEF Apart, Told
<1>3. \A g \in Fds : g # fd => conn'[g] = conn[g] /\ epoll'[g] = epoll[g]
    BY <1>1 DEF IInv, TypeOK
<1>4. epoll'[fd] = "none"
    BY <1>1 DEF IInv, TypeOK
<1>5. BatchFds \subseteq Fds
    BY DEF BatchFds, IInv, TypeOK
<1>6. Told' \subseteq Told
    BY <1>1, <1>3, <1>4 DEF Told
<1>7. \A g \in BatchFds' : epoll'[g] \notin {"in", "out"}
    BY <1>1, <1>3, <1>5 DEF Apart
<1>8. \A g \in Busy \cap Fds : conn'[g] # 0
    BY <1>2, <1>3 DEF Apart
<1>9. Busy \cap Told' = {}
    BY <1>6 DEF Apart
<1> QED BY <1>1, <1>7, <1>8, <1>9, ApartFrame

LEMMA ModfdEffect ==
    ASSUME TypeOK, NEW fd \in Fds, NEW ev \in {"in", "out"}, Modfd(fd, ev)
    PROVE  \A g \in Fds : g # fd => epoll'[g] = epoll[g]
BY DEF TypeOK, Modfd

LEMMA ApartWrite ==
    ASSUME IInv, Apart, NEW fd \in Fds, WriteAgain(fd) \/ WriteDone(fd)
    PROVE  Apart'
<1>1. /\ fd \in BatchFds /\ BatchFds' \subseteq BatchFds \ {fd}
      /\ UNCHANGED <<queue, job, conn>>
  <2>1. Handle(fd, "out") /\ "out" \in Events
      BY DEF WriteAgain, WriteDone, Events
  <2>2. BatchFds' \subseteq BatchFds \ {fd}
      BY <2>1, HandleTakesEvent DEF IInv
  <2> QED BY <2>2, KeepEffect DEF WriteAgain, WriteDone, work
<1>2. \A g \in Fds : g # fd => epoll'[g] = epoll[g]
    BY ModfdEffect DEF WriteAgain, WriteDone, IInv
<1>3. BatchFds \subseteq Fds
    BY DEF BatchFds, IInv, TypeOK
<1>4. Told' \subseteq Told
    BY <1>1, <1>2 DEF Told
<1>5. \A g \in BatchFds' : epoll'[g] \notin {"in", "out"}
    BY <1>1, <1>2, <1>3 DEF Apart
<1>6. Busy \cap Told' = {} /\ \A g \in Busy \cap Fds : conn'[g] # 0
    BY <1>1, <1>4 DEF Apart
<1> QED BY <1>1, <1>5, <1>6, ApartFrame

LEMMA ApartAccept ==
    ASSUME IInv, NoOrphanTimer, ~WorkersMayClose, Apart, NEW fd \in Fds, Accept(fd)
    PROVE  Apart'
<1>1. /\ conn[fd] = 0 /\ accepted + 1 # 0
      /\ conn' = [conn EXCEPT ![fd] = accepted + 1] /\ epoll' = [epoll EXCEPT ![fd] = "in"]
      /\ UNCHANGED <<batch, queue, job>>
    BY AcceptEffect
<1>2. BatchFds' = BatchFds /\ fd \notin BatchFds /\ BatchFds \subseteq Fds
    BY <1>1, BatchIsOpen DEF BatchFds
<1>3. \A g \in Fds : g # fd => conn'[g] = conn[g] /\ epoll'[g] = epoll[g]
    BY <1>1 DEF IInv, TypeOK
<1>4. fd \notin Busy
    BY <1>1 DEF Apart
<1>5. Told' \subseteq Told \cup {fd}
    BY <1>2, <1>3 DEF Told
<1>6. \A g \in BatchFds' : epoll'[g] \notin {"in", "out"}
    BY <1>2, <1>3 DEF Apart
<1>7. Busy \cap Told' = {} /\ \A g \in Busy \cap Fds : conn'[g] # 0
    BY <1>3, <1>4, <1>5 DEF Apart
<1> QED BY <1>1, <1>6, <1>7, ApartFrame

LEMMA ApartTick ==
    ASSUME IInv, ~SlowWorkers, Apart, timer_handler
    PROVE  Apart'
<1>1. /\ batch' = {} /\ DueFds \cap Busy = {}
      /\ conn' = [fd \in Fds |-> IF fd \in DueFds THEN 0 ELSE conn[fd]]
      /\ epoll' = [fd \in Fds |-> IF fd \in DueFds THEN "none" ELSE epoll[fd]]
      /\ UNCHANGED <<queue, job>>
    BY TickEffect
<1>2. BatchFds' = {}
    BY <1>1 DEF BatchFds
<1>3. Told' \subseteq Told
    BY <1>1, <1>2 DEF Told
<1>4. Busy \cap Told' = {} /\ \A g \in Busy \cap Fds : conn'[g] # 0
    BY <1>1, <1>3 DEF Apart
<1> QED BY <1>1, <1>2, <1>4, ApartFrame

LEMMA ApartWait == ASSUME IInv, Apart, epoll_wait PROVE Apart'
<1>1. PICK S \in SUBSET {fd \in Fds : epoll[fd] \in {"in", "out"}} :
         \E hups \in SUBSET S :
            /\ batch' = {<<fd, IF fd \in hups THEN "hup" ELSE epoll[fd]>> : fd \in S}
            /\ epoll' = Disarm(S)
    BY DEF epoll_wait
<1>2. epoll' = [fd \in Fds |-> IF fd \in S THEN "off" ELSE epoll[fd]]
    BY <1>1 DEF Disarm
<1>3. BatchFds' \subseteq S
    BY <1>1 DEF BatchFds
<1>4. UNCHANGED <<conn, queue, job>>
    BY DEF epoll_wait, work
<1>5. Told' \subseteq Told
    BY <1>2, <1>3 DEF Told
<1>6. \A g \in BatchFds' : epoll'[g] \notin {"in", "out"}
    BY <1>2, <1>3
<1>7. Busy \cap Told' = {} /\ \A g \in Busy \cap Fds : conn'[g] # 0
    BY <1>4, <1>5 DEF Apart
<1> QED BY <1>4, <1>6, <1>7, ApartFrame

\* dealwithread passes the descriptor from the main thread to the queue.
LEMMA ApartRead == ASSUME IInv, Apart, NEW fd \in Fds, ReadOk(fd) PROVE Apart'
<1>1. /\ fd \in BatchFds /\ BatchFds' \subseteq BatchFds \ {fd}
      /\ UNCHANGED <<epoll, job, conn>> /\ conn[fd] # 0
  <2>1. Handle(fd, "in") /\ "in" \in Events
      BY DEF ReadOk, Events
  <2>2. BatchFds' \subseteq BatchFds \ {fd}
      BY <2>1, HandleTakesEvent DEF IInv
  <2> QED BY <2>2, KeepEffect DEF ReadOk
<1>2. Told' \subseteq Told \ {fd}
    BY <1>1 DEF Told, Apart
<1>3. \A g \in BatchFds' : epoll'[g] \notin {"in", "out"}
    BY <1>1 DEF Apart
<1>4. CASE queue' = queue
  <2>1. Busy \cap Told' = {} /\ \A g \in Busy \cap Fds : conn'[g] # 0
      BY <1>1, <1>2 DEF Apart
  <2> QED BY <1>1, <1>3, <1>4, <2>1, ApartFrame
<1>5. CASE queue' = Append(queue, fd)
  <2>1. queue \in Seq(Fds)
      BY DEF IInv, TypeOK
  <2>2. fd \notin Busy
      BY <1>1 DEF Apart, Told
  <2>3. /\ DOMAIN queue = 1..Len(queue) /\ DOMAIN queue' = 1..(Len(queue) + 1)
        /\ \A i \in DOMAIN queue : queue'[i] = queue[i]
        /\ queue'[Len(queue) + 1] = fd
      BY <1>5, <2>1
  <2>4. /\ \A i \in DOMAIN queue : queue[i] # fd
        /\ \A w \in InProcess : job[w].fd # fd
      BY <2>2 DEF Busy
  <2>5. InProcess' = InProcess /\ job' = job
      BY <1>1 DEF InProcess
  <2>6. ServedOnce'
    <3>1. \A i, j \in DOMAIN queue' : queue'[i] = queue'[j] => i = j
        BY <2>1, <2>3, <2>4 DEF Apart, ServedOnce
    <3>2. \A i \in DOMAIN queue' : \A w \in InProcess : queue'[i] # job[w].fd
        BY <2>1, <2>3, <2>4 DEF Apart, ServedOnce
    <3> QED BY <2>5, <3>1, <3>2 DEF Apart, ServedOnce
  <2>7. Busy' \subseteq Busy \cup {fd}
      BY <2>1, <2>3, <2>5 DEF Busy
  <2>8. Busy' \cap Told' = {} /\ \A g \in Busy' \cap Fds : conn'[g] # 0
      BY <1>1, <1>2, <2>7 DEF Apart
  <2> QED BY <1>3, <2>6, <2>8 DEF Apart
<1> QED BY <1>4, <1>5 DEF ReadOk, Enqueue

\* run() passes it from the queue to a worker.
LEMMA ApartTake == ASSUME IInv, Apart, NEW w \in Workers, Take(w) PROVE Apart'
<1>1. TypeOK /\ queue \in Seq(Fds) /\ queue # <<>> /\ queue' = Tail(queue)
    BY DEF IInv, TypeOK, Take
<1>2. UNCHANGED <<conn, epoll, batch>> /\ job[w].at = "idle"
    BY DEF Take, main
<1>3. job'[w].fd = Head(queue) /\ \A v \in Workers : v # w => job'[v] = job[v]
    BY <1>1, TakeMoves, OthersStay DEF Process
<1>4. /\ Len(queue) \in Nat \ {0} /\ DOMAIN queue = 1..Len(queue)
      /\ DOMAIN queue' = 1..(Len(queue) - 1)
      /\ \A i \in DOMAIN queue' : i + 1 \in DOMAIN queue /\ queue'[i] = queue[i + 1]
      /\ Head(queue) = queue[1] /\ 1 \in DOMAIN queue
    BY <1>1
<1>5. InProcess' = InProcess \cup {w} /\ w \notin InProcess
    BY <1>1, <1>2, <1>3, TakeMoves DEF InProcess, Places
<1>6. ServedOnce'
  <2>1. \A i, j \in DOMAIN queue' : queue'[i] = queue'[j] => i = j
    <3> SUFFICES ASSUME NEW i \in DOMAIN queue', NEW j \in DOMAIN queue', queue'[i] = queue'[j]
                 PROVE  i = j
        OBVIOUS
    <3>1. i + 1 = j + 1
        BY <1>4 DEF Apart, ServedOnce
    <3> QED BY <3>1, <1>4
  <2>2. \A i \in DOMAIN queue' : queue'[i] # queue[1]
    <3> SUFFICES ASSUME NEW i \in DOMAIN queue', queue'[i] = queue[1] PROVE FALSE
        OBVIOUS
    <3>1. i + 1 = 1
        BY <1>4 DEF Apart, ServedOnce
    <3> QED BY <3>1, <1>4
  <2>3. \A v \in InProcess : v \in Workers /\ v # w
      BY <1>5 DEF InProcess
  <2>4. \A i \in DOMAIN queue' : \A v \in InProcess' : queue'[i] # job'[v].fd
      BY <1>3, <1>4, <1>5, <2>2, <2>3 DEF Apart, ServedOnce
  <2>5. \A u, v \in InProcess' : job'[u].fd = job'[v].fd => u = v
      BY <1>3, <1>4, <1>5, <2>3 DEF Apart, ServedOnce
  <2> QED BY <2>1, <2>4, <2>5 DEF ServedOnce
<1>7. Busy' \subseteq Busy
  <2>1. \A v \in InProcess : v \in Workers /\ v # w
      BY <1>5 DEF InProcess
  <2> QED BY <1>3, <1>4, <1>5, <2>1 DEF Busy
<1>8. Told' = Told /\ BatchFds' = BatchFds
    BY <1>2 DEF Told, BatchFds
<1> QED BY <1>2, <1>6, <1>7, <1>8 DEF Apart

\* modfd passes it from the worker to the main thread.
LEMMA ApartArm == ASSUME IInv, Apart, NEW w \in Workers, Arm(w) PROVE Apart'
<1> DEFINE fd == job[w].fd
<1>1. TypeOK /\ fd \in Fds /\ w \in InProcess
    BY BusyWorker DEF IInv, Arm, Places, InProcess
<1>2. UNCHANGED <<conn, batch, queue>>
    BY DEF Arm, main
<1>3. job'[w].at = "release" /\ \A v \in Workers : v # w => job'[v] = job[v]
    BY <1>1, ArmMoves, OthersStay DEF Process
<1>4. InProcess' = InProcess \ {w} /\ InProcess \subseteq Workers
    BY <1>3 DEF InProcess, Places
<1>5. \A g \in Fds : g # fd => epoll'[g] = epoll[g]
    BY <1>1, ModfdEffect DEF Arm
<1>6. fd \in Busy
    BY <1>1 DEF Busy
<1>7. BatchFds' = BatchFds /\ fd \notin BatchFds /\ BatchFds \subseteq Fds
    BY <1>1, <1>2, <1>6 DEF BatchFds, Apart, Told, IInv, TypeOK
<1>8. Told' \subseteq Told \cup {fd}
    BY <1>5, <1>7 DEF Told
<1>9. Busy' \subseteq Busy \ {fd}
  <2>1. \A i \in DOMAIN queue : queue[i] # fd
      BY <1>1 DEF Apart, ServedOnce
  <2>2. \A v \in InProcess' : v \in InProcess /\ job'[v].fd = job[v].fd /\ job[v].fd # fd
      BY <1>1, <1>3, <1>4 DEF Apart, ServedOnce
  <2> QED BY <1>2, <2>1, <2>2 DEF Busy
<1>10. ServedOnce'
    BY <1>2, <1>3, <1>4 DEF Apart, ServedOnce
<1>11. \A g \in BatchFds' : epoll'[g] \notin {"in", "out"}
    BY <1>5, <1>7 DEF Apart
<1>12. Busy' \cap Told' = {} /\ \A g \in Busy' \cap Fds : conn'[g] # 0
    BY <1>2, <1>8, <1>9 DEF Apart
<1> QED BY <1>10, <1>11, <1>12 DEF Apart

\* Between the two a worker keeps its descriptor, and after them it is out of process().
LEMMA ApartServe ==
    ASSUME IInv, Apart, NEW w \in Workers, Parse(w) \/ Answer(w) \/ Release(w)
    PROVE  Apart'
<1>1. TypeOK /\ UNCHANGED <<conn, epoll, batch, queue>>
    BY DEF IInv, Parse, Answer, Release, main
<1>2. \A v \in Workers : v # w => job'[v] = job[v]
    BY <1>1, OthersStay DEF Process
<1>3. w \in InProcess => w \in InProcess' /\ job'[w].fd = job[w].fd
    BY <1>1, ParseMoves, GotoMoves, ReleaseMoves DEF Answer, InProcess, Places
<1>4. w \in InProcess' => w \in InProcess
    BY <1>1, ReleaseMoves DEF Parse, Answer, InProcess, Places
<1>5. InProcess' = InProcess /\ \A v \in InProcess : job'[v].fd = job[v].fd
    BY <1>2, <1>3, <1>4 DEF InProcess
<1>6. Busy' = Busy /\ Told' = Told /\ BatchFds' = BatchFds
    BY <1>1, <1>5 DEF Busy, Told, BatchFds
<1>7. ServedOnce'
    BY <1>1, <1>5 DEF Apart, ServedOnce
<1> QED BY <1>1, <1>6, <1>7 DEF Apart

LEMMA ApartStep ==
    ASSUME ~SlowWorkers, ~WorkersMayClose, IInv, NoClosing, NoOrphanTimer, Apart, [Next]_vars
    PROVE  Apart'
<1>1. ASSUME NEW fd \in Fds, Accept(fd) \/ HandleOne(fd) PROVE Apart'
    BY <1>1, ApartAccept, ApartClose, ApartRead, ApartWrite DEF HandleOne
<1>2. CASE epoll_wait \/ timer_handler
    BY <1>2, ApartWait, ApartTick
<1>3. CASE AcceptEnds \/ UNCHANGED vars
  <2>1. UNCHANGED <<conn, epoll, batch, queue, job>>
      BY <1>3 DEF AcceptEnds, vars, work
  <2>2. Told' = Told /\ BatchFds' = BatchFds
      BY <2>1 DEF Told, BatchFds
  <2> QED BY <2>1, <2>2, ApartFrame DEF Apart
<1>4. ASSUME NEW w \in Workers, Process(w) PROVE Apart'
  <2>1. job[w].at \notin {"close", "forget"}
      BY DEF NoClosing
  <2> QED BY <1>4, <2>1, ApartTake, ApartServe, ApartArm DEF Process, CloseConn, ForgetConn
<1> QED BY <1>1, <1>2, <1>3, <1>4 DEF Next

\* A set of at most one element.
LEMMA AtMostOne ==
    ASSUME NEW S, \A x, y \in S : x = y
    PROVE  Cardinality(S) \in {0, 1} /\ (Cardinality(S) = 0 <=> S = {})
<1>1. CASE S = {}
    BY <1>1, FS_EmptySet
<1>2. CASE S # {}
  <2>1. PICK x : S = {x}
      BY <1>2
  <2> QED BY <2>1, FS_Singleton
<1> QED BY <1>1, <1>2

LEMMA ApartOwners == ASSUME TypeOK, Apart, NEW fd \in Fds PROVE Owners(fd) <= 1
<1> DEFINE Q == {i \in DOMAIN queue : queue[i] = fd}
           W == {w \in InProcess : job[w].fd = fd}
           M == IF epoll[fd] \in {"in", "out"} \/ fd \in BatchFds THEN 1 ELSE 0
<1>2. \A x, y \in Q : x = y
    BY DEF Apart, ServedOnce
<1>3. \A x, y \in W : x = y
    BY DEF Apart, ServedOnce
<1>4. Q = {} \/ W = {}
    BY DEF Apart, ServedOnce
<1>5. fd \in Told => Q = {} /\ W = {}
    BY DEF Apart, Busy
<1>6. M \in {0, 1} /\ (M = 1 <=> fd \in Told)
    BY DEF Told
<1>7. Owners(fd) = Cardinality(Q) + Cardinality(W) + M
    BY DEF Owners
<1> HIDE DEF Q, W, M
<1>8. Cardinality(Q) \in {0, 1} /\ (Cardinality(Q) = 0 <=> Q = {})
    BY <1>2, AtMostOne
<1>9. Cardinality(W) \in {0, 1} /\ (Cardinality(W) = 0 <=> W = {})
    BY <1>3, AtMostOne
<1> QED BY <1>4, <1>5, <1>6, <1>7, <1>8, <1>9

-----------------------------------------------------------------------------
(* Whose request is answered. *)

\* What an http_conn holds belongs to the connection open on its descriptor, and so
\* does what a worker is answering.  ReplyToItsOwner alone is not inductive: the
\* reply comes from a request parsed two steps before, while the descriptor could
\* have been closed and given out again, which Apart excludes.
Fresh == /\ \A fd \in Fds : conn[fd] # 0 => /\ users[fd].request \in {0, conn[fd]}
                                            /\ users[fd].reply \in {0, conn[fd]}
         /\ \A w \in Workers : job[w].at = "answer" => job[w].for = conn[job[w].fd]

LEMMA Answering ==
    ASSUME TypeOK, NEW w \in Workers, job[w].at \in Places
    PROVE  job[w].fd \in Busy \cap Fds
BY BusyWorker DEF Busy, InProcess

\* A step that changes neither the workers nor the connections they serve.
LEMMA FreshFrame ==
    ASSUME TypeOK, Fresh, job' = job, \A fd \in Busy \cap Fds : conn'[fd] = conn[fd],
           \A fd \in Fds : conn'[fd] # 0 => /\ users'[fd].request \in {0, conn'[fd]}
                                            /\ users'[fd].reply \in {0, conn'[fd]}
    PROVE  Fresh'
<1>1. \A w \in Workers : job[w].at = "answer" => job[w].fd \in Busy \cap Fds
    BY Answering DEF Places
<1> QED BY <1>1 DEF Fresh

LEMMA FreshLoop ==
    ASSUME IInv, Apart, Fresh, NEW fd \in Fds, Accept(fd) \/ HandleOne(fd)
    PROVE  Fresh'
<1>1. TypeOK
    BY DEF IInv
<1>2. CASE HangUp(fd) \/ ReadFails(fd) \/ WriteFails(fd)
  <2>1. fd \in BatchFds /\ conn' = [conn EXCEPT ![fd] = 0] /\ users' = users /\ job' = job
      BY <1>2, CloseEffect
  <2>2. fd \notin Busy
      BY <2>1 DEF Apart, Told
  <2>3. \A g \in Fds : conn'[g] = IF g = fd THEN 0 ELSE conn[g]
      BY <1>1, <2>1 DEF TypeOK
  <2> QED BY <1>1, <2>1, <2>2, <2>3, FreshFrame DEF Fresh
<1>3. CASE Accept(fd)
  <2>1. /\ conn[fd] = 0 /\ job' = job
        /\ conn' = [conn EXCEPT ![fd] = accepted + 1]
        /\ users' = [users EXCEPT ![fd] = [sock |-> TRUE, request |-> 0, reply |-> 0]]
      BY <1>3, AcceptEffect
  <2>2. fd \notin Busy
      BY <2>1 DEF Apart
  <2>3. \A g \in Fds : g # fd => conn'[g] = conn[g] /\ users'[g] = users[g]
      BY <1>1, <2>1 DEF TypeOK
  <2>4. users'[fd].request = 0 /\ users'[fd].reply = 0
      BY <1>1, <2>1 DEF TypeOK
  <2> QED BY <1>1, <2>1, <2>2, <2>3, <2>4, FreshFrame DEF Fresh
<1>4. CASE ReadOk(fd) \/ WriteAgain(fd) \/ WriteDone(fd)
  <2>1. conn' = conn /\ job' = job
      BY <1>4, KeepEffect
  <2>2. \A g \in Fds : g # fd => users'[g] = users[g]
      BY <1>1, <1>4 DEF ReadOk, WriteAgain, WriteDone, Reset, TypeOK
  <2>3. users[fd] \in HttpConns
      BY <1>1 DEF TypeOK
  <2>4. /\ users'[fd].request \in {0, users[fd].request, conn[fd]}
        /\ users'[fd].reply \in {0, users[fd].reply}
    <3>1. CASE ReadOk(fd)
      <4>1. users'[fd] = [users[fd] EXCEPT !.request = IF @ = 0 THEN conn[fd] ELSE @]
          BY <1>1, <3>1 DEF ReadOk, TypeOK
      <4> QED BY <2>3, <4>1 DEF HttpConns
    <3>2. CASE WriteAgain(fd)
        BY <3>2 DEF WriteAgain
    <3>3. CASE WriteDone(fd)
      <4>1. users'[fd] = [users[fd] EXCEPT !.request = 0, !.reply = 0]
          BY <1>1, <3>3 DEF WriteDone, Reset, TypeOK
      <4> QED BY <2>3, <4>1 DEF HttpConns
    <3> QED BY <1>4, <3>1, <3>2, <3>3
  <2>5. \A g \in Fds : conn'[g] # 0 => /\ users'[g].request \in {0, conn'[g]}
                                       /\ users'[g].reply \in {0, conn'[g]}
      BY <2>1, <2>2, <2>4 DEF Fresh
  <2> QED BY <1>1, <2>1, <2>5, FreshFrame
<1> QED BY <1>2, <1>3, <1>4 DEF HandleOne

LEMMA FreshWorker ==
    ASSUME IInv, NoClosing, ~WorkersMayClose, Apart, Fresh, NEW w \in Workers, Process(w)
    PROVE  Fresh'
<1>1. TypeOK /\ job[w].at \notin {"close", "forget"}
    BY DEF IInv, NoClosing
<1>2. conn' = conn
    BY <1>1, WorkerKeepsConn
<1>3. \A v \in Workers : v # w => job'[v] = job[v]
    BY <1>1, OthersStay
<1>4. CASE Take(w) \/ Parse(w) \/ Arm(w) \/ Release(w)
  <2>1. users' = users
      BY <1>4 DEF Take, Parse, Arm, Release
  <2>2. job'[w].at = "answer" => job'[w].for = conn'[job'[w].fd]
    <3>1. CASE Parse(w)
      <4>1. job[w].fd \in Busy \cap Fds
          BY <1>1, <3>1, Answering DEF Parse, Places
      <4>2. conn[job[w].fd] # 0
          BY <4>1 DEF Apart
      <4> QED BY <1>1, <1>2, <3>1, <4>1, <4>2, ParseMoves DEF Fresh
    <3> QED BY <1>1, <1>4, <3>1, TakeMoves, ArmMoves, ReleaseMoves
  <2> QED BY <1>2, <1>3, <2>1, <2>2 DEF Fresh
<1>5. CASE Answer(w)
  <2> DEFINE fd == job[w].fd
  <2>1. /\ users' = [users EXCEPT ![fd].reply = job[w].for]
        /\ Goto(w, "arm_out") /\ job[w].at = "answer"
      BY <1>5 DEF Answer
  <2>2. job'[w].at = "arm_out"
      BY <1>1, <2>1, GotoMoves DEF Places
  <2>3. fd \in Fds /\ users[fd] \in HttpConns
      BY <1>1, <2>1, Answering DEF Places, TypeOK
  <2>4. users'[fd].reply = conn[fd] /\ users'[fd].request = users[fd].request
    <3>1. users'[fd] = [users[fd] EXCEPT !.reply = job[w].for]
        BY <1>1, <2>1, <2>3 DEF TypeOK
    <3> QED BY <2>1, <2>3, <3>1 DEF Fresh, HttpConns
  <2>5. \A g \in Fds : g # fd => users'[g] = users[g]
      BY <1>1, <2>1 DEF TypeOK
  <2>6. \A g \in Fds : conn[g] # 0 => /\ users'[g].request \in {0, conn[g]}
                                      /\ users'[g].reply \in {0, conn[g]}
      BY <2>4, <2>5 DEF Fresh
  <2> QED BY <1>2, <1>3, <2>2, <2>6 DEF Fresh
<1> QED BY <1>1, <1>4, <1>5 DEF Process, CloseConn, ForgetConn

LEMMA FreshStep ==
    ASSUME ~SlowWorkers, ~WorkersMayClose, IInv, NoClosing, Apart, Fresh, [Next]_vars
    PROVE  Fresh'
<1>1. TypeOK
    BY DEF IInv
<1>2. CASE timer_handler
  <2>1. /\ DueFds \cap Busy = {} /\ users' = users /\ job' = job
        /\ conn' = [fd \in Fds |-> IF fd \in DueFds THEN 0 ELSE conn[fd]]
      BY <1>2, TickEffect
  <2> QED BY <1>1, <2>1, FreshFrame DEF Fresh
<1>3. CASE epoll_wait \/ AcceptEnds \/ UNCHANGED vars
  <2>1. UNCHANGED <<conn, users, job>>
      BY <1>3 DEF epoll_wait, AcceptEnds, vars, work
  <2> QED BY <2>1 DEF Fresh
<1> QED BY <1>2, <1>3, FreshLoop, FreshWorker DEF Next

-----------------------------------------------------------------------------

\* Under the two conditions of OneOwner.
OwnerInv == ~SlowWorkers /\ ~WorkersMayClose => Apart /\ Fresh

LEMMA SpecOwnerInv == Spec => []OwnerInv
<1>1. Init => OwnerInv
  <2> SUFFICES ASSUME Init PROVE Apart /\ Fresh
      BY DEF OwnerInv
  <2>1. InProcess = {}
      BY DEF Init, InProcess, Places, Idle
  <2>2. Busy = {} /\ BatchFds = {} /\ Told = {}
      BY <2>1 DEF Init, Busy, BatchFds, Told
  <2>3. ServedOnce
      BY <2>1 DEF Init, ServedOnce
  <2>4. Apart
      BY <2>1, <2>2, <2>3 DEF Apart
  <2>5. Fresh
      BY DEF Init, Fresh, Idle
  <2> QED BY <2>4, <2>5
<1>2. IInv /\ CountInv /\ OwnerInv /\ [Next]_vars => OwnerInv'
    BY ApartStep, FreshStep DEF OwnerInv, CountInv
<1> QED BY <1>1, <1>2, SpecIInv, SpecCountInv, PTL DEF Spec

\* EPOLLONESHOT keeps main thread and workers apart in process(): at most one of them
\* uses an http_conn, its member mysql apart, as long as no request outlives its timer
\* and no worker closes (lst_timer.cpp:223, http_conn.cpp:83).
THEOREM OwnersAreAlone == Spec => []OneOwner
<1>1. IInv /\ OwnerInv => OneOwner
    BY ApartOwners DEF IInv, OwnerInv, OneOwner
<1> QED BY <1>1, SpecIInv, SpecOwnerInv, PTL

\* Under the same conditions what write() sends answers a request of the connection
\* it is sent on, although descriptor and http_conn are reused (http_conn.cpp:630).
THEOREM RepliesGoToTheirOwner == Spec => []ReplyToItsOwner
<1>1. IInv /\ CountInv /\ OwnerInv => ReplyToItsOwner
  <2> SUFFICES ASSUME IInv, CountInv, Apart, Fresh, ~WorkersMayClose,
                      NEW fd \in Fds, <<fd, "out">> \in batch, users[fd].reply # 0
               PROVE  users[fd].reply = conn[fd]
      BY DEF ReplyToItsOwner, OwnerInv
  <2>1. fd \in BatchFds
      BY DEF BatchFds
  <2>2. conn[fd] # 0
      BY <2>1, BatchIsOpen DEF CountInv
  <2> QED BY <2>2 DEF Fresh
<1> QED BY <1>1, SpecIInv, SpecCountInv, SpecOwnerInv, PTL
=============================================================================
