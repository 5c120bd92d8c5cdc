------------------------------ MODULE WebServer ------------------------------
(***************************************************************************)
(* The life of the connections of webserver.cpp: the event loop of the     *)
(* main thread, the epoll registrations, the timers, the queue of the      *)
(* thread pool and the workers in http_conn::process().                    *)
(*                                                                         *)
(* The main thread alone accepts, reads, writes and owns the timers; a     *)
(* worker parses what was read, prepares the answer and arms the           *)
(* connection again.  They share users[fd], the epoll instance and the     *)
(* file descriptors, and nothing but EPOLLONESHOT keeps them apart: not    *)
(* even that in run(), which goes on to use the member mysql of an         *)
(* http_conn that process() has armed (see WorkerConnections).             *)
(*                                                                         *)
(* A connection is a generation of its descriptor, so that a descriptor    *)
(* the kernel gives out again is told from its earlier use.  The program   *)
(* does not know generations: it has only the number.  The timers are      *)
(* those TimerService promises (TimeWheel implements it) in the objects of *)
(* MemoryPool, and the queue is that of ThreadPool.                        *)
(***************************************************************************)
EXTENDS Integers, Sequences, FiniteSets, MemoryPool

CONSTANTS
    Fds,              \* the descriptors the kernel may give to clients
    Workers,          \* the workers of the thread pool
    MAX_FD,           \* the limit on m_user_count
    QueueCap,         \* the pool's max_requests
    Life,             \* ticks a timer survives when nothing happens
    Reactor,          \* m_actormodel = 1
    WorkersMayClose,  \* process_write may fail: the answer exceeds the buffer
    SlowWorkers,      \* a request may last longer than the connection's timer
    MaxAccept,        \* bound: connections accepted
    MaxBlocks         \* bound: blocks of timers

ASSUME ServerAssumption ==
    /\ Fds \subseteq Nat \ {0}
    /\ IsFiniteSet(Fds) /\ IsFiniteSet(Workers)
    /\ MAX_FD \in Nat /\ QueueCap \in Nat \ {0} /\ Life \in Nat
    /\ MaxAccept \in Nat /\ MaxBlocks \in Nat
    /\ {Reactor, WorkersMayClose, SlowWorkers} \subseteq BOOLEAN

VARIABLES
    conn,         \* conn[fd]: the connection open on fd, 0 for none
    epoll,        \* epoll[fd]: fd's registration: "none", "off" (disarmed), "in", "out"
    users,        \* users[fd]: the http_conn of fd
    users_timer,  \* users_timer[fd]: the timer recorded for fd, 0 for none
    tm,           \* the timers: see Timers below
    batch,        \* the events epoll_wait returned and the loop has not handled
    accepting,    \* the listening socket is one of them
    timeout,      \* SIGALRM was read
    queue,        \* m_workqueue
    job,          \* job[w]: what worker w is doing
    m_user_count, \* http_conn::m_user_count
    accepted      \* connections accepted so far

vars == <<conn, epoll, users, users_timer, tm, batch, accepting, timeout, queue,
          job, m_user_count, accepted>>

Nodes == 1..(MaxBlocks * BlockSize)
Gens == 1..MaxAccept
Off == -1
Events == {"in", "out", "hup"}
Places == {"parse", "answer", "close", "forget", "arm_in", "arm_out"}

\* sock: m_sockfd is the descriptor and not -1; request: the connection the
\* first bytes of m_read_buf came from, 0 when it is empty; reply: the
\* connection whose request the prepared response answers, 0 when
\* bytes_to_send is 0.
HttpConns == [sock : BOOLEAN, request : Gens \cup {0}, reply : Gens \cup {0}]

\* left: the ticks a timer survives, Off when it is not set; user_data: the
\* descriptor of its client_data; pool: util_timer::m_pool.
Timers == [left : [Nodes -> 0..Life \cup {Off}], user_data : [Nodes -> Fds \cup {0}],
           pool : Pools]

\* fd: the task's descriptor; for: whose request it is answering.  Places are those
\* of process(); "release" is after it, in run().
Idle == [at |-> "idle", fd |-> 0, for |-> 0]
Serving == [at : Places, fd : Fds, for : Gens \cup {0}]
Releasing == [at : {"release"}, fd : Fds, for : {0}]
Jobs == {Idle} \cup Serving \cup Releasing

Open == {fd \in Fds : conn[fd] # 0}
Armed == {n \in Nodes : tm.left[n] # Off}

TypeOK == /\ conn \in [Fds -> Gens \cup {0}]
          /\ epoll \in [Fds -> {"none", "off", "in", "out"}]
          /\ users \in [Fds -> HttpConns]
          /\ users_timer \in [Fds -> Nodes \cup {0}]
          /\ tm \in Timers
          /\ batch \in SUBSET (Fds \X Events)
          /\ accepting \in BOOLEAN
          /\ timeout \in BOOLEAN
          /\ queue \in Seq(Fds) /\ Len(queue) <= QueueCap
          /\ job \in [Workers -> Jobs]
          /\ m_user_count \in Int
          /\ accepted \in 0..MaxAccept

Init == /\ conn = [fd \in Fds |-> 0]
        /\ epoll = [fd \in Fds |-> "none"]
        /\ users = [fd \in Fds |-> [sock |-> FALSE, request |-> 0, reply |-> 0]]
        /\ users_timer = [fd \in Fds |-> 0]
        /\ tm = [left |-> [n \in Nodes |-> Off], user_data |-> [n \in Nodes |-> 0],
                 pool |-> EmptyPool]
        /\ batch = {}
        /\ accepting = FALSE
        /\ timeout = FALSE
        /\ queue = <<>>
        /\ job = [w \in Workers |-> Idle]
        /\ m_user_count = 0
        /\ accepted = 0

loop == <<accepting, timeout>>
work == <<queue, job>>

-----------------------------------------------------------------------------
(* The timers, as functions of their state. *)

AddTimer(t, fd) ==
    [left      |-> [t.left EXCEPT ![Allocated(t.pool)] = Life],
     user_data |-> [t.user_data EXCEPT ![Allocated(t.pool)] = fd],
     pool      |-> Allocate(t.pool)]

\* Deleting a timer that is not set would put it on the free list twice.
DelTimer(t, n) == [t EXCEPT !.left[n] = Off, !.pool = Deallocate(t.pool, n)]

\* adjust_timer: delete and add.  NewTimer is the one users_timer then records.
NewTimer(n) == Allocated(DelTimer(tm, n).pool)
Adjusted(n) == AddTimer(DelTimer(tm, n), tm.user_data[n])

adjust_timer(n) ==
    /\ tm' = Adjusted(n)
    /\ users_timer' = [users_timer EXCEPT ![tm.user_data[n]] = NewTimer(n)]

-----------------------------------------------------------------------------
(* Descriptors. *)

\* close(): the kernel also drops the registration.
CloseFd(fd) == /\ conn' = [conn EXCEPT ![fd] = 0]
               /\ epoll' = [epoll EXCEPT ![fd] = "none"]

\* modfd fails on a descriptor that is not registered; it cannot tell which
\* connection the descriptor belongs to.
Modfd(fd, ev) == epoll' = IF users[fd].sock /\ epoll[fd] # "none"
                          THEN [epoll EXCEPT ![fd] = ev] ELSE epoll

\* Fault: the timer outlives the connection.
deal_timer_keep(t, fd, n) ==
    /\ CloseFd(fd)
    /\ m_user_count' = m_user_count - 1
    /\ tm' = t

\* Fault: the connection is not discounted.
deal_timer_no_count(t, fd, n) ==
    /\ CloseFd(fd)
    /\ m_user_count' = m_user_count
    /\ tm' = DelTimer(t, n)

\* deal_timer: cb_func closes and discounts, del_timer frees.  t is the state of
\* the timers when it is called.
deal_timer(t, fd, n) ==
    /\ CloseFd(fd)
    /\ m_user_count' = m_user_count - 1
    /\ tm' = DelTimer(t, n)

-----------------------------------------------------------------------------
(* The event loop. *)

\* Fault: the registrations are not one-shot.
Disarmed(S) == epoll

\* EPOLLONESHOT: an event that is returned disarms its descriptor.
Disarm(S) == [fd \in Fds |-> IF fd \in S THEN "off" ELSE epoll[fd]]

\* Any descriptors that are armed may be ready, for what they are armed for or
\* because the peer closed.
epoll_wait ==
    /\ batch = {} /\ ~accepting /\ ~timeout
    /\ \E S \in SUBSET {fd \in Fds : epoll[fd] \in {"in", "out"}} :
       \E hups \in SUBSET S :
          /\ batch' = {<<fd, IF fd \in hups THEN "hup" ELSE epoll[fd]>> : fd \in S}
          /\ epoll' = Disarm(S)
    /\ accepting' \in BOOLEAN
    /\ timeout' \in BOOLEAN
    /\ UNCHANGED <<conn, users, users_timer, tm, work, m_user_count, accepted>>

\* Fault: the buffer keeps what the previous connection left in it.
InitUserKeep(fd) == users' = [users EXCEPT ![fd].sock = TRUE, ![fd].reply = 0]

\* http_conn::init(int, ...) and the init() it ends with.
InitUser(fd) == users' = [users EXCEPT ![fd] = [sock |-> TRUE, request |-> 0, reply |-> 0]]

\* The init() that makes a kept connection ready for its next request.
Reset(fd) == users' = [users EXCEPT ![fd].request = 0, ![fd].reply = 0]

\* dealclinetdata and timer().  With an edge-triggered listening socket the loop
\* may accept more; with a level-triggered one it goes on to the next event.
Accept(fd) ==
    /\ accepting
    /\ accepted < MaxAccept
    /\ m_user_count < MAX_FD
    /\ conn[fd] = 0
    /\ Allocated(tm.pool) \in Nodes
    /\ accepted' = accepted + 1
    /\ conn' = [conn EXCEPT ![fd] = accepted + 1]
    /\ epoll' = [epoll EXCEPT ![fd] = "in"]
    /\ InitUser(fd)
    /\ m_user_count' = m_user_count + 1
    /\ tm' = AddTimer(tm, fd)
    /\ users_timer' = [users_timer EXCEPT ![fd] = Allocated(tm.pool)]
    /\ accepting' \in BOOLEAN
    /\ UNCHANGED <<batch, timeout, work>>

\* Nothing to accept, or one connection too many: it is closed at once.
AcceptEnds == /\ accepting
              /\ accepting' = FALSE
              /\ UNCHANGED <<conn, epoll, users, users_timer, tm, batch, timeout,
                             work, m_user_count, accepted>>

Handle(fd, ev) == /\ <<fd, ev>> \in batch
                  /\ batch' = batch \ {<<fd, ev>>}
                  /\ UNCHANGED <<loop, accepted>>

\* The peer closed, or an error.
HangUp(fd) == /\ Handle(fd, "hup")
              /\ deal_timer(tm, fd, users_timer[fd])
              /\ UNCHANGED <<users, users_timer, work>>

\* append and append_p: their result is ignored.
Enqueue(fd) == queue' = IF Len(queue) < QueueCap THEN Append(queue, fd) ELSE queue

\* dealwithread when read_once succeeds.  In Proactor mode the request is queued
\* before the timer is adjusted and in Reactor mode after; the two do not touch
\* the same state.
ReadOk(fd) ==
    /\ Handle(fd, "in")
    /\ users[fd].sock /\ conn[fd] # 0
    /\ users' = [users EXCEPT ![fd].request = IF @ = 0 THEN conn[fd] ELSE @]
    /\ Enqueue(fd)
    /\ adjust_timer(users_timer[fd])
    /\ UNCHANGED <<conn, epoll, job, m_user_count>>

\* dealwithread and dealwithwrite when the read or the write fails: an error, the
\* end of the stream, a full buffer, a descriptor already closed.  In Reactor
\* mode the timer was adjusted first, and deal_timer is given the pointer that
\* was read before that.
Fails(fd, ev) ==
    /\ Handle(fd, ev)
    /\ IF Reactor
       THEN /\ deal_timer(Adjusted(users_timer[fd]), fd, users_timer[fd])
            /\ users_timer' = [users_timer EXCEPT ![tm.user_data[users_timer[fd]]]
                                                      = NewTimer(users_timer[fd])]
       ELSE /\ deal_timer(tm, fd, users_timer[fd])
            /\ UNCHANGED users_timer
    /\ UNCHANGED <<users, work>>

ReadFails(fd) == Fails(fd, "in")

\* The write fails, or it ends a connection that is not kept.
WriteFails(fd) == Fails(fd, "out")

\* write() when the socket's buffer is full: wait for EPOLLOUT again.
WriteAgain(fd) ==
    /\ Handle(fd, "out")
    /\ users[fd].sock /\ conn[fd] # 0 /\ users[fd].reply # 0
    /\ Modfd(fd, "out")
    /\ adjust_timer(users_timer[fd])
    /\ UNCHANGED <<conn, users, work, m_user_count>>

\* write() when everything is sent and the connection is kept, or when there was
\* nothing to send.
WriteDone(fd) ==
    /\ Handle(fd, "out")
    /\ users[fd].reply # 0 => users[fd].sock /\ conn[fd] # 0
    /\ Modfd(fd, "in")
    /\ Reset(fd)
    /\ adjust_timer(users_timer[fd])
    /\ UNCHANGED <<conn, work, m_user_count>>

-----------------------------------------------------------------------------
(* timer_handler: tick(). *)

Due == {n \in Armed : tm.left[n] = 0}
DueFds == {tm.user_data[n] : n \in Due}

\* The workers in process().
InProcess == {w \in Workers : job[w].at \in Places}

\* The descriptors that are with process() or will be.
Busy == {queue[i] : i \in DOMAIN queue} \cup {job[w].fd : w \in InProcess}

\* Fault: a timer that is due is freed and its callback not called.
Callbacks0 == UNCHANGED <<conn, epoll, m_user_count>>

\* Fault: the callback does not discount.
Callbacks1 ==
    /\ conn' = [fd \in Fds |-> IF fd \in DueFds THEN 0 ELSE conn[fd]]
    /\ epoll' = [fd \in Fds |-> IF fd \in DueFds THEN "none" ELSE epoll[fd]]
    /\ UNCHANGED m_user_count

\* cb_func of every timer that is due.
Callbacks ==
    /\ conn' = [fd \in Fds |-> IF fd \in DueFds THEN 0 ELSE conn[fd]]
    /\ epoll' = [fd \in Fds |-> IF fd \in DueFds THEN "none" ELSE epoll[fd]]
    /\ m_user_count' = m_user_count - Cardinality(Due)

\* Fault: a timer is never counted down.
Stopped(n) == tm.left[n]

CountedDown(n) == IF tm.left[n] > 0 THEN tm.left[n] - 1 ELSE Off

\* It runs when the batch is handled.  Without SlowWorkers no request lasts as
\* long as a timer.
timer_handler ==
    /\ batch = {} /\ ~accepting /\ timeout
    /\ SlowWorkers \/ DueFds \cap Busy = {}
    /\ timeout' = FALSE
    /\ Callbacks
    /\ \E order \in Orders(Due) :
          tm' = [tm EXCEPT !.left = [n \in Nodes |-> CountedDown(n)],
                           !.pool = DeallocateAll(@, order)]
    /\ UNCHANGED <<users, users_timer, batch, accepting, work, accepted>>

-----------------------------------------------------------------------------
(* The workers: run() and process(). *)

Goto(w, p) == job' = [job EXCEPT ![w].at = p]

main == <<users_timer, tm, batch, loop, accepted>>

Take(w) == /\ job[w].at = "idle"
           /\ queue # <<>>
           /\ job' = [job EXCEPT ![w] = [at |-> "parse", fd |-> Head(queue), for |-> 0]]
           /\ queue' = Tail(queue)
           /\ UNCHANGED <<conn, epoll, users, m_user_count, main>>

\* process_read: the request is complete, or it is not yet (or there is none).
Parse(w) ==
    /\ job[w].at = "parse"
    /\ \/ /\ users[job[w].fd].request # 0
          /\ job' = [job EXCEPT ![w].at = "answer", ![w].for = users[job[w].fd].request]
       \/ Goto(w, "arm_in")
    /\ UNCHANGED <<conn, epoll, users, queue, m_user_count, main>>

\* process_write.
Answer(w) ==
    /\ job[w].at = "answer"
    /\ \/ /\ users' = [users EXCEPT ![job[w].fd].reply = job[w].for]
          /\ Goto(w, "arm_out")
       \/ /\ WorkersMayClose
          /\ Goto(w, "close")
          /\ UNCHANGED users
    /\ UNCHANGED <<conn, epoll, queue, m_user_count, main>>

\* close_conn: removefd, ...
CloseConn(w) ==
    /\ job[w].at = "close"
    /\ IF users[job[w].fd].sock
       THEN CloseFd(job[w].fd) /\ Goto(w, "forget")
       ELSE Goto(w, "arm_out") /\ UNCHANGED <<conn, epoll>>
    /\ UNCHANGED <<users, queue, m_user_count, main>>

\* ... m_sockfd = -1 and m_user_count--.  process() goes on to its modfd.
ForgetConn(w) ==
    /\ job[w].at = "forget"
    /\ users' = [users EXCEPT ![job[w].fd].sock = FALSE]
    /\ m_user_count' = m_user_count - 1
    /\ Goto(w, "arm_out")
    /\ UNCHANGED <<conn, epoll, queue, main>>

\* modfd at the end of process().
Arm(w) == /\ job[w].at \in {"arm_in", "arm_out"}
          /\ Modfd(job[w].fd, IF job[w].at = "arm_in" THEN "in" ELSE "out")
          /\ job' = [job EXCEPT ![w].at = "release", ![w].for = 0]
          /\ UNCHANGED <<conn, users, queue, m_user_count, main>>

\* Back in run(): the connection in users[fd].mysql is released and the member set to
\* nullptr, while the main thread or another worker may have the http_conn already.
\* What becomes of the connection is WorkerConnections' subject.
Release(w) == /\ job[w].at = "release"
              /\ job' = [job EXCEPT ![w] = Idle]
              /\ UNCHANGED <<conn, epoll, users, queue, m_user_count, main>>

Process(w) == \/ Take(w) \/ Parse(w) \/ Answer(w)
              \/ CloseConn(w) \/ ForgetConn(w) \/ Arm(w) \/ Release(w)

HandleOne(fd) == \/ HangUp(fd) \/ ReadOk(fd) \/ ReadFails(fd)
                 \/ WriteFails(fd) \/ WriteAgain(fd) \/ WriteDone(fd)

Next == \/ epoll_wait
        \/ \E fd \in Fds : Accept(fd) \/ HandleOne(fd)
        \/ AcceptEnds
        \/ timer_handler
        \/ \E w \in Workers : Process(w)

Spec == Init /\ [][Next]_vars

\* The main thread handles what epoll_wait returned and leaves accept's loop, the
\* alarm goes off again and again, and the workers are scheduled.
FairSpec == /\ Spec
            /\ \A fd \in Fds : WF_vars(HandleOne(fd))
            /\ WF_vars(AcceptEnds)
            /\ SF_vars(epoll_wait /\ timeout')
            /\ WF_vars(timer_handler)
            /\ \A w \in Workers : WF_vars(Process(w))

-----------------------------------------------------------------------------
(* Safety. *)

BatchFds == {e[1] : e \in batch}

\* Whatever the main thread may still be told about has a timer of its own: the
\* pointer users_timer[fd].timer is valid whenever a handler uses it
\* (webserver.cpp:303, :348, :423), also after a worker closed the connection.
TimerBound ==
    \A fd \in Fds : conn[fd] # 0 \/ epoll[fd] # "none" \/ fd \in BatchFds =>
        /\ users_timer[fd] \in Armed
        /\ tm.user_data[users_timer[fd]] = fd

\* No timer is freed twice, used after it was freed, or lost.  In Reactor mode
\* deal_timer gets a pointer adjust_timer has just freed (webserver.cpp:303, :308,
\* :327); that is sound only because the pool gives the same object back.
PoolSound == PoolSoundFor(tm.pool, Armed)

\* While no worker closes a connection, timers and open connections correspond
\* one to one: no timer is left behind to close a later user of the descriptor.
NoOrphanTimer == ~WorkersMayClose =>
    \A n \in Armed : /\ conn[tm.user_data[n]] # 0
                     /\ users_timer[tm.user_data[n]] = n

\* How many parties may touch users[fd], its member mysql apart: queue entries, workers
\* in process(), and the main thread, which is told of fd's events while fd is armed or
\* in the batch.
Owners(fd) ==
    Cardinality({i \in DOMAIN queue : queue[i] = fd})
    + Cardinality({w \in InProcess : job[w].fd = fd})
    + (IF epoll[fd] \in {"in", "out"} \/ fd \in BatchFds THEN 1 ELSE 0)

\* EPOLLONESHOT (lst_timer.cpp:223, http_conn.cpp:83) keeps main thread and workers
\* apart: at most one of them uses the buffers, indices and flags of an http_conn, as
\* long as no request outlives its timer and no worker closes.  Of mysql it does not
\* hold: run() reads and resets it after the descriptor is armed (threadpool.h:163-165,
\* :174-177), which is why "release" is a place of its own and why WorkerConnections
\* loses connections.
OneOwner == ~SlowWorkers /\ ~WorkersMayClose => \A fd \in Fds : Owners(fd) <= 1

\* What write() sends on a connection answers that connection's own request
\* (http_conn.cpp:630), although descriptor and http_conn are reused.
ReplyToItsOwner == ~SlowWorkers /\ ~WorkersMayClose =>
    \A fd \in Fds : <<fd, "out">> \in batch /\ users[fd].reply # 0
                        => users[fd].reply = conn[fd]

\* While no worker closes a connection, m_user_count is the number of open
\* connections (http_conn.cpp:121, lst_timer.cpp:268), so that the limit MAX_FD is
\* neither exceeded nor reached too early.
CountExact == ~WorkersMayClose => m_user_count = Cardinality(Open)

\* Even when workers close connections and their timers close the descriptor once
\* more, the server never refuses a client it has room for: the count is not
\* above the number of open connections, a worker between close and m_user_count--
\* (http_conn.cpp:161-163) apart.
CountNeverAbove ==
    m_user_count <= Cardinality(Open) + Cardinality({w \in Workers : job[w].at = "forget"})

(* Liveness. *)

\* No open connection is forgotten: the loop hears of it again or it is closed,
\* also when the full queue dropped its request (webserver.cpp:319, :336) and it
\* stays disarmed until its timer goes off.
NeverForgotten == \A fd \in Fds : \A g \in Gens :
    (conn[fd] = g) ~> (conn[fd] # g \/ fd \in BatchFds)
=============================================================================
