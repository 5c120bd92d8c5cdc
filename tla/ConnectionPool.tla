--------------------------- MODULE ConnectionPool ---------------------------
(***************************************************************************)
(* The pool of MySQL connections of CGImysql/sql_connection_pool.cpp: the  *)
(* list of free connections, the semaphore `reserve` and the threads that  *)
(* borrow a connection, use it and give it back.                           *)
(*                                                                         *)
(* A thread gives back the connection it got, as connectionRAII does, or   *)
(* loses it: threadpool<T>::run looks in request->mysql again after        *)
(* process() has armed the descriptor, and releases nothing if init(), in  *)
(* the main thread, has set it to nullptr by then (WorkerConnections).     *)
(* That run() may also find the connection of another worker there, and    *)
(* give back what is in use, is left to that module: the pool promises     *)
(* nothing to who does so.                                                 *)
(*                                                                         *)
(* Each action is a step another thread can observe: the unlocked test of  *)
(* the list, the semaphore, the section under `lock`, the post.  The       *)
(* semaphore is the monitor of lock/locker.h: its waiters sleep, are woken *)
(* by a post or spuriously, and test again.                                *)
(***************************************************************************)
EXTENDS Naturals, Sequences, FiniteSets

CONSTANTS
    Threads,   \* the threads that use the pool
    Conns,     \* the connections init() opened (MaxConn of them)
    NoConn     \* NULL

ASSUME PoolAssumption == /\ IsFiniteSet(Threads)
                         /\ IsFiniteSet(Conns)
                         /\ NoConn \notin Conns \cup Threads

VARIABLES
    connList,   \* connList: the free connections, in order
    m_FreeConn, \* the pool's count of free connections
    m_CurConn,  \* the pool's count of connections in use
    reserve,    \* the value of the semaphore
    open,       \* the connections mysql_close was not called on
    pc,         \* pc[t]: where thread t is
    con,        \* con[t]: the connection t got and has not pushed back
    lost        \* history: lost[c]: the thread that lost connection c

vars == <<connList, m_FreeConn, m_CurConn, reserve, open, pc, con, lost>>

\* "idle": outside the pool; "wait": in reserve.wait(), about to test the count;
\* "sleep": in its condition variable; "pop": before the section that takes a
\* connection; "use": GetConnection returned a connection; "none": it returned
\* NULL; "post": pushed back, before reserve.post(); "done": the thread has ended.
Places == {"idle", "wait", "sleep", "pop", "use", "none", "post", "done"}

At(p) == {t \in Threads : pc[t] = p}

TypeOK == /\ connList \in Seq(Conns)
          /\ m_FreeConn \in Nat
          /\ m_CurConn \in Nat
          /\ reserve \in Nat
          /\ open \in SUBSET Conns
          /\ pc \in [Threads -> Places]
          /\ con \in [Threads -> Conns \cup {NoConn}]
          /\ lost \in [Conns -> Threads \cup {NoConn}]

\* init(): every connection is opened, pushed and counted.
Init == /\ connList \in [1..Cardinality(Conns) -> Conns]
        /\ \A i, j \in DOMAIN connList : connList[i] = connList[j] => i = j
        /\ m_FreeConn = Cardinality(Conns)
        /\ m_CurConn = 0
        /\ reserve = Cardinality(Conns)
        /\ open = Conns
        /\ pc = [t \in Threads |-> "idle"]
        /\ con = [t \in Threads |-> NoConn]
        /\ lost = [c \in Conns |-> NoConn]

Goto(t, p) == pc' = [pc EXCEPT ![t] = p]

pool == <<connList, m_FreeConn, m_CurConn, reserve, open>>
hands == <<con, lost>>

-----------------------------------------------------------------------------
(* GetConnection *)

\* Fault: the unlocked test is trusted and the semaphore skipped.
GetTestOnly(t) == /\ pc[t] = "idle"
                  /\ Goto(t, IF Len(connList) = 0 THEN "none" ELSE "pop")
                  /\ UNCHANGED <<pool, hands>>

\* The test of connList.size() takes no lock: the answer may be out of date
\* when the thread acts on it.
GetTest(t) == /\ pc[t] = "idle"
              /\ Goto(t, IF Len(connList) = 0 THEN "none" ELSE "wait")
              /\ UNCHANGED <<pool, hands>>

GetWait(t) == /\ pc[t] = "wait"
              /\ reserve > 0
              /\ reserve' = reserve - 1
              /\ Goto(t, "pop")
              /\ UNCHANGED <<connList, m_FreeConn, m_CurConn, open, hands>>

\* Nothing to take: the thread sleeps until it is notified, or wakes for no reason.
GetSleep(t) == /\ pc[t] = "wait"
               /\ reserve = 0
               /\ Goto(t, "sleep")
               /\ UNCHANGED <<pool, hands>>

SpuriousWakeup(t) == /\ pc[t] = "sleep"
                     /\ Goto(t, "wait")
                     /\ UNCHANGED <<pool, hands>>

\* Fault: front() without pop_front().
GetFront(t) == /\ pc[t] = "pop"
               /\ connList # <<>>
               /\ con' = [con EXCEPT ![t] = Head(connList)]
               /\ m_FreeConn' = m_FreeConn - 1
               /\ m_CurConn' = m_CurConn + 1
               /\ Goto(t, "use")
               /\ UNCHANGED <<connList, reserve, open, lost>>

\* front() of an empty std::list is undefined: NeverPopEmpty says that no
\* thread gets here with an empty list, so the guard hides nothing.
GetPop(t) == /\ pc[t] = "pop"
             /\ connList # <<>>
             /\ con' = [con EXCEPT ![t] = Head(connList)]
             /\ connList' = Tail(connList)
             /\ m_FreeConn' = m_FreeConn - 1
             /\ m_CurConn' = m_CurConn + 1
             /\ Goto(t, "use")
             /\ UNCHANGED <<reserve, open, lost>>

(* ReleaseConnection *)

ReleaseNull(t) == /\ pc[t] = "none"
                  /\ Goto(t, "idle")
                  /\ UNCHANGED <<pool, hands>>

\* Fault: the counters are moved the wrong way round.
ReleaseMiscount(t) == /\ pc[t] = "use"
                      /\ connList' = Append(connList, con[t])
                      /\ con' = [con EXCEPT ![t] = NoConn]
                      /\ m_FreeConn' = m_FreeConn - 1
                      /\ m_CurConn' = m_CurConn + 1
                      /\ Goto(t, "post")
                      /\ UNCHANGED <<reserve, open, lost>>

\* The connection that is given back is the one the thread got.
ReleasePush(t) == /\ pc[t] = "use"
                  /\ connList' = Append(connList, con[t])
                  /\ con' = [con EXCEPT ![t] = NoConn]
                  /\ m_FreeConn' = m_FreeConn + 1
                  /\ m_CurConn' = m_CurConn - 1
                  /\ Goto(t, "post")
                  /\ UNCHANGED <<reserve, open, lost>>

\* run() finds nullptr in request->mysql, or passes it on to ReleaseConnection.
Lose(t) == /\ pc[t] = "use"
           /\ lost' = [lost EXCEPT ![con[t]] = t]
           /\ con' = [con EXCEPT ![t] = NoConn]
           /\ Goto(t, "idle")
           /\ UNCHANGED pool

\* Fault: the post is forgotten.
ReleaseNoPost(t) == /\ pc[t] = "post"
                    /\ Goto(t, "idle")
                    /\ UNCHANGED <<pool, hands>>

\* Fault: only a post that finds the count at zero notifies.
ReleaseFromZero(t) ==
    /\ pc[t] = "post"
    /\ reserve' = reserve + 1
    /\ IF At("sleep") = {} \/ reserve > 0
       THEN Goto(t, "idle")
       ELSE \E s \in At("sleep") : pc' = [pc EXCEPT ![t] = "idle", ![s] = "wait"]
    /\ UNCHANGED <<connList, m_FreeConn, m_CurConn, open, hands>>

\* post() notifies one of the threads that sleep, inside its section.
ReleasePost(t) ==
    /\ pc[t] = "post"
    /\ reserve' = reserve + 1
    /\ IF At("sleep") = {}
       THEN Goto(t, "idle")
       ELSE \E s \in At("sleep") : pc' = [pc EXCEPT ![t] = "idle", ![s] = "wait"]
    /\ UNCHANGED <<connList, m_FreeConn, m_CurConn, open, hands>>

\* A worker returns from run(); the threads are joined before the pool dies.
Exit(t) == /\ pc[t] = "idle"
           /\ Goto(t, "done")
           /\ UNCHANGED <<pool, hands>>

-----------------------------------------------------------------------------
(* The static pool is destroyed after main(), when WebServer and with it   *)
(* the thread pool are gone: no thread is left.                            *)
DestroyPool ==
    /\ \A t \in Threads : pc[t] = "done"
    /\ Len(connList) > 0
    /\ open' = open \ {connList[i] : i \in DOMAIN connList}
    /\ m_CurConn' = 0
    /\ m_FreeConn' = 0
    /\ connList' = <<>>
    /\ UNCHANGED <<reserve, pc, hands>>

Ended == /\ \A t \in Threads : pc[t] = "done"
         /\ connList = <<>>
         /\ UNCHANGED vars

Step(t) == \/ GetTest(t) \/ GetWait(t) \/ GetSleep(t) \/ SpuriousWakeup(t) \/ GetPop(t)
           \/ ReleaseNull(t) \/ ReleasePush(t) \/ Lose(t) \/ ReleasePost(t)
           \/ Exit(t)

Next == \/ \E t \in Threads : Step(t)
        \/ DestroyPool
        \/ Ended

Spec == Init /\ [][Next]_vars

\* A thread that can take its next step is eventually scheduled; a thread need
\* not end.  Nothing is assumed of which waiter the semaphore wakes, nor that a
\* wait ends without a post.
Fairness == \A t \in Threads :
    /\ WF_vars(GetWait(t) \/ GetSleep(t)) /\ WF_vars(GetPop(t))
    /\ WF_vars(ReleaseNull(t)) /\ WF_vars(ReleasePush(t)) /\ WF_vars(ReleasePost(t))

FairSpec == Spec /\ Fairness

-----------------------------------------------------------------------------
(* Safety.                                                                 *)

Free == {connList[i] : i \in DOMAIN connList}

Lost == {c \in Conns : lost[c] # NoConn}

Closed == open # Conns

\* GetConnection never calls front() on an empty list, although it tests the
\* size without the lock (sql_connection_pool.cpp:67, :74): the semaphore lets
\* in no more threads than there are connections.
NeverPopEmpty == Cardinality(At("pop")) <= Len(connList)

\* The semaphore and the list agree up to the threads between the two: those
\* that passed wait() and have not popped, those that pushed and have not
\* posted (sql_connection_pool.cpp:70-80, :90-98).
Inventory ==
    ~Closed => reserve + Cardinality(At("pop")) + Cardinality(At("post")) = Len(connList)

\* A connection is free once, or in one thread's hands, or was lost by a thread, and
\* only one of these; what is lent or lost is not closed, and what a thread gives back
\* comes back (sql_connection_pool.cpp:74, :92, :121).
Exclusive ==
    /\ \A i, j \in DOMAIN connList : connList[i] = connList[j] => i = j
    /\ \A t \in Threads : con[t] # NoConn => con[t] \in open \ (Free \cup Lost)
    /\ \A t, u \in Threads : con[t] = con[u] /\ con[t] # NoConn => t = u
    /\ Lost \subseteq open \ Free
    /\ ~Closed => \A c \in Conns : c \in Free \cup Lost \/ \E t \in Threads : con[t] = c

\* The counters tell the truth: m_FreeConn, which GetFreeConn() reports, is the number
\* of free connections, and m_CurConn of those in use, a lost one being in use for ever
\* (sql_connection_pool.h:34, :35).
CountersExact ==
    /\ ~Closed => m_CurConn = Cardinality({t \in Threads : con[t] # NoConn}) + Cardinality(Lost)
    /\ m_FreeConn = Len(connList)

\* All of the pool's bookkeeping, whatever moment its readers see: no connection is
\* lent twice, none is lost but by Lose and none is taken from an empty list, also
\* when DestroyPool has closed them (sql_connection_pool.cpp:63-132).
IInv == TypeOK /\ NeverPopEmpty /\ Inventory /\ Exclusive /\ CountersExact

\* As long as there are no more threads, and connections lost, than connections nobody
\* is refused or made to wait: so it is with the defaults of config.cpp, 8 and 8, until
\* run() loses the first one, and from then on only when a thread is gone for each.
\* A thread that has ended is none.
EnoughForAll ==
    Cardinality({t \in Threads : pc[t] # "done"}) + Cardinality(Lost) <= Cardinality(Conns) =>
        /\ At("idle") # {} => connList # <<>>
        /\ At("wait") # {} => reserve > 0
        /\ At("sleep") = {}

(* Liveness. *)

\* The semaphore loses no wake-up: when threads wait in GetConnection, asleep or
\* not, one of them eventually passes (sql_connection_pool.cpp:70, :98), unless every
\* connection is lost.
WaitersServed == (At("wait") \cup At("sleep") # {}) ~> (At("pop") # {} \/ Lost = Conns)

-----------------------------------------------------------------------------
(* The pool implements ResourcePool: the list, the counters and the        *)
(* semaphore are bookkeeping.  A connection that was lost stays lent to    *)
(* the thread that lost it.                                                *)
ownerBar == [c \in Conns |->
                IF \E t \in Threads : con[t] = c
                THEN CHOOSE t \in Threads : con[t] = c
                ELSE lost[c]]

Abstract == INSTANCE ResourcePool
                WITH Clients <- Threads, Resources <- Conns, Nobody <- NoConn,
                     owner <- ownerBar

ImplementsResourcePool == Abstract!Spec

(* It uses its semaphore as Semaphore describes. *)

\* The places of a thread that the monitor knows.
place == [t \in Threads |-> CASE pc[t] = "wait" -> "test"
                              [] pc[t] = "sleep" -> "sleep"
                              [] OTHER -> "out"]

Monitor == INSTANCE Semaphore
    WITH Initial <- Cardinality(Conns), MaxCount <- Cardinality(Conns), m_count <- reserve,
         pc <- place

\* Seen through `reserve` alone every step is one of the monitor: GetConnection and
\* ReleaseConnection change the count only by its operations, no post() goes
\* unnoticed by a sleeper, and the count stays within the number of connections,
\* whatever the list does meanwhile (sql_connection_pool.cpp:70, :98; locker.h:43-61).
ImplementsSemaphore == Monitor!Spec
=============================================================================
