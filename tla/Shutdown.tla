------------------------------ MODULE Shutdown ------------------------------
(***************************************************************************)
(* The end of the server: SIGTERM reaches the event loop through the pipe, *)
(* the loop ends with its batch, and main() destroys the WebServer and     *)
(* then the static objects, one after the other, while the workers of      *)
(* ThreadPool are at work on what they were given.                         *)
(*                                                                         *)
(* A worker in process() uses its http_conn (an element of `users`), the   *)
(* MySQL pool, Redis and the log, the path m_root and the epoll instance.  *)
(***************************************************************************)
EXTENDS ThreadPool

VARIABLES
    signal,       \* the pipe holds a SIGTERM
    stop_server,  \* of eventLoop
    down          \* how many of the parts in Order are destroyed

server == <<signal, stop_server, down>>
allVars == <<vars, server>>

\* Fault: `users` is declared after m_pool and destroyed before it.
OrderUsersFirst == <<"fds", "m_root", "timers", "users", "m_pool",
                     "connection_pool", "Log", "RedisManager">>

\* The destructor's body, then the members in the reverse of their declarations,
\* then the static objects in the reverse of their first uses.
Order == <<"fds", "m_root", "timers", "m_pool", "users",
           "connection_pool", "Log", "RedisManager">>

Alive(part) == \A i \in 1..down : Order[i] # part

ServerTypeOK == /\ TypeOK
                /\ signal \in BOOLEAN /\ stop_server \in BOOLEAN
                /\ down \in 0..Len(Order)

ServerInit == /\ Init
              /\ signal = FALSE
              /\ stop_server = FALSE
              /\ down = 0

-----------------------------------------------------------------------------

\* SIGTERM: the handler sends a byte into the pipe.
sig_handler == /\ Alive("fds") /\ ~signal
               /\ signal' = TRUE
               /\ UNCHANGED <<vars, stop_server, down>>

\* The rest of the batch is still handled, and may append.
dealwithsignal == /\ main = "up" /\ down = 0
                  /\ signal
                  /\ signal' = FALSE
                  /\ stop_server' = TRUE
                  /\ UNCHANGED <<vars, down>>

\* The loop has ended.  m_pool is destroyed by stop(): the next part follows when
\* that has returned.
Destroy == /\ stop_server
           /\ down < Len(Order)
           /\ main = IF Alive("m_pool") /\ Order[down + 1] # "m_pool" THEN "up" ELSE "done"
           /\ down' = down + 1
           /\ UNCHANGED <<vars, signal, stop_server>>

\* What ThreadPool's threads do, with the event loop running or not.
AppendInLoop == AppendTest /\ down = 0 /\ UNCHANGED server
StopPool == StopSet /\ down < Len(Order) /\ Order[down + 1] = "m_pool" /\ UNCHANGED server
PoolStep == (AppendPush \/ AppendNotify \/ StopNotify \/ StopJoined) /\ UNCHANGED server
WorkerStep(w) == Run(w) /\ UNCHANGED server
WakeStep(w) == SpuriousWakeup(w) /\ UNCHANGED server

ProcessEnded == down = Len(Order) /\ UNCHANGED allVars

ServerNext == \/ sig_handler \/ dealwithsignal \/ Destroy
              \/ AppendInLoop \/ StopPool \/ PoolStep
              \/ \E w \in Workers : WorkerStep(w) \/ WakeStep(w)
              \/ ProcessEnded

ServerSpec == ServerInit /\ [][ServerNext]_allVars

\* The scheduler runs every thread that can run, and process() returns.  The main
\* thread need not append, SIGTERM need not come, a wait need not end by itself.
FairSpec == /\ ServerSpec
            /\ WF_allVars(dealwithsignal) /\ WF_allVars(Destroy)
            /\ WF_allVars(StopPool) /\ WF_allVars(PoolStep)
            /\ \A w \in Workers : WF_allVars(WorkerStep(w))

-----------------------------------------------------------------------------

\* While a worker serves a request its http_conn, the MySQL pool, the log and the
\* Redis connection exist, and the queue as long as there are workers: the order of
\* the members in webserver.h:58 and :70 and the join in ~threadpool see to it,
\* although requests taken before SIGTERM are served during the destruction.
UsedWhileAlive ==
    \A w \in Workers :
        /\ worker[w] = "run" => \A part \in {"users", "connection_pool", "Log", "RedisManager"} :
                                    Alive(part)
        /\ worker[w] # "gone" => Alive("m_pool")

\* The threads end safely ("make sure all threads end safely", threadpool.h:90): a
\* worker that still serves a request finds the path that do_request copies from
\* (http_conn.cpp:501).
RootWhileServing == \A w \in Workers : worker[w] = "run" => Alive("m_root")
=============================================================================
