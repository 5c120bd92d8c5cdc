-------------------------- MODULE WorkerConnections --------------------------
(***************************************************************************)
(* How a worker borrows a MySQL connection for a request: run() stores it  *)
(* in request->mysql, calls process(), and gives back what request->mysql  *)
(* holds then.  But process() ends by arming the descriptor, and from then *)
(* on the main thread may reset the http_conn or give it to another        *)
(* worker.                                                                 *)
(*                                                                         *)
(* The pool is what ConnectionPool implements: connections are lent one at *)
(* a time and NULL is the answer when there is none.  ConnectionPool takes *)
(* it that a thread gives back the connection it got or none: whether that *)
(* is so, and when it is none, is examined here.                           *)
(***************************************************************************)
EXTENDS Naturals, Sequences, FiniteSets

CONSTANTS
    Fds,        \* descriptors, each with its http_conn
    Workers,
    Conns,      \* the connections of the pool
    NULL        \* nullptr, no connection

VARIABLES
    at,        \* at[fd]: "in", "out" (armed), "queued", "taken"
    mysql,     \* mysql[fd]: the member of the http_conn
    pc,        \* pc[w]: where worker w is in run()
    request,   \* request[w]: the descriptor of its request
    connList   \* the free connections

vars == <<at, mysql, pc, request, connList>>

\* "null" is before the assignment of nullptr.
Places == {"idle", "get", "process", "test", "release", "null"}

TypeOK == /\ at \in [Fds -> {"in", "out", "queued", "taken"}]
          /\ mysql \in [Fds -> Conns \cup {NULL}]
          /\ pc \in [Workers -> Places]
          /\ request \in [Workers -> Fds]
          /\ connList \in Seq(Conns)

Init == /\ at = [fd \in Fds |-> "in"]
        /\ mysql = [fd \in Fds |-> NULL]
        /\ pc = [w \in Workers |-> "idle"]
        /\ request \in {[w \in Workers |-> fd] : fd \in Fds}
        /\ connList \in {s \in [1..Cardinality(Conns) -> Conns] :
                            \A i, j \in DOMAIN s : s[i] = s[j] => i = j}

-----------------------------------------------------------------------------
(* The main thread. *)

Read(fd) == /\ at[fd] = "in"
            /\ at' = [at EXCEPT ![fd] = "queued"]
            /\ UNCHANGED <<mysql, pc, request, connList>>

\* init(): after the answer was written, or for the next client on the descriptor
\* once this one is closed.  That the timer may close a descriptor whose request is
\* queued or with a worker is WebServer's subject and not repeated here.
Renew(fd) == /\ at[fd] \in {"in", "out"}
             /\ at' = [at EXCEPT ![fd] = "in"]
             /\ mysql' = [mysql EXCEPT ![fd] = NULL]
             /\ UNCHANGED <<pc, request, connList>>

-----------------------------------------------------------------------------
(* run *)

Goto(w, p) == pc' = [pc EXCEPT ![w] = p]

Take(w) == /\ pc[w] = "idle"
           /\ \E fd \in Fds : /\ at[fd] = "queued"
                              /\ at' = [at EXCEPT ![fd] = "taken"]
                              /\ request' = [request EXCEPT ![w] = fd]
           /\ Goto(w, "get")
           /\ UNCHANGED <<mysql, connList>>

GetConnection(w) ==
    LET c == IF connList = <<>> THEN NULL ELSE Head(connList)
    IN  /\ pc[w] = "get"
        /\ mysql' = [mysql EXCEPT ![request[w]] = c]
        /\ connList' = IF connList = <<>> THEN connList ELSE Tail(connList)
        /\ Goto(w, "process")
        /\ UNCHANGED <<at, request>>

\* process(), with the modfd it ends with.
Process(w) ==
    /\ pc[w] = "process"
    /\ \E ev \in {"in", "out"} : at' = [at EXCEPT ![request[w]] = ev]
    /\ Goto(w, "test")
    /\ UNCHANGED <<mysql, request, connList>>

Test(w) == /\ pc[w] = "test"
           /\ Goto(w, IF mysql[request[w]] = NULL THEN "idle" ELSE "release")
           /\ UNCHANGED <<at, mysql, request, connList>>

\* ReleaseConnection does nothing when the member is NULL by now.
ReleaseConnection(w) ==
    /\ pc[w] = "release"
    /\ connList' = IF mysql[request[w]] = NULL THEN connList
                   ELSE Append(connList, mysql[request[w]])
    /\ Goto(w, "null")
    /\ UNCHANGED <<at, mysql, request>>

SetNull(w) == /\ pc[w] = "null"
              /\ mysql' = [mysql EXCEPT ![request[w]] = NULL]
              /\ Goto(w, "idle")
              /\ UNCHANGED <<at, request, connList>>

Run(w) == \/ Take(w) \/ GetConnection(w) \/ Process(w)
          \/ Test(w) \/ ReleaseConnection(w) \/ SetNull(w)

Next == \/ \E fd \in Fds : Read(fd) \/ Renew(fd)
        \/ \E w \in Workers : Run(w)

Spec == Init /\ [][Next]_vars

-----------------------------------------------------------------------------

\* When no worker is busy every connection is back in the pool, once
\* ("GetConnection, process, ReleaseConnection", threadpool/README.md:120-122).
NothingLost == (\A w \in Workers : pc[w] = "idle") =>
                   /\ Len(connList) = Cardinality(Conns)
                   /\ \A c \in Conns : \E i \in DOMAIN connList : connList[i] = c
=============================================================================
