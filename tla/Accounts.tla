------------------------------ MODULE Accounts ------------------------------
(***************************************************************************)
(* Registration and login in http_conn::do_request: the table `user` of    *)
(* the database, its copy `users` in memory, which initmysql_result fills  *)
(* at start-up, and the workers that register and log in.                  *)
(*                                                                         *)
(* A worker looks the name up without m_lock, then inserts a row and an    *)
(* entry of `users` under m_lock.  A look-up that runs into another        *)
(* worker's insert is taken to happen before or after it.                  *)
(*                                                                         *)
(* The table that init.sql:1-4 and README.md:196 create has no key: an     *)
(* INSERT of a name that is there succeeds.  The one of                    *)
(* http/README.md:104-107 has one.  Any INSERT may fail, for the key or    *)
(* for the connection, so that the behaviours with a key are among these.  *)
(* Users makes a specification of these actions.                           *)
(***************************************************************************)
EXTENDS Naturals, Sequences

CONSTANTS
    Workers,
    Names,
    Passwds,
    MaxRequests,  \* bound: registrations and logins
    NULL          \* users has no entry

VARIABLES
    table,      \* the rows of the table, in the order of insertion
    users,      \* users[name]: a password, or NULL
    pc,         \* pc[w]: "idle", "lock": has not found the name; "insert": in m_lock,
                \* after the query
    req,        \* req[w]: the name and password of w's request
    res,        \* res[w]: the query succeeded
    confirmed,  \* history: what clients were told is registered
    unbacked,   \* history: the names in `users` whose INSERT failed
    loaded,     \* history: the SELECT of this start succeeded
    requests    \* how many requests there have been

Accts == [name : Names, passwd : Passwds]

TypeOK == /\ table \in Seq(Accts)
          /\ users \in [Names -> Passwds \cup {NULL}]
          /\ pc \in [Workers -> {"idle", "lock", "insert"}]
          /\ req \in [Workers -> Accts]
          /\ res \in [Workers -> BOOLEAN]
          /\ confirmed \in SUBSET Accts
          /\ unbacked \in SUBSET Names
          /\ loaded \in BOOLEAN
          /\ requests \in 0..MaxRequests

Init == /\ table = <<>>
        /\ users = [n \in Names |-> NULL]
        /\ pc = [w \in Workers |-> "idle"]
        /\ req \in {[w \in Workers |-> a] : a \in Accts}
        /\ res = [w \in Workers |-> FALSE]
        /\ confirmed = {} /\ unbacked = {} /\ loaded = TRUE
        /\ requests = 0

LockFree == \A w \in Workers : pc[w] # "insert"
Goto(w, p) == pc' = [pc EXCEPT ![w] = p]
Arrives == requests < MaxRequests /\ requests' = requests + 1

-----------------------------------------------------------------------------
(* POST /3 *)

\* A name that is taken is refused: registerError.html.
Register(w, a) ==
    /\ pc[w] = "idle" /\ Arrives
    /\ req' = [req EXCEPT ![w] = a]
    /\ Goto(w, IF users[a.name] = NULL THEN "lock" ELSE "idle")
    /\ UNCHANGED <<table, users, res, confirmed, unbacked, loaded>>

\* mysql_query, in m_lock.
Query(w) ==
    /\ pc[w] = "lock" /\ LockFree
    /\ \E ok \in BOOLEAN :
         /\ res' = [res EXCEPT ![w] = ok]
         /\ table' = IF ok THEN Append(table, req[w]) ELSE table
    /\ Goto(w, "insert")
    /\ UNCHANGED <<users, req, confirmed, unbacked, loaded, requests>>

\* What the outcome of the query makes of `users` and of what the client is told.
Record(w) ==
    /\ unbacked' = unbacked \cup IF ~res[w] /\ users[req[w].name] = NULL
                                 THEN {req[w].name} ELSE {}
    /\ Goto(w, "idle")
    /\ UNCHANGED <<table, req, res, loaded, requests>>

\* Fault: users[name] = password.
InsertOverwrites(w) ==
    /\ pc[w] = "insert"
    /\ users' = [users EXCEPT ![req[w].name] = req[w].passwd]
    /\ confirmed' = confirmed \cup IF res[w] THEN {req[w]} ELSE {}
    /\ Record(w)

\* Fault: the result of the query is not looked at.
InsertConfirms(w) ==
    /\ pc[w] = "insert"
    /\ users' = [users EXCEPT ![req[w].name] = IF @ = NULL THEN req[w].passwd ELSE @]
    /\ confirmed' = confirmed \cup {req[w]}
    /\ Record(w)

\* users.insert, which keeps an entry that is there, whatever the query said; the
\* client is told what the query said.
Insert(w) ==
    /\ pc[w] = "insert"
    /\ users' = [users EXCEPT ![req[w].name] = IF @ = NULL THEN req[w].passwd ELSE @]
    /\ confirmed' = confirmed \cup IF res[w] THEN {req[w]} ELSE {}
    /\ Record(w)

-----------------------------------------------------------------------------

\* Fault: the first row of a name is skipped with the header.
LoadedSkip(n) == LET rows == {i \in DOMAIN table : i > 1 /\ table[i].name = n}
                 IN  IF rows = {} THEN NULL
                     ELSE table[CHOOSE i \in rows : \A j \in rows : j <= i].passwd

\* users[name] after initmysql_result: the last row counts.
Loaded(n) == LET rows == {i \in DOMAIN table : table[i].name = n}
             IN  IF rows = {} THEN NULL
                 ELSE table[CHOOSE i \in rows : \A j \in rows : j <= i].passwd

\* The server dies, at any moment, and is started again; when its SELECT fails it goes
\* on with no users.
Restart == /\ loaded' \in BOOLEAN
           /\ users' = [n \in Names |-> IF loaded' THEN Loaded(n) ELSE NULL]
           /\ unbacked' = {}
           /\ pc' = [w \in Workers |-> "idle"]
           /\ res' = [w \in Workers |-> FALSE]
           /\ UNCHANGED <<table, req, confirmed, requests>>

\* One step of a worker.
Work(w) == (\E a \in Accts : Register(w, a)) \/ Query(w) \/ Insert(w)

-----------------------------------------------------------------------------

\* POST /2 lets a client in.
LogsIn(a) == users[a.name] = a.passwd

\* Nobody else registered the name too: the table has one row of it at most.
NoRace(n) == \A i, j \in DOMAIN table : table[i].name = n /\ table[j].name = n => i = j
=============================================================================
