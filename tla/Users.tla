------------------------------- MODULE Users --------------------------------
(***************************************************************************)
(* The users of the server: the Accounts they register and log in to, the  *)
(* Sessions a login begins, and the restarts of the server, which find     *)
(* both the table and the sessions as they were.                           *)
(***************************************************************************)
EXTENDS Naturals, Sequences, FiniteSets

CONSTANTS
    Workers, Names, Passwds,
    MaxRequests,  \* bound: registrations
    NULL,         \* users has no entry
    Tokens,       \* what create_session may draw; it draws one once
    MaxBreaks     \* bound: how often the connection to Redis is lost

ASSUME UsersAssumption == /\ NULL \notin Passwds \cup Names
                          /\ MaxRequests \in Nat /\ MaxBreaks \in Nat

VARIABLES
    table, users, pc, req, res, confirmed, unbacked, loaded, requests,
    redis, link, m_ctx, sessions, cookie, breaks, failures,
    who,          \* who[t]: the name create_session stored under t
    ghosts        \* history: the logins to a name that was unbacked then

A == INSTANCE Accounts
S == INSTANCE Sessions

accounts == <<table, users, pc, req, res, confirmed, unbacked, loaded, requests>>
redisSide == <<redis, link, m_ctx, sessions, cookie, breaks, failures>>
logins == <<who, ghosts>>
vars == <<accounts, redisSide, logins>>

TypeOK == /\ A!TypeOK /\ S!TypeOK
          /\ who \in [Tokens -> Names \cup {NULL}]
          /\ ghosts \in SUBSET Tokens

Init == A!Init /\ S!Init /\ who = [t \in Tokens |-> NULL] /\ ghosts = {}

-----------------------------------------------------------------------------

Register == (\E w \in Workers : A!Work(w)) /\ UNCHANGED <<redisSide, logins>>

\* POST /2: with the password that `users` has, a session begins.
Login(a, t) == /\ A!LogsIn(a)
               /\ S!Login(t)
               /\ who' = [who EXCEPT ![t] = a.name]
               /\ ghosts' = ghosts \cup IF a.name \in unbacked THEN {t} ELSE {}
               /\ UNCHANGED accounts

UseSession == (\E t \in Tokens : S!Use(t)) /\ UNCHANGED <<accounts, logins>>

Redis == S!Redis /\ UNCHANGED <<accounts, logins>>

\* The server dies, at any moment, and is started again.
Restart == A!Restart /\ S!Restart /\ UNCHANGED logins

Next == \/ Register \/ UseSession \/ Redis \/ Restart
        \/ \E a \in A!Accts, t \in Tokens : Login(a, t)

Spec == Init /\ [][Next]_vars

-----------------------------------------------------------------------------

\* Whose session is in Redis is a user of the server, though it was restarted since
\* the login: a visit is let in on the session alone (http_conn.cpp:336-344).  Not so
\* where the login was to a name whose INSERT had failed (http_conn.cpp:536), or
\* where the server came up without its users.
SessionHasUser == \A t \in sessions : loaded => users[who[t]] # NULL \/ t \in ghosts

\* "Login is verified against the table of MySQL" (http/README.md:25): what `users`
\* holds of a name is a row, over any race of registrations and any restart, but for
\* the names it took from an INSERT that failed (http_conn.cpp:535-536).
LoginHasRow == \A n \in Names \ unbacked :
    users[n] # NULL => \E i \in DOMAIN table : table[i] = [name |-> n, passwd |-> users[n]]

\* Who was told to be registered can log in, now and after any restart
\* (http_conn.cpp:535-541, :107-112), but in three cases: somebody else was told the
\* same of the name, an INSERT of the name had failed before, or the SELECT did.
ConfirmedLogsIn == \A a \in confirmed :
    loaded /\ A!NoRace(a.name) /\ a.name \notin unbacked => A!LogsIn(a)

\* The password of a name in memory changes in the same three cases only: no
\* registration touches it (http_conn.cpp:536), and a restart gives it back.
PasswordStays == [][\A n \in Names :
    users[n] # NULL /\ users'[n] # users[n] =>
        ~A!NoRace(n) \/ n \in unbacked \/ ~loaded']_users

\* A lost connection costs one command at most, however long Redis was away and
\* wherever it was lost: the call that notices makes a new one
\* (redis_manager.cpp:72, :79-84, :102-107, :127-132).
OneFailurePerBreak == failures <= breaks
=============================================================================
