------------------------------ MODULE Sessions ------------------------------
(***************************************************************************)
(* Sessions in Redis: RedisManager's one connection, which notices that it *)
(* is broken when a command is sent over it, and the logins, checks and    *)
(* logouts of http_conn::do_request that send them.  m_lock makes every    *)
(* call of setSession, getSession and delSession one action.               *)
(*                                                                         *)
(* Redis is taken to keep its keys when it stops, and the server to keep   *)
(* nothing.  Users makes a specification of these actions.                 *)
(***************************************************************************)
EXTENDS Naturals, FiniteSets

CONSTANTS
    Tokens,    \* what create_session may draw; it draws one once
    MaxBreaks  \* bound: how often the connection is lost

VARIABLES
    redis,     \* Redis is running
    link,      \* it is at the other end of m_ctx
    m_ctx,     \* "null" or "ok": a context with err set is replaced in the call
               \* that set it
    sessions,  \* the keys session:<token> in Redis
    cookie,    \* the tokens clients have been given
    breaks,    \* history: how often the connection was lost
    failures   \* history: how many commands got no reply while Redis was running

TypeOK == /\ redis \in BOOLEAN /\ link \in BOOLEAN
          /\ m_ctx \in {"null", "ok"}
          /\ sessions \in SUBSET Tokens
          /\ cookie \in SUBSET Tokens
          /\ breaks \in 0..MaxBreaks
          /\ failures \in Nat

\* main() goes on when connect() has failed.
Init == /\ redis \in BOOLEAN
        /\ link = redis
        /\ m_ctx = IF redis THEN "ok" ELSE "null"
        /\ sessions = {} /\ cookie = {}
        /\ breaks = 0 /\ failures = 0

-----------------------------------------------------------------------------
(* Redis *)

Lost == /\ link /\ breaks < MaxBreaks
        /\ link' = FALSE
        /\ breaks' = breaks + 1

\* An idle connection is ended, or Redis was restarted.
LinkEnds == Lost /\ UNCHANGED <<redis, m_ctx, sessions, cookie, failures>>

RedisStops == /\ Lost /\ redis
              /\ redis' = FALSE
              /\ UNCHANGED <<m_ctx, sessions, cookie, failures>>

RedisStarts == /\ redis' = TRUE
               /\ UNCHANGED <<link, m_ctx, sessions, cookie, breaks, failures>>

\* The key has lived for session_ttl seconds.
Expires(t) == /\ t \in sessions
              /\ sessions' = sessions \ {t}
              /\ UNCHANGED <<redis, link, m_ctx, cookie, breaks, failures>>

-----------------------------------------------------------------------------
(* RedisManager *)

\* disconnect() and connect().
reconnect == /\ link' = redis
             /\ m_ctx' = IF redis THEN "ok" ELSE "null"

Failed == failures' = failures + (IF redis THEN 1 ELSE 0)

\* There is no context and none can be made.
NoContext == m_ctx = "null" /\ ~redis /\ reconnect /\ Failed /\ UNCHANGED breaks

\* Fault: the context is kept.
ReplyLostKeeps == /\ m_ctx = "ok" /\ ~link
                  /\ Failed /\ UNCHANGED <<link, m_ctx, breaks>>

\* The command's reply is NULL: reconnect, and do not repeat it.
ReplyLost == m_ctx = "ok" /\ ~link /\ reconnect /\ Failed /\ UNCHANGED breaks

\* The reply does not come in time, but the command is carried out.
ReplyLate == /\ m_ctx = "ok" /\ link /\ breaks < MaxBreaks
             /\ reconnect /\ Failed /\ breaks' = breaks + 1

\* There is a reply: the one asked for, or an error, which changes nothing and leaves
\* the connection as it is.
Replied == /\ IF m_ctx = "null" THEN redis /\ reconnect
                                ELSE link /\ UNCHANGED <<link, m_ctx>>
           /\ UNCHANGED <<breaks, failures>>

\* One call, which leaves `effect` in Redis unless it fails.
Command(effect) == \/ (NoContext \/ ReplyLost \/ Replied) /\ UNCHANGED sessions
                   \/ (ReplyLate \/ Replied) /\ sessions' = effect

-----------------------------------------------------------------------------
(* do_request *)

\* POST /2 with the right password: the cookie is set whatever setSession returned.
Login(t) == /\ t \notin cookie
            /\ Command(sessions \cup {t})
            /\ cookie' = cookie \cup {t}
            /\ UNCHANGED redis

\* GET /, with a cookie.  What the client sees of the reply is HttpRoute's.
Visit(t) == /\ t \in cookie
            /\ Command(sessions)
            /\ UNCHANGED <<redis, cookie>>

\* /4: the client is told to forget the cookie whatever delSession returned.
Logout(t) == /\ t \in cookie
             /\ Command(sessions \ {t})
             /\ UNCHANGED <<redis, cookie>>

\* The server is started again: a new RedisManager.
Restart == /\ reconnect
           /\ UNCHANGED <<redis, sessions, cookie, breaks, failures>>

\* A step of Redis, and what a client does to a session it has.
Redis == LinkEnds \/ RedisStops \/ RedisStarts \/ \E t \in Tokens : Expires(t)
Use(t) == Visit(t) \/ Logout(t)
=============================================================================
