----------------------------- MODULE ThreadPool -----------------------------
(***************************************************************************)
(* threadpool<T> of threadpool/threadpool.h: the bounded queue, its mutex  *)
(* and condition variable, the workers of run() and the main thread, which *)
(* calls append and, from the destructor, stop.  Shutdown composes it with *)
(* the rest of the server's end.                                           *)
(*                                                                         *)
(* A section under m_queue_mutex is one action, with one exception: a      *)
(* worker that finds the predicate of cv.wait false still holds the mutex  *)
(* for a moment before it is a waiter ("block").  m_stop is set without    *)
(* the mutex and may be set just then.                                     *)
(***************************************************************************)
EXTENDS Naturals, Sequences, FiniteSets

CONSTANTS
    Workers,       \* the threads of m_threads
    max_requests,  \* m_max_requests
    MaxTasks       \* bound: calls of append

\* The constructor throws when thread_num or max_requests is not positive.
ASSUME ThreadPoolAssumption == /\ Workers # {}
                               /\ max_requests \in Nat \ {0}
                               /\ MaxTasks \in Nat

VARIABLES
    m_workqueue,  \* the accepted requests no worker has taken
    m_stop,       \* the stop flag
    calls,        \* calls of append so far; the k-th call appends request k
    accepted,     \* the requests append returned true for
    finished,     \* the requests process() returned from
    worker,       \* worker[w]: where worker w is
    job,          \* job[w]: the request w has taken, or 0
    main          \* where the main thread is

vars == <<m_workqueue, m_stop, calls, accepted, finished, worker, job, main>>

Requests == 1..MaxTasks

\* "idle": before the mutex; "block": the predicate was false and the mutex is
\* still held; "wait": a waiter of m_queue_cv; "run": in process(); "gone":
\* returned from run().
WorkerPlaces == {"idle", "block", "wait", "run", "gone"}

\* "up": in the event loop; "push": in append, past the test of m_stop;
\* "notify": before notify_one; "stop": in stop(), m_stop is set; "join":
\* notified all; "done": stop() has returned.
MainPlaces == {"up", "push", "notify", "stop", "join", "done"}

TypeOK == /\ m_workqueue \in Seq(Requests)
          /\ m_stop \in BOOLEAN
          /\ calls \in 0..MaxTasks
          /\ accepted \in SUBSET Requests
          /\ finished \in SUBSET Requests
          /\ worker \in [Workers -> WorkerPlaces]
          /\ job \in [Workers -> Requests \cup {0}]
          /\ main \in MainPlaces

Init == /\ m_workqueue = <<>>
        /\ m_stop = FALSE
        /\ calls = 0
        /\ accepted = {}
        /\ finished = {}
        /\ worker = [w \in Workers |-> "idle"]
        /\ job = [w \in Workers |-> 0]
        /\ main = "up"

MutexFree == \A w \in Workers : worker[w] # "block"

Waiters == {w \in Workers : worker[w] = "wait"}

WakeOne == IF Waiters = {}
           THEN UNCHANGED worker
           ELSE \E w \in Waiters : worker' = [worker EXCEPT ![w] = "idle"]

-----------------------------------------------------------------------------
(* append and append_p *)

\* The main thread is the only caller and has not called stop: it never finds
\* m_stop set here.
AppendTest == /\ main = "up"
              /\ calls < MaxTasks
              /\ calls' = calls + 1
              /\ main' = IF m_stop THEN "up" ELSE "push"
              /\ UNCHANGED <<m_workqueue, m_stop, accepted, finished, worker, job>>

\* Fault: nothing is notified after the push.
AppendSilently ==
    /\ main = "push"
    /\ MutexFree
    /\ IF Len(m_workqueue) >= max_requests
       THEN UNCHANGED <<m_workqueue, accepted>>
       ELSE /\ m_workqueue' = Append(m_workqueue, calls)
            /\ accepted' = accepted \cup {calls}
    /\ main' = "up"
    /\ UNCHANGED <<m_stop, calls, finished, worker, job>>

AppendPush ==
    /\ main = "push"
    /\ MutexFree
    /\ IF Len(m_workqueue) >= max_requests
       THEN main' = "up" /\ UNCHANGED <<m_workqueue, accepted>>
       ELSE /\ m_workqueue' = Append(m_workqueue, calls)
            /\ accepted' = accepted \cup {calls}
            /\ main' = "notify"
    /\ UNCHANGED <<m_stop, calls, finished, worker, job>>

AppendNotify == /\ main = "notify"
                /\ WakeOne
                /\ main' = "up"
                /\ UNCHANGED <<m_workqueue, m_stop, calls, accepted, finished, job>>

-----------------------------------------------------------------------------
(* run *)

\* Fault: front() without pop().
TakeFront(w) == /\ worker[w] = "idle"
                /\ MutexFree
                /\ m_workqueue # <<>>
                /\ job' = [job EXCEPT ![w] = Head(m_workqueue)]
                /\ worker' = [worker EXCEPT ![w] = "run"]
                /\ UNCHANGED <<m_workqueue, m_stop, calls, accepted, finished, main>>

Take(w) == /\ worker[w] = "idle"
           /\ MutexFree
           /\ m_workqueue # <<>>
           /\ job' = [job EXCEPT ![w] = Head(m_workqueue)]
           /\ m_workqueue' = Tail(m_workqueue)
           /\ worker' = [worker EXCEPT ![w] = "run"]
           /\ UNCHANGED <<m_stop, calls, accepted, finished, main>>

Leave(w) == /\ worker[w] = "idle"
            /\ MutexFree
            /\ m_stop /\ m_workqueue = <<>>
            /\ worker' = [worker EXCEPT ![w] = "gone"]
            /\ UNCHANGED <<m_workqueue, m_stop, calls, accepted, finished, job, main>>

PredicateFalse(w) ==
    /\ worker[w] = "idle"
    /\ MutexFree
    /\ ~m_stop /\ m_workqueue = <<>>
    /\ worker' = [worker EXCEPT ![w] = "block"]
    /\ UNCHANGED <<m_workqueue, m_stop, calls, accepted, finished, job, main>>

\* cv.wait releases the mutex and becomes a waiter in one step.
Wait(w) == /\ worker[w] = "block"
           /\ worker' = [worker EXCEPT ![w] = "wait"]
           /\ UNCHANGED <<m_workqueue, m_stop, calls, accepted, finished, job, main>>

SpuriousWakeup(w) ==
    /\ worker[w] = "wait"
    /\ worker' = [worker EXCEPT ![w] = "idle"]
    /\ UNCHANGED <<m_workqueue, m_stop, calls, accepted, finished, job, main>>

\* process() returns.
Finish(w) == /\ worker[w] = "run"
             /\ finished' = finished \cup {job[w]}
             /\ job' = [job EXCEPT ![w] = 0]
             /\ worker' = [worker EXCEPT ![w] = "idle"]
             /\ UNCHANGED <<m_workqueue, m_stop, calls, accepted, main>>

-----------------------------------------------------------------------------
(* stop, called by the destructor on the main thread *)

StopSet == /\ main = "up"
           /\ m_stop' = TRUE
           /\ main' = "stop"
           /\ UNCHANGED <<m_workqueue, calls, accepted, finished, worker, job>>

StopNotify == /\ main = "stop"
              /\ worker' = [w \in Workers |-> IF w \in Waiters THEN "idle" ELSE worker[w]]
              /\ main' = "join"
              /\ UNCHANGED <<m_workqueue, m_stop, calls, accepted, finished, job>>

\* Fault: the workers are not joined.
StopNoJoin == /\ main = "join"
              /\ main' = "done"
              /\ UNCHANGED <<m_workqueue, m_stop, calls, accepted, finished, worker, job>>

StopJoined == /\ main = "join"
              /\ \A w \in Workers : worker[w] = "gone"
              /\ main' = "done"
              /\ UNCHANGED <<m_workqueue, m_stop, calls, accepted, finished, worker, job>>

Main == AppendTest \/ AppendPush \/ AppendNotify \/ StopSet \/ StopNotify \/ StopJoined

Run(w) == Take(w) \/ Leave(w) \/ PredicateFalse(w) \/ Wait(w) \/ Finish(w)

Ended == main = "done" /\ UNCHANGED vars

Next == \/ Main
        \/ \E w \in Workers : Run(w) \/ SpuriousWakeup(w)
        \/ Ended

Spec == Init /\ [][Next]_vars

-----------------------------------------------------------------------------
(* Safety. *)

Queued == {m_workqueue[i] : i \in DOMAIN m_workqueue}
Running == {job[w] : w \in {v \in Workers : worker[v] = "run"}}

\* An accepted request is in exactly one place, and only there: once in the
\* queue, in the hands of one worker, or done (threadpool.h:150-151).
InOnePlace ==
    /\ accepted = Queued \cup Running \cup finished
    /\ Queued \cap Running = {} /\ Queued \cap finished = {} /\ Running \cap finished = {}
    /\ \A i, j \in DOMAIN m_workqueue : m_workqueue[i] = m_workqueue[j] => i = j
    /\ \A v, w \in Workers : worker[v] = "run" /\ worker[w] = "run" /\ job[v] = job[w] => v = w

\* append loses no wake-up: with a request in the queue it is not the case that
\* every worker sleeps and no notification is on its way (threadpool.h:112-115,
\* :141).
NoLostWakeup == m_workqueue # <<>> =>
                    main = "notify" \/ \E w \in Workers : worker[w] # "wait"

\* When stop() has returned nothing that was accepted is left undone and no
\* thread touches the pool any more (threadpool.h:97-101, :145-148).
DrainedWhenStopped == main = "done" => /\ accepted = finished
                                       /\ \A w \in Workers : worker[w] = "gone"

(* Liveness. *)

\* Every request append accepted is processed, also when stop() is called.
AcceptedProcessed == \A r \in Requests : (r \in accepted) ~> (r \in finished)

\* stop() returns: "stop the pool, wait until all threads have ended"
\* (threadpool.h:40).
StopReturns == m_stop ~> (main = "done")
=============================================================================
