--------------------------- MODULE ShutdownProofs ---------------------------
(***************************************************************************)
(* For any number of workers and requests and any length of the queue: no  *)
(* accepted request is lost or served twice, append loses no wake-up, and  *)
(* when stop() has returned everything is done; the server's end does to   *)
(* the pool only what the pool's own specification allows, and destroys    *)
(* nothing that a worker still uses but m_root.                            *)
(***************************************************************************)
EXTENDS Shutdown, TLAPS

-----------------------------------------------------------------------------
(* The inductive invariant of the thread pool. *)

\* A worker holds a request exactly while it is in process() (threadpool.h:150-166).
HoldsWhileRunning == \A w \in Workers : worker[w] = "run" <=> job[w] # 0

\* Requests are numbered by the calls of append; the one being appended is new
\* (threadpool.h:107-114).
NewWhilePushed == /\ accepted \subseteq 1..calls
                  /\ main = "push" => calls >= 1 /\ calls \notin accepted

\* A worker that found the queue empty holds the mutex until it waits: nothing is
\* pushed meanwhile (threadpool.h:141).
EmptyWhileBlocked == \A w \in Workers : worker[w] = "block" => m_workqueue = <<>>

\* Only a stopped pool lets workers go, with an empty queue, and stop() is called
\* after the last append (threadpool.h:95-101, :145-148).
GoneWhenDrained ==
    /\ m_stop <=> main \in {"stop", "join", "done"}
    /\ \A w \in Workers : worker[w] = "gone" => m_stop /\ m_workqueue = <<>>

\* InOnePlace needs HoldsWhileRunning and NewWhilePushed, NoLostWakeup needs
\* EmptyWhileBlocked, DrainedWhenStopped needs InOnePlace and GoneWhenDrained.
IInv == /\ TypeOK
        /\ InOnePlace
        /\ NoLostWakeup
        /\ DrainedWhenStopped
        /\ HoldsWhileRunning
        /\ NewWhilePushed
        /\ EmptyWhileBlocked
        /\ GoneWhenDrained

-----------------------------------------------------------------------------
(* What push and pop do to the requests in the queue. *)

LEMMA QueuedPush ==
    ASSUME NEW S, m_workqueue \in Seq(S), NEW r \in S, r \notin Queued,
           m_workqueue' = Append(m_workqueue, r),
           \A i, j \in DOMAIN m_workqueue : m_workqueue[i] = m_workqueue[j] => i = j
    PROVE  /\ Queued' = Queued \cup {r}
           /\ \A i, j \in DOMAIN m_workqueue' : m_workqueue'[i] = m_workqueue'[j] => i = j
           /\ m_workqueue' \in Seq(S)
<1> DEFINE q == m_workqueue
           n == Len(m_workqueue)
<1>1. n \in Nat /\ DOMAIN q = 1..n /\ q' \in Seq(S)
  OBVIOUS
<1>2. DOMAIN q' = 1..(n + 1) /\ \A i \in 1..n : q'[i] = q[i]
  OBVIOUS
<1>3. q'[n + 1] = r
  OBVIOUS
<1>4. Queued' = Queued \cup {r}
  BY <1>1, <1>2, <1>3 DEF Queued
<1>5. \A i \in 1..n : q[i] # r
  BY <1>1 DEF Queued
<1>6. ASSUME NEW i \in 1..(n + 1), NEW j \in 1..(n + 1), q'[i] = q'[j]
      PROVE  i = j
  <2>1. (i \in 1..n \/ i = n + 1) /\ (j \in 1..n \/ j = n + 1)
    BY <1>1
  <2> QED BY <1>1, <1>2, <1>3, <1>5, <1>6, <2>1
<1> QED BY <1>1, <1>2, <1>4, <1>6

LEMMA QueuedPop ==
    ASSUME NEW S, m_workqueue \in Seq(S), m_workqueue # <<>>,
           m_workqueue' = Tail(m_workqueue),
           \A i, j \in DOMAIN m_workqueue : m_workqueue[i] = m_workqueue[j] => i = j
    PROVE  /\ Head(m_workqueue) \in Queued
           /\ Queued' = Queued \ {Head(m_workqueue)}
           /\ \A i, j \in DOMAIN m_workqueue' : m_workqueue'[i] = m_workqueue'[j] => i = j
           /\ m_workqueue' \in Seq(S)
<1> DEFINE q == m_workqueue
           n == Len(m_workqueue)
<1>1. n \in Nat \ {0} /\ DOMAIN q = 1..n /\ q' \in Seq(S) /\ Head(q) = q[1]
  OBVIOUS
<1>2. DOMAIN q' = 1..(n - 1) /\ \A i \in 1..(n - 1) : q'[i] = q[i + 1]
  BY <1>1
<1>3. ASSUME NEW i \in 1..(n - 1), NEW j \in 1..(n - 1), q'[i] = q'[j]
      PROVE  i = j
  <2>1. i + 1 \in 1..n /\ j + 1 \in 1..n /\ q[i + 1] = q[j + 1]
    BY <1>1, <1>2, <1>3
  <2>2. i + 1 = j + 1
    BY <1>1, <2>1
  <2> QED BY <2>2, <1>1
<1>4. ASSUME NEW r \in Queued' PROVE r \in Queued \ {Head(q)}
  <2>1. PICK i \in 1..(n - 1) : r = q[i + 1]
    BY <1>2, <1>4 DEF Queued
  <2>2. i + 1 \in 1..n /\ i + 1 # 1 /\ 1 \in 1..n
    BY <1>1
  <2>3. q[i + 1] # q[1]
    BY <1>1, <2>2
  <2> QED BY <1>1, <2>1, <2>2, <2>3 DEF Queued
<1>5. ASSUME NEW r \in Queued \ {Head(q)} PROVE r \in Queued'
  <2>1. PICK i \in 1..n : r = q[i]
    BY <1>1, <1>5 DEF Queued
  <2>2. i # 1
    BY <1>1, <1>5, <2>1
  <2>3. i - 1 \in 1..(n - 1) /\ (i - 1) + 1 = i
    BY <1>1, <2>2
  <2>4. r = q'[i - 1]
    BY <1>2, <2>1, <2>3
  <2> QED BY <1>2, <2>3, <2>4 DEF Queued
<1>6. Head(q) \in Queued
  BY <1>1 DEF Queued
<1> QED BY <1>1, <1>2, <1>3, <1>4, <1>5, <1>6

\* A worker's step changes no other worker's place.
LEMMA RunningFrame ==
    ASSUME TypeOK, NEW w \in Workers, NEW place, worker[w] # "run", place # "run",
           worker' = [worker EXCEPT ![w] = place], job' = job
    PROVE  /\ Running' = Running
           /\ \A v \in Workers : worker'[v] = "run" <=> worker[v] = "run"
BY DEF Running, TypeOK

-----------------------------------------------------------------------------
(* One lemma per action. *)

LEMMA InitIInv == Init => IInv
<1> SUFFICES ASSUME Init PROVE IInv
  OBVIOUS
<1>1. TypeOK
  <2>1. m_workqueue \in Seq(Requests) /\ calls \in 0..MaxTasks
    BY ThreadPoolAssumption DEF Init
  <2>2. worker \in [Workers -> WorkerPlaces] /\ job \in [Workers -> Requests \cup {0}]
    BY DEF Init, WorkerPlaces
  <2>3. m_stop \in BOOLEAN /\ main \in MainPlaces
    BY DEF Init, MainPlaces
  <2>4. accepted \in SUBSET Requests /\ finished \in SUBSET Requests
    BY DEF Init
  <2> QED BY <2>1, <2>2, <2>3, <2>4 DEF TypeOK
<1>2. Queued = {} /\ Running = {}
  BY DEF Init, Queued, Running
<1>3. InOnePlace
  BY <1>2 DEF Init, InOnePlace
<1> QED BY <1>1, <1>3, ThreadPoolAssumption
    DEF Init, IInv, NoLostWakeup, DrainedWhenStopped, HoldsWhileRunning, NewWhilePushed,
        EmptyWhileBlocked, GoneWhenDrained

LEMMA AppendTestIInv == ASSUME IInv, AppendTest PROVE IInv'
<1> USE ThreadPoolAssumption DEF IInv, AppendTest
<1>1. TypeOK'
  BY DEF TypeOK, MainPlaces
<1>2. Queued' = Queued /\ Running' = Running
  BY DEF Queued, Running
<1>3. InOnePlace'
  BY <1>2 DEF InOnePlace
<1>4. NewWhilePushed'
  BY DEF TypeOK, NewWhilePushed
<1> QED BY <1>1, <1>3, <1>4
    DEF NoLostWakeup, DrainedWhenStopped, HoldsWhileRunning, EmptyWhileBlocked, GoneWhenDrained

\* The pushed request is in no place yet.
LEMMA AppendPushIInv == ASSUME IInv, AppendPush PROVE IInv'
<1> USE ThreadPoolAssumption DEF IInv, AppendPush
<1>1. CASE Len(m_workqueue) >= max_requests
  <2>1. TypeOK'
    BY <1>1 DEF TypeOK, MainPlaces
  <2>2. Queued' = Queued /\ Running' = Running
    BY <1>1 DEF Queued, Running
  <2>3. InOnePlace'
    BY <1>1, <2>2 DEF InOnePlace
  <2> QED BY <1>1, <2>1, <2>3
      DEF NoLostWakeup, DrainedWhenStopped, HoldsWhileRunning, NewWhilePushed,
          EmptyWhileBlocked, GoneWhenDrained
<1>2. CASE ~(Len(m_workqueue) >= max_requests)
  <2>1. /\ m_workqueue' = Append(m_workqueue, calls)
        /\ accepted' = accepted \cup {calls}
        /\ main' = "notify"
        /\ UNCHANGED <<m_stop, calls, finished, worker, job>>
    BY <1>2
  <2>2. calls \in Requests /\ calls \notin accepted
    BY DEF TypeOK, NewWhilePushed, Requests
  <2>3. calls \notin Queued /\ calls \notin Running /\ calls \notin finished
    BY <2>2 DEF InOnePlace
  <2>4. m_workqueue \in Seq(Requests)
    BY DEF TypeOK
  <2>5. \A i, j \in DOMAIN m_workqueue : m_workqueue[i] = m_workqueue[j] => i = j
    BY DEF InOnePlace
  <2>6. /\ Queued' = Queued \cup {calls}
        /\ \A i, j \in DOMAIN m_workqueue' : m_workqueue'[i] = m_workqueue'[j] => i = j
        /\ m_workqueue' \in Seq(Requests)
    <3> HIDE DEF AppendPush, IInv
    <3> QED BY <2>1, <2>2, <2>3, <2>4, <2>5, QueuedPush
  <2>7. Running' = Running
    BY <2>1 DEF Running
  <2>8. TypeOK'
    BY <2>1, <2>2, <2>6 DEF TypeOK, MainPlaces
  <2>9. InOnePlace'
    BY <2>1, <2>3, <2>6, <2>7 DEF InOnePlace
  <2>10. NewWhilePushed'
    BY <2>1, <2>2 DEF TypeOK, NewWhilePushed
  <2>11. EmptyWhileBlocked' /\ GoneWhenDrained'
    BY <2>1 DEF EmptyWhileBlocked, GoneWhenDrained, MutexFree
  <2> QED BY <2>1, <2>8, <2>9, <2>10, <2>11
      DEF NoLostWakeup, DrainedWhenStopped, HoldsWhileRunning
<1> QED BY <1>1, <1>2

\* Waking a waiter, or a waiter that wakes by itself: a worker stands before the
\* mutex and will see the queue.
LEMMA WokenIInv ==
    ASSUME IInv, NEW w \in Workers, worker[w] = "wait",
           worker' = [worker EXCEPT ![w] = "idle"],
           main' = main \/ (main = "notify" /\ main' = "up"),
           UNCHANGED <<m_workqueue, m_stop, calls, accepted, finished, job>>
    PROVE  IInv'
<1> USE DEF IInv
<1>1. TypeOK'
  BY DEF TypeOK, WorkerPlaces, MainPlaces
<1>2. Running' = Running /\ \A v \in Workers : worker'[v] = "run" <=> worker[v] = "run"
  BY RunningFrame
<1>3. Queued' = Queued
  BY DEF Queued
<1>4. InOnePlace'
  BY <1>2, <1>3 DEF InOnePlace
<1>5. worker'[w] = "idle"
  BY DEF TypeOK
<1>6. NoLostWakeup'
  BY <1>5 DEF NoLostWakeup
<1>7. \A v \in Workers : v # w => worker'[v] = worker[v]
  BY DEF TypeOK
<1>8. DrainedWhenStopped'
  BY DEF DrainedWhenStopped, TypeOK
<1>9. HoldsWhileRunning' /\ NewWhilePushed'
  BY <1>2 DEF HoldsWhileRunning, NewWhilePushed
<1>10. EmptyWhileBlocked' /\ GoneWhenDrained'
  BY <1>5, <1>7 DEF EmptyWhileBlocked, GoneWhenDrained
<1> QED BY <1>1, <1>4, <1>6, <1>8, <1>9, <1>10

LEMMA AppendNotifyIInv == ASSUME IInv, AppendNotify PROVE IInv'
<1>1. CASE Waiters = {}
  <2>1. \A w \in Workers : worker[w] # "wait"
    BY <1>1 DEF Waiters
  <2>2. UNCHANGED <<m_workqueue, m_stop, calls, accepted, finished, worker, job>> /\ main' = "up"
    BY <1>1 DEF AppendNotify, WakeOne
  <2>3. TypeOK'
    BY <2>2 DEF IInv, TypeOK, MainPlaces
  <2>4. Queued' = Queued /\ Running' = Running
    BY <2>2 DEF Queued, Running
  <2>5. InOnePlace'
    BY <2>2, <2>4 DEF IInv, InOnePlace
  <2>6. NoLostWakeup'
    BY <2>1, <2>2, ThreadPoolAssumption DEF NoLostWakeup
  <2> QED BY <2>2, <2>3, <2>5, <2>6
      DEF IInv, AppendNotify, DrainedWhenStopped, HoldsWhileRunning, NewWhilePushed,
          EmptyWhileBlocked, GoneWhenDrained
<1>2. CASE Waiters # {}
  <2>1. PICK w \in Waiters : worker' = [worker EXCEPT ![w] = "idle"]
    BY <1>2 DEF AppendNotify, WakeOne
  <2>2. w \in Workers /\ worker[w] = "wait"
    BY <2>1 DEF Waiters
  <2> QED BY <2>1, <2>2, WokenIInv DEF AppendNotify
<1> QED BY <1>1, <1>2

\* The request moves from the head of the queue into one pair of hands.
LEMMA TakeIInv == ASSUME IInv, NEW w \in Workers, Take(w) PROVE IInv'
<1> DEFINE r == Head(m_workqueue)
<1>1. /\ worker[w] = "idle" /\ MutexFree /\ m_workqueue # <<>>
      /\ job' = [job EXCEPT ![w] = r]
      /\ m_workqueue' = Tail(m_workqueue)
      /\ worker' = [worker EXCEPT ![w] = "run"]
      /\ UNCHANGED <<m_stop, calls, accepted, finished, main>>
  BY DEF Take
<1>2. m_workqueue \in Seq(Requests)
  BY DEF IInv, TypeOK
<1>3. \A i, j \in DOMAIN m_workqueue : m_workqueue[i] = m_workqueue[j] => i = j
  BY DEF IInv, InOnePlace
<1>4. /\ r \in Queued
      /\ Queued' = Queued \ {r}
      /\ \A i, j \in DOMAIN m_workqueue' : m_workqueue'[i] = m_workqueue'[j] => i = j
      /\ m_workqueue' \in Seq(Requests)
  BY <1>1, <1>2, <1>3, QueuedPop
<1>5. r \in Requests /\ r # 0
  BY <1>1, <1>2, ThreadPoolAssumption DEF Requests
<1>6. /\ worker'[w] = "run" /\ job'[w] = r
      /\ \A v \in Workers : v # w => worker'[v] = worker[v] /\ job'[v] = job[v]
  BY <1>1 DEF IInv, TypeOK
<1>7. Running' = Running \cup {r}
  BY <1>1, <1>6 DEF Running
<1>8. TypeOK'
  BY <1>1, <1>4, <1>5 DEF IInv, TypeOK, WorkerPlaces
<1>9. r \notin Running /\ r \notin finished
  BY <1>4 DEF IInv, InOnePlace
<1>10. \A v \in Workers : v # w /\ worker[v] = "run" => job[v] # r
  BY <1>9 DEF Running
<1>11. InOnePlace'
  <2>1. /\ accepted' = Queued' \cup Running' \cup finished'
        /\ Queued' \cap Running' = {} /\ Queued' \cap finished' = {} /\ Running' \cap finished' = {}
    BY <1>1, <1>4, <1>7, <1>9 DEF IInv, InOnePlace
  <2>2. \A u, v \in Workers : worker'[u] = "run" /\ worker'[v] = "run" /\ job'[u] = job'[v] => u = v
    BY <1>6, <1>10 DEF IInv, InOnePlace
  <2> QED BY <1>4, <2>1, <2>2 DEF InOnePlace
<1>12. NoLostWakeup'
  BY <1>6 DEF NoLostWakeup
<1>13. main # "done" /\ main' = main
  BY <1>1 DEF IInv, DrainedWhenStopped
<1>14. HoldsWhileRunning' /\ NewWhilePushed'
  BY <1>1, <1>5, <1>6 DEF IInv, HoldsWhileRunning, NewWhilePushed
<1>15. \A v \in Workers : worker[v] # "gone" /\ worker[v] # "block"
  BY <1>1 DEF IInv, GoneWhenDrained, EmptyWhileBlocked
<1>16. EmptyWhileBlocked' /\ GoneWhenDrained'
  BY <1>1, <1>6, <1>15 DEF IInv, EmptyWhileBlocked, GoneWhenDrained
<1> QED BY <1>8, <1>11, <1>12, <1>13, <1>14, <1>16 DEF IInv, DrainedWhenStopped

\* process() returns: the request moves from the worker's hands to the done ones.
LEMMA FinishIInv == ASSUME IInv, NEW w \in Workers, Finish(w) PROVE IInv'
<1>1. /\ worker[w] = "run"
      /\ finished' = finished \cup {job[w]}
      /\ job' = [job EXCEPT ![w] = 0]
      /\ worker' = [worker EXCEPT ![w] = "idle"]
      /\ UNCHANGED <<m_workqueue, m_stop, calls, accepted, main>>
  BY DEF Finish
<1>2. /\ worker'[w] = "idle" /\ job'[w] = 0
      /\ \A v \in Workers : v # w => worker'[v] = worker[v] /\ job'[v] = job[v]
  BY <1>1 DEF IInv, TypeOK
<1>3. Queued' = Queued
  BY <1>1 DEF Queued
<1>4. job[w] \in Running
  BY <1>1 DEF Running
<1>5. \A v \in Workers : v # w /\ worker[v] = "run" => job[v] # job[w]
  BY <1>1 DEF IInv, InOnePlace
<1>6. Running' = Running \ {job[w]}
  BY <1>1, <1>2, <1>5 DEF Running
<1>7. TypeOK'
  <2>1. job[w] \in Requests
    BY <1>1 DEF IInv, TypeOK, HoldsWhileRunning
  <2> QED BY <1>1, <2>1 DEF IInv, TypeOK, WorkerPlaces
<1>8. InOnePlace'
  <2>1. /\ accepted' = Queued' \cup Running' \cup finished'
        /\ Queued' \cap Running' = {} /\ Queued' \cap finished' = {} /\ Running' \cap finished' = {}
    BY <1>1, <1>3, <1>4, <1>6 DEF IInv, InOnePlace
  <2>2. \A u, v \in Workers : worker'[u] = "run" /\ worker'[v] = "run" /\ job'[u] = job'[v] => u = v
    BY <1>2 DEF IInv, InOnePlace
  <2>3. \A i, j \in DOMAIN m_workqueue' : m_workqueue'[i] = m_workqueue'[j] => i = j
    BY <1>1 DEF IInv, InOnePlace
  <2> QED BY <2>1, <2>2, <2>3 DEF InOnePlace
<1>9. NoLostWakeup'
  BY <1>2 DEF NoLostWakeup
<1>10. main # "done" /\ main' = main
  BY <1>1 DEF IInv, DrainedWhenStopped
<1>11. HoldsWhileRunning' /\ NewWhilePushed' /\ EmptyWhileBlocked' /\ GoneWhenDrained'
  BY <1>1, <1>2 DEF IInv, HoldsWhileRunning, NewWhilePushed, EmptyWhileBlocked, GoneWhenDrained
<1> QED BY <1>7, <1>8, <1>9, <1>10, <1>11 DEF IInv, DrainedWhenStopped

\* The steps of a worker with an empty queue: it leaves, or it falls asleep in two
\* steps.
LEMMA EmptyHandedIInv ==
    ASSUME IInv, NEW w \in Workers, Leave(w) \/ PredicateFalse(w) \/ Wait(w) PROVE IInv'
<1> DEFINE place == worker'[w]
<1>1. /\ m_workqueue = <<>>
      /\ UNCHANGED <<m_workqueue, m_stop, calls, accepted, finished, job, main>>
  BY DEF IInv, EmptyWhileBlocked, Leave, PredicateFalse, Wait
<1>2. /\ worker[w] \in {"idle", "block"}
      /\ place \in {"block", "wait", "gone"}
      /\ worker' = [worker EXCEPT ![w] = place]
      /\ place = "gone" => m_stop
  BY DEF IInv, TypeOK, Leave, PredicateFalse, Wait
<1>3. TypeOK'
  BY <1>1, <1>2 DEF IInv, TypeOK, WorkerPlaces
<1>4. Queued' = Queued
  BY <1>1 DEF Queued
<1>5. Running' = Running /\ \A v \in Workers : worker'[v] = "run" <=> worker[v] = "run"
  <2> HIDE DEF place
  <2> QED BY <1>1, <1>2, RunningFrame DEF IInv
<1>6. InOnePlace'
  BY <1>1, <1>4, <1>5 DEF IInv, InOnePlace
<1>7. NoLostWakeup' /\ EmptyWhileBlocked'
  BY <1>1 DEF NoLostWakeup, EmptyWhileBlocked
<1>8. main # "done" /\ main' = main
  BY <1>1, <1>2 DEF IInv, DrainedWhenStopped
<1>9. HoldsWhileRunning' /\ NewWhilePushed'
  BY <1>1, <1>5 DEF IInv, HoldsWhileRunning, NewWhilePushed
<1>10. GoneWhenDrained'
  BY <1>1, <1>2 DEF IInv, GoneWhenDrained, TypeOK
<1> QED BY <1>3, <1>6, <1>7, <1>8, <1>9, <1>10 DEF IInv, DrainedWhenStopped

LEMMA StopSetIInv == ASSUME IInv, StopSet PROVE IInv'
<1> USE DEF IInv, StopSet
<1>1. TypeOK'
  BY DEF TypeOK, MainPlaces
<1>2. Queued' = Queued /\ Running' = Running
  BY DEF Queued, Running
<1>3. InOnePlace'
  BY <1>2 DEF InOnePlace
<1> QED BY <1>1, <1>3
    DEF NoLostWakeup, DrainedWhenStopped, HoldsWhileRunning, NewWhilePushed,
        EmptyWhileBlocked, GoneWhenDrained

LEMMA StopNotifyIInv == ASSUME IInv, StopNotify PROVE IInv'
<1>1. /\ main = "stop" /\ main' = "join"
      /\ UNCHANGED <<m_workqueue, m_stop, calls, accepted, finished, job>>
  BY DEF StopNotify
<1>2. \A w \in Workers : \/ worker'[w] = "idle" /\ worker[w] = "wait"
                         \/ worker'[w] = worker[w] /\ worker[w] # "wait"
  BY DEF StopNotify, Waiters
<1>3. worker' \in [Workers -> WorkerPlaces]
  BY DEF IInv, TypeOK, StopNotify, Waiters, WorkerPlaces
<1>4. TypeOK'
  BY <1>1, <1>3 DEF IInv, TypeOK, MainPlaces
<1>5. Queued' = Queued /\ Running' = Running
  BY <1>1, <1>2 DEF Queued, Running
<1>6. InOnePlace'
  BY <1>1, <1>2, <1>5 DEF IInv, InOnePlace
<1>7. NoLostWakeup'
  BY <1>2, ThreadPoolAssumption DEF NoLostWakeup
<1>8. HoldsWhileRunning' /\ NewWhilePushed' /\ EmptyWhileBlocked' /\ GoneWhenDrained'
  BY <1>1, <1>2 DEF IInv, HoldsWhileRunning, NewWhilePushed, EmptyWhileBlocked, GoneWhenDrained
<1> QED BY <1>1, <1>4, <1>6, <1>7, <1>8 DEF IInv, DrainedWhenStopped

\* The join: no worker is left, so the queue is empty and nothing is in process().
LEMMA StopJoinedIInv == ASSUME IInv, StopJoined PROVE IInv'
<1>1. /\ main = "join" /\ main' = "done"
      /\ \A w \in Workers : worker[w] = "gone"
      /\ UNCHANGED <<m_workqueue, m_stop, calls, accepted, finished, worker, job>>
  BY DEF StopJoined
<1>2. TypeOK'
  BY <1>1 DEF IInv, TypeOK, MainPlaces
<1>3. Queued' = Queued /\ Running' = Running
  BY <1>1 DEF Queued, Running
<1>4. InOnePlace'
  BY <1>1, <1>3 DEF IInv, InOnePlace
<1>5. m_workqueue = <<>>
  BY <1>1, ThreadPoolAssumption DEF IInv, GoneWhenDrained
<1>6. Queued = {} /\ Running = {}
  BY <1>1, <1>5 DEF Queued, Running
<1>7. DrainedWhenStopped'
  BY <1>1, <1>6 DEF IInv, InOnePlace, DrainedWhenStopped
<1> QED BY <1>1, <1>2, <1>4, <1>5, <1>7
    DEF IInv, NoLostWakeup, HoldsWhileRunning, NewWhilePushed, EmptyWhileBlocked, GoneWhenDrained

LEMMA NextIInv == IInv /\ [Next]_vars => IInv'
<1> SUFFICES ASSUME IInv, [Next]_vars PROVE IInv'
  OBVIOUS
<1>1. CASE Main
  BY <1>1, AppendTestIInv, AppendPushIInv, AppendNotifyIInv, StopSetIInv, StopNotifyIInv,
     StopJoinedIInv DEF Main
<1>2. ASSUME NEW w \in Workers, Run(w) PROVE IInv'
  BY <1>2, TakeIInv, FinishIInv, EmptyHandedIInv DEF Run
<1>3. ASSUME NEW w \in Workers, SpuriousWakeup(w) PROVE IInv'
  BY <1>3, WokenIInv DEF SpuriousWakeup
<1>4. CASE UNCHANGED vars
  <2>1. UNCHANGED <<m_workqueue, m_stop, calls, accepted, finished, worker, job, main>>
    BY <1>4 DEF vars
  <2>2. Queued' = Queued /\ Running' = Running
    BY <2>1 DEF Queued, Running
  <2>3. TypeOK' /\ InOnePlace'
    BY <2>1, <2>2 DEF IInv, TypeOK, InOnePlace
  <2> QED BY <2>1, <2>3
      DEF IInv, NoLostWakeup, DrainedWhenStopped, HoldsWhileRunning, NewWhilePushed,
          EmptyWhileBlocked, GoneWhenDrained
<1> QED BY <1>1, <1>2, <1>3, <1>4 DEF Next, Ended

LEMMA SpecIInv == Spec => []IInv
BY InitIInv, NextIInv, PTL DEF Spec

-----------------------------------------------------------------------------
(* The server's end on top of it. *)

\* The event loop appends only before the destruction, stop() runs when m_pool's
\* turn has come, and what comes after m_pool waits for its return
\* (webserver.cpp:21-33, webserver.h:58, :70).
MainInStep == /\ main \in {"push", "notify"} => down = 0
              /\ main \in {"stop", "join"} => down = 3
              /\ main = "up" => down <= 3
              /\ main = "done" => down >= 3

ServerIInv == /\ signal \in BOOLEAN /\ stop_server \in BOOLEAN
              /\ down \in 0..8
              /\ MainInStep

LEMMA OrderLength == Len(Order) = 8
BY DEF Order

\* A part is alive until its place in Order is reached.
LEMMA AliveUntil ==
    ASSUME down \in 0..8
    PROVE  /\ Alive("m_pool") <=> down < 4
           /\ down < 4 => \A part \in {"users", "connection_pool", "Log", "RedisManager"} :
                               Alive(part)
<1>1. /\ Order[1] = "fds" /\ Order[2] = "m_root" /\ Order[3] = "timers" /\ Order[4] = "m_pool"
  BY DEF Order
<1>2. \A i \in 1..3 : i = 1 \/ i = 2 \/ i = 3
  OBVIOUS
<1>3. CASE down < 4
  <2>1. \A i \in 1..down : i = 1 \/ i = 2 \/ i = 3
    BY <1>2, <1>3
  <2> QED BY <1>1, <1>3, <2>1 DEF Alive
<1>4. CASE ~(down < 4)
  BY <1>1, <1>4 DEF Alive
<1> QED BY <1>3, <1>4

LEMMA PoolTurn ==
    ASSUME down \in 0..8, down < 8
    PROVE  Order[down + 1] = "m_pool" <=> down = 3
<1>1. /\ Order[1] # "m_pool" /\ Order[2] # "m_pool" /\ Order[3] # "m_pool"
      /\ Order[4] = "m_pool" /\ Order[5] # "m_pool" /\ Order[6] # "m_pool"
      /\ Order[7] # "m_pool" /\ Order[8] # "m_pool"
  BY DEF Order
<1>2. down \in {0, 1, 2, 3, 4, 5, 6, 7}
  OBVIOUS
<1> QED BY <1>1, <1>2

\* What the end of the server does to the pool are steps of the pool's own threads.
LEMMA ServerStepIsPoolStep == [ServerNext]_allVars => [Next]_vars
<1> SUFFICES ASSUME [ServerNext]_allVars PROVE [Next]_vars
  OBVIOUS
<1>1. CASE sig_handler \/ dealwithsignal \/ Destroy
  BY <1>1 DEF sig_handler, dealwithsignal, Destroy
<1>2. CASE AppendInLoop \/ StopPool \/ PoolStep
  BY <1>2 DEF AppendInLoop, StopPool, PoolStep, Next, Main
<1>3. ASSUME NEW w \in Workers, WorkerStep(w) \/ WakeStep(w) PROVE Next
  BY <1>3 DEF WorkerStep, WakeStep, Next
<1>4. CASE ProcessEnded \/ UNCHANGED allVars
  BY <1>4 DEF ProcessEnded, allVars
<1> QED BY <1>1, <1>2, <1>3, <1>4 DEF ServerNext

LEMMA WorkerKeepsMain ==
    ASSUME NEW w \in Workers, Run(w) \/ SpuriousWakeup(w) PROVE main' = main
BY DEF Run, SpuriousWakeup, Take, Leave, PredicateFalse, Wait, Finish

LEMMA ServerNextIInv == TypeOK /\ ServerIInv /\ [ServerNext]_allVars => ServerIInv'
<1> SUFFICES ASSUME TypeOK, ServerIInv, [ServerNext]_allVars PROVE ServerIInv'
  OBVIOUS
<1> USE DEF ServerIInv
<1>1. CASE sig_handler \/ dealwithsignal
  BY <1>1 DEF sig_handler, dealwithsignal, vars, MainInStep
<1>2. CASE Destroy
  <2>1. /\ down < 8 /\ down' = down + 1
        /\ main = IF Alive("m_pool") /\ Order[down + 1] # "m_pool" THEN "up" ELSE "done"
        /\ UNCHANGED <<main, signal, stop_server>>
    BY <1>2, OrderLength DEF Destroy, vars
  <2>2. main = IF down < 3 THEN "up" ELSE "done"
    BY <2>1, AliveUntil, PoolTurn
  <2> QED BY <2>1, <2>2 DEF MainInStep
<1>3. CASE AppendInLoop
  BY <1>3 DEF AppendInLoop, AppendTest, server, MainInStep
<1>4. CASE StopPool
  <2>1. down = 3 /\ main' = "stop" /\ UNCHANGED server
    BY <1>4, OrderLength, PoolTurn DEF StopPool, StopSet
  <2> QED BY <2>1 DEF server, MainInStep
<1>5. CASE PoolStep
  <2>1. UNCHANGED <<signal, stop_server, down>>
    BY <1>5 DEF PoolStep, server
  <2> QED BY <1>5, <2>1 DEF PoolStep, AppendPush, AppendNotify, StopNotify, StopJoined, MainInStep
<1>6. ASSUME NEW w \in Workers, WorkerStep(w) \/ WakeStep(w) PROVE ServerIInv'
  <2>1. main' = main /\ UNCHANGED <<signal, stop_server, down>>
    BY <1>6, WorkerKeepsMain DEF WorkerStep, WakeStep, server
  <2> QED BY <2>1 DEF MainInStep
<1>7. CASE ProcessEnded \/ UNCHANGED allVars
  BY <1>7 DEF ProcessEnded, allVars, vars, server, MainInStep
<1> QED BY <1>1, <1>2, <1>3, <1>4, <1>5, <1>6, <1>7 DEF ServerNext

-----------------------------------------------------------------------------
(* The theorems. *)

\* The pool never leaves its types: what is queued, taken or done is always the
\* request of some call of append (threadpool.h:103-152).
THEOREM TypeCorrect == Spec => []TypeOK
BY SpecIInv, PTL DEF IInv

\* Whatever is destroyed around it, the server uses its pool as the pool may be
\* used: no append after stop(), stop() once (webserver.cpp:21-33, webserver.h:70).
THEOREM ServerUsesPool == ServerSpec => Spec
<1>1. ServerInit => Init
  BY DEF ServerInit
<1> QED BY <1>1, ServerStepIsPoolStep, PTL DEF ServerSpec, Spec

\* Every request append returned true for is in the queue, with one worker or done,
\* and in one of these only (threadpool.h:107-115, :150-151).
THEOREM NothingLostOrDoubled == ServerSpec => []InOnePlace
BY ServerUsesPool, SpecIInv, PTL DEF IInv

\* Outside append's notify_one a non-empty queue finds a worker awake
\* (threadpool.h:112-115, :141).
THEOREM WakeupNeverLost == ServerSpec => []NoLostWakeup
BY ServerUsesPool, SpecIInv, PTL DEF IInv

\* When stop() has returned all that was accepted is done and the workers are gone
\* (threadpool.h:95-101, :145-148).
THEOREM StopDrains == ServerSpec => []DrainedWhenStopped
BY ServerUsesPool, SpecIInv, PTL DEF IInv

\* No worker uses its http_conn, the MySQL pool, the log, Redis or the queue after
\* its destruction: beyond m_pool nothing is destroyed before the join has ended,
\* and then no worker is left (webserver.h:58, :70, threadpool.h:97-101).
THEOREM NothingUsedAfterDestruction == ServerSpec => []UsedWhileAlive
<1>1. ServerInit => ServerIInv
  <2> SUFFICES ASSUME ServerInit PROVE ServerIInv
    OBVIOUS
  <2>1. signal \in BOOLEAN /\ stop_server \in BOOLEAN
    BY DEF ServerInit
  <2>2. down \in 0..8 /\ MainInStep
    BY DEF ServerInit, Init, MainInStep
  <2> QED BY <2>1, <2>2 DEF ServerIInv
<1>2. IInv /\ ServerIInv => UsedWhileAlive
  <2> SUFFICES ASSUME IInv, ServerIInv, NEW w \in Workers, worker[w] # "gone"
               PROVE  /\ \A part \in {"users", "connection_pool", "Log", "RedisManager"} : Alive(part)
                      /\ Alive("m_pool")
    BY DEF UsedWhileAlive
  <2>1. main # "done"
    BY DEF IInv, DrainedWhenStopped
  <2>2. down < 4
    BY <2>1 DEF IInv, TypeOK, MainPlaces, ServerIInv, MainInStep
  <2> QED BY <2>2, AliveUntil DEF ServerIInv
<1>3. IInv /\ ServerIInv /\ [ServerNext]_allVars => ServerIInv'
  BY ServerNextIInv DEF IInv
<1> QED BY <1>1, <1>2, <1>3, ServerUsesPool, SpecIInv, PTL DEF ServerSpec
=============================================================================
