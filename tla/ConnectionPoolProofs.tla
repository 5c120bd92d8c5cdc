------------------------ MODULE ConnectionPoolProofs ------------------------
(***************************************************************************)
(* For any numbers of threads and connections, whatever connections run()  *)
(* loses: the pool lends a connection to one thread at a time, loses none  *)
(* itself and never takes one from an empty list, it implements            *)
(* ResourcePool, it uses `reserve` as the monitor of Semaphore may be      *)
(* used, which is a counter and loses no wake-up, and with a connection    *)
(* that is not lost for every thread nobody is refused or made to wait.    *)
(***************************************************************************)
EXTENDS ConnectionPool, FiniteSetTheorems, TLAPS

-----------------------------------------------------------------------------
(* The inductive invariant. *)

\* A thread holds a connection exactly between GetConnection and
\* ReleaseConnection (threadpool.h:158-166, sql_connection_pool.cpp:134-143).
HoldsInUse == \A t \in Threads : pc[t] = "use" <=> con[t] # NoConn

\* The connections that are not lost are closed together, when the threads have
\* ended (sql_connection_pool.cpp:103-132).
OpenUntilDone == \/ open = Conns
                 \/ connList = <<>> /\ \A t \in Threads : pc[t] = "done"

\* What is not in the list is in use or lost.
WholeStock == ~Closed =>
    Len(connList) + Cardinality(At("use")) + Cardinality(Lost) = Cardinality(Conns)

\* IInv alone is not inductive: DestroyPool closes what is in the list, which is
\* all that is not lost only because no thread holds a connection (HoldsInUse), and
\* GetPop hands out an open connection only because nothing has been closed before
\* (OpenUntilDone).  WholeStock is what EnoughForAll and the bound of reserve need.
Inv == IInv /\ HoldsInUse /\ OpenUntilDone /\ WholeStock

-----------------------------------------------------------------------------
(* Counting threads at a place. *)

LEMMA AtFinite == \A p : IsFiniteSet(At(p)) /\ Cardinality(At(p)) \in Nat
BY PoolAssumption, FS_Subset, FS_CardinalityType DEF At

LEMMA LostFinite == IsFiniteSet(Lost) /\ Cardinality(Lost) \in Nat
BY PoolAssumption, FS_Subset, FS_CardinalityType DEF Lost

\* A thread leaves a place, and one comes to a place.
LEMMA OneFewer ==
    ASSUME NEW t \in Threads, NEW p, t \in At(p), At(p)' = At(p) \ {t}
    PROVE  Cardinality(At(p)') = Cardinality(At(p)) - 1
BY AtFinite, FS_RemoveElement

LEMMA OneMore ==
    ASSUME NEW t \in Threads, NEW p, t \notin At(p), At(p)' = At(p) \cup {t}
    PROVE  Cardinality(At(p)') = Cardinality(At(p)) + 1
BY AtFinite, FS_AddElement

\* A thread that goes from one place to another.
LEMMA Moves ==
    ASSUME TypeOK, NEW t \in Threads, NEW p \in Places, NEW q \in Places \ {p},
           pc[t] = p, Goto(t, q)
    PROVE  /\ pc' \in [Threads -> Places]
           /\ Cardinality(At(p)') = Cardinality(At(p)) - 1
           /\ Cardinality(At(q)') = Cardinality(At(q)) + 1
           /\ \A r \in Places \ {p, q} : At(r)' = At(r)
<1>1. pc' \in [Threads -> Places]
  BY DEF TypeOK, Goto
<1>2. t \in At(p) /\ At(p)' = At(p) \ {t}
  BY DEF TypeOK, Goto, At
<1>3. t \notin At(q) /\ At(q)' = At(q) \cup {t}
  BY DEF TypeOK, Goto, At
<1>4. \A r \in Places \ {p, q} : At(r)' = At(r)
  BY DEF TypeOK, Goto, At
<1> QED BY <1>1, <1>2, <1>3, <1>4, OneFewer, OneMore

-----------------------------------------------------------------------------
(* What pop_front and push_back do to the free connections. *)

LEMMA FreePop ==
    ASSUME connList \in Seq(Conns), connList # <<>>, connList' = Tail(connList),
           \A i, j \in DOMAIN connList : connList[i] = connList[j] => i = j
    PROVE  /\ Head(connList) \in Free
           /\ Free' = Free \ {Head(connList)}
           /\ \A i, j \in DOMAIN connList' : connList'[i] = connList'[j] => i = j
           /\ connList' \in Seq(Conns)
           /\ Len(connList') = Len(connList) - 1 /\ Len(connList) > 0
<1> DEFINE q == connList
           n == Len(connList)
<1>1. n \in Nat \ {0} /\ DOMAIN q = 1..n /\ q' \in Seq(Conns) /\ Head(q) = q[1]
  OBVIOUS
<1>2. Len(q') = n - 1 /\ DOMAIN q' = 1..(n - 1) /\ \A i \in 1..(n - 1) : q'[i] = q[i + 1]
  BY <1>1
<1>3. \A i \in 1..(n - 1) : i + 1 \in 1..n /\ i + 1 # 1
  BY <1>1
<1>4. \A i, j \in DOMAIN q' : q'[i] = q'[j] => i = j
  <2> SUFFICES ASSUME NEW i \in 1..(n - 1), NEW j \in 1..(n - 1), q[i + 1] = q[j + 1]
               PROVE  i = j
    BY <1>2
  <2>1. i + 1 = j + 1
    BY <1>1, <1>3
  <2> QED BY <2>1, <1>1
<1>5. ASSUME NEW c \in Free' PROVE c \in Free \ {Head(q)}
  <2>1. PICK i \in 1..(n - 1) : c = q[i + 1]
    BY <1>2, <1>5 DEF Free
  <2>2. q[i + 1] # q[1]
    BY <1>1, <1>3
  <2> QED BY <1>1, <1>3, <2>1, <2>2 DEF Free
<1>6. ASSUME NEW c \in Free \ {Head(q)} PROVE c \in Free'
  <2>1. PICK i \in 1..n : c = q[i]
    BY <1>1 DEF Free
  <2>2. i - 1 \in 1..(n - 1) /\ (i - 1) + 1 = i
    BY <1>1, <1>6, <2>1
  <2>3. c = q'[i - 1]
    BY <1>2, <2>1, <2>2
  <2> QED BY <1>2, <2>2, <2>3 DEF Free
<1>7. Head(q) \in Free
  BY <1>1 DEF Free
<1> QED BY <1>1, <1>2, <1>4, <1>5, <1>6, <1>7

LEMMA FreePush ==
    ASSUME connList \in Seq(Conns), NEW c \in Conns \ Free, connList' = Append(connList, c),
           \A i, j \in DOMAIN connList : connList[i] = connList[j] => i = j
    PROVE  /\ Free' = Free \cup {c}
           /\ \A i, j \in DOMAIN connList' : connList'[i] = connList'[j] => i = j
           /\ connList' \in Seq(Conns)
           /\ Len(connList') = Len(connList) + 1
<1> DEFINE q == connList
           n == Len(connList)
<1>1. n \in Nat /\ DOMAIN q = 1..n /\ q' \in Seq(Conns)
  OBVIOUS
<1>2. Len(q') = n + 1 /\ DOMAIN q' = 1..(n + 1) /\ \A i \in 1..n : q'[i] = q[i]
  OBVIOUS
<1>3. q'[n + 1] = c
  OBVIOUS
<1>4. Free' = Free \cup {c}
  BY <1>1, <1>2, <1>3 DEF Free
<1>5. \A i \in 1..n : q[i] # c
  BY <1>1 DEF Free
<1>6. ASSUME NEW i \in 1..(n + 1), NEW j \in 1..(n + 1), q'[i] = q'[j]
      PROVE  i = j
  <2>1. (i \in 1..n \/ i = n + 1) /\ (j \in 1..n \/ j = n + 1)
    BY <1>1
  <2> QED BY <1>1, <1>2, <1>3, <1>5, <1>6, <2>1
<1> QED BY <1>1, <1>2, <1>4, <1>6

-----------------------------------------------------------------------------
(* One lemma per kind of step. *)

\* init() puts every connection in the list once: an injection between sets of the
\* same size reaches them all.
LEMMA InitInv == Init => Inv
<1> SUFFICES ASSUME Init PROVE Inv
  OBVIOUS
<1> DEFINE n == Cardinality(Conns)
<1>1. n \in Nat
  BY PoolAssumption, FS_CardinalityType
<1>2. connList \in Seq(Conns) /\ Len(connList) = n /\ DOMAIN connList = 1..n
  BY <1>1 DEF Init
<1>3. TypeOK
  <2>1. m_FreeConn \in Nat /\ m_CurConn \in Nat /\ reserve \in Nat
    BY <1>1 DEF Init
  <2>2. open \in SUBSET Conns
    BY DEF Init
  <2>3. /\ pc \in [Threads -> Places] /\ con \in [Threads -> Conns \cup {NoConn}]
        /\ lost \in [Conns -> Threads \cup {NoConn}]
    BY DEF Init, Places
  <2> QED BY <1>2, <2>1, <2>2, <2>3 DEF TypeOK
<1>4. \A p : p # "idle" => At(p) = {}
  BY DEF Init, At
<1>5. /\ Cardinality(At("pop")) = 0 /\ Cardinality(At("post")) = 0 /\ Cardinality(At("use")) = 0
      /\ Lost = {} /\ Cardinality(Lost) = 0
  <2>1. Lost = {}
    BY DEF Init, Lost
  <2> QED BY <1>4, <2>1, FS_EmptySet
<1>6. NeverPopEmpty /\ Inventory /\ WholeStock
  BY <1>1, <1>2, <1>5 DEF Init, NeverPopEmpty, Inventory, WholeStock
<1>7. Conns \subseteq Free
  <2>1. connList \in Injection(1..n, Conns)
    BY <1>2 DEF Init, Injection, IsInjective
  <2>2. Cardinality(1..n) = n
    BY <1>1, FS_Interval
  <2>3. connList \in Surjection(1..n, Conns)
    BY <2>1, <2>2, PoolAssumption, FS_Injection
  <2> QED BY <1>2, <2>3 DEF Surjection, Free
<1>8. \A t \in Threads : con[t] = NoConn /\ pc[t] = "idle"
  BY DEF Init
<1>9. Exclusive
  BY <1>5, <1>7, <1>8 DEF Init, Exclusive
<1>10. CountersExact
  <2>1. {t \in Threads : con[t] # NoConn} = {}
    BY <1>8
  <2>2. Cardinality({t \in Threads : con[t] # NoConn}) = 0
    BY <2>1, FS_EmptySet
  <2>3. m_CurConn = 0 /\ m_FreeConn = Len(connList)
    BY <1>2 DEF Init
  <2> QED BY <1>5, <2>2, <2>3 DEF CountersExact
<1>11. HoldsInUse /\ OpenUntilDone
  BY <1>8 DEF Init, HoldsInUse, OpenUntilDone
<1> QED BY <1>3, <1>6, <1>9, <1>10, <1>11 DEF Inv, IInv

\* Nothing is closed while a thread has not ended.
LEMMA OpenWhileUsed ==
    ASSUME Inv, NEW t \in Threads, pc[t] # "done" PROVE open = Conns /\ ~Closed
BY DEF Inv, OpenUntilDone, Closed

\* The connections in use are those of the threads at "use".
LEMMA InUse ==
    ASSUME HoldsInUse PROVE {t \in Threads : con[t] # NoConn} = At("use")
BY DEF HoldsInUse, At

\* What Inventory says, with the numbers it is about.
LEMMA Numbers ==
    ASSUME Inv, ~Closed
    PROVE  /\ Len(connList) \in Nat /\ reserve \in Nat
           /\ Cardinality(At("pop")) \in Nat
           /\ Cardinality(At("post")) \in Nat
           /\ Cardinality(At("use")) \in Nat
           /\ reserve + Cardinality(At("pop")) + Cardinality(At("post")) = Len(connList)
           /\ Cardinality(Lost) \in Nat
           /\ Len(connList) + Cardinality(At("use")) + Cardinality(Lost) = Cardinality(Conns)
BY AtFinite, LostFinite DEF Inv, IInv, TypeOK, Inventory, WholeStock

\* The steps that leave the pool alone and pass between places where a thread
\* holds nothing: tests, sleep, wake-up, the end.
LEMMA QuietInv ==
    ASSUME Inv, NEW t \in Threads, NEW p \in Places, NEW q \in Places \ {p},
           pc[t] = p, p # "done", {p, q} \cap {"pop", "use", "post"} = {},
           Goto(t, q), UNCHANGED <<pool, hands>>
    PROVE  Inv'
<1>1. UNCHANGED <<connList, m_FreeConn, m_CurConn, reserve, open, con, lost>>
  BY DEF pool, hands
<1>2. /\ pc' \in [Threads -> Places]
      /\ At("pop")' = At("pop") /\ At("use")' = At("use") /\ At("post")' = At("post")
  <2>1. TypeOK
    BY DEF Inv, IInv
  <2>2. /\ pc' \in [Threads -> Places]
        /\ \A r \in Places \ {p, q} : At(r)' = At(r)
    BY <2>1, Moves
  <2>3. {"pop", "use", "post"} \subseteq Places \ {p, q}
    BY DEF Places
  <2> QED BY <2>2, <2>3
<1>3. Free' = Free /\ Closed' = Closed /\ Lost' = Lost
  BY <1>1 DEF Free, Closed, Lost
<1>4. TypeOK'
  BY <1>1, <1>2 DEF Inv, IInv, TypeOK
<1>5. NeverPopEmpty' /\ Inventory' /\ WholeStock'
  BY <1>1, <1>2, <1>3 DEF Inv, IInv, NeverPopEmpty, Inventory, WholeStock
<1>6. Exclusive'
  BY <1>1, <1>3 DEF Inv, IInv, Exclusive
<1>7. CountersExact'
  BY <1>1, <1>3 DEF Inv, IInv, CountersExact
<1>8. HoldsInUse'
  BY <1>1 DEF Inv, IInv, TypeOK, HoldsInUse, Goto
<1>9. OpenUntilDone'
  BY <1>1, OpenWhileUsed DEF OpenUntilDone
<1> QED BY <1>4, <1>5, <1>6, <1>7, <1>8, <1>9 DEF Inv, IInv

LEMMA GetWaitInv == ASSUME Inv, NEW t \in Threads, GetWait(t) PROVE Inv'
<1>1. /\ pc[t] = "wait" /\ reserve > 0 /\ reserve' = reserve - 1 /\ Goto(t, "pop")
      /\ UNCHANGED <<connList, m_FreeConn, m_CurConn, open, con, lost>>
  BY DEF GetWait, hands
<1>2. /\ pc' \in [Threads -> Places]
      /\ Cardinality(At("pop")') = Cardinality(At("pop")) + 1
      /\ At("use")' = At("use") /\ At("post")' = At("post")
  BY <1>1, Moves DEF Inv, IInv, Places
<1>3. open = Conns /\ ~Closed
  BY <1>1, OpenWhileUsed
<1>4. Free' = Free /\ Closed' = Closed /\ Lost' = Lost
  BY <1>1 DEF Free, Closed, Lost
<1>5. TypeOK'
  BY <1>1, <1>2 DEF Inv, IInv, TypeOK
<1>6. NeverPopEmpty' /\ Inventory' /\ WholeStock'
  BY <1>1, <1>2, <1>3, <1>4, Numbers DEF NeverPopEmpty, Inventory, WholeStock
<1>7. Exclusive'
  BY <1>1, <1>4 DEF Inv, IInv, Exclusive
<1>8. CountersExact'
  BY <1>1, <1>4 DEF Inv, IInv, CountersExact
<1>9. HoldsInUse'
  BY <1>1 DEF Inv, IInv, TypeOK, HoldsInUse, Goto
<1> QED BY <1>1, <1>3, <1>5, <1>6, <1>7, <1>8, <1>9 DEF Inv, IInv, OpenUntilDone

LEMMA GetPopInv == ASSUME Inv, NEW t \in Threads, GetPop(t) PROVE Inv'
<1> DEFINE c == Head(connList)
<1>1. /\ pc[t] = "pop" /\ connList # <<>> /\ Goto(t, "use")
      /\ con' = [con EXCEPT ![t] = c] /\ connList' = Tail(connList)
      /\ m_FreeConn' = m_FreeConn - 1 /\ m_CurConn' = m_CurConn + 1
      /\ UNCHANGED <<reserve, open, lost>>
  BY DEF GetPop
<1>2. /\ pc' \in [Threads -> Places]
      /\ Cardinality(At("pop")') = Cardinality(At("pop")) - 1
      /\ Cardinality(At("use")') = Cardinality(At("use")) + 1
      /\ At("post")' = At("post")
  BY <1>1, Moves DEF Inv, IInv, Places
<1>3. open = Conns /\ ~Closed /\ Closed' = Closed /\ Lost' = Lost
  BY <1>1, OpenWhileUsed DEF Closed, Lost
<1>4. /\ c \in Free /\ Free' = Free \ {c}
      /\ \A i, j \in DOMAIN connList' : connList'[i] = connList'[j] => i = j
      /\ connList' \in Seq(Conns)
      /\ Len(connList') = Len(connList) - 1 /\ Len(connList) > 0
  BY <1>1, FreePop DEF Inv, IInv, TypeOK, Exclusive
<1>5. c \in Conns /\ c # NoConn
  BY <1>4, PoolAssumption DEF Inv, IInv, TypeOK, Free
<1>6. con'[t] = c /\ \A u \in Threads : u # t => con'[u] = con[u]
  BY <1>1 DEF Inv, IInv, TypeOK
<1>7. /\ m_FreeConn = Len(connList)
      /\ m_CurConn = Cardinality(At("use")) + Cardinality(Lost) /\ m_CurConn \in Nat
  BY <1>3, InUse DEF Inv, IInv, CountersExact, TypeOK
<1>8. TypeOK'
  <2>1. con' \in [Threads -> Conns \cup {NoConn}]
    BY <1>1, <1>5 DEF Inv, IInv, TypeOK
  <2>2. m_FreeConn' \in Nat /\ m_CurConn' \in Nat
    BY <1>1, <1>3, <1>4, <1>7, Numbers
  <2> QED BY <1>1, <1>2, <1>4, <2>1, <2>2 DEF Inv, IInv, TypeOK
<1>9. HoldsInUse'
  BY <1>1, <1>5, <1>6 DEF Inv, IInv, TypeOK, HoldsInUse, Goto
<1>10. NeverPopEmpty' /\ Inventory' /\ WholeStock'
  BY <1>1, <1>2, <1>3, <1>4, Numbers DEF NeverPopEmpty, Inventory, WholeStock
<1>11. CountersExact'
  <2>1. {u \in Threads : con'[u] # NoConn} = At("use")'
    BY <1>9 DEF HoldsInUse, At
  <2>2. m_CurConn' = Cardinality(At("use")') + Cardinality(Lost')
    BY <1>1, <1>2, <1>3, <1>7, AtFinite, LostFinite
  <2>3. m_FreeConn' = Len(connList')
    BY <1>1, <1>4, <1>7
  <2> QED BY <2>1, <2>2, <2>3 DEF CountersExact
<1>12. c \notin Lost /\ \A u \in Threads : con[u] # c /\ con[t] = NoConn
  BY <1>1, <1>4, <1>5 DEF Inv, IInv, Exclusive, HoldsInUse
<1>13. Exclusive'
  <2>1. \A u \in Threads : con'[u] # NoConn => con'[u] \in open' \ (Free' \cup Lost')
    BY <1>1, <1>3, <1>4, <1>5, <1>6, <1>12 DEF Inv, IInv, Exclusive
  <2>2. \A u, v \in Threads : con'[u] = con'[v] /\ con'[u] # NoConn => u = v
    BY <1>6, <1>12 DEF Inv, IInv, Exclusive
  <2>3. \A d \in Conns : d \in Free' \cup Lost' \/ \E u \in Threads : con'[u] = d
    <3> SUFFICES ASSUME NEW d \in Conns, d # c
                 PROVE  d \in Free' \cup Lost' \/ \E u \in Threads : con'[u] = d
      BY <1>6
    <3>1. d \in Free \cup Lost \/ \E u \in Threads : con[u] = d
      BY <1>3 DEF Inv, IInv, Exclusive
    <3>2. d # NoConn
      BY PoolAssumption
    <3> QED BY <3>1, <3>2, <1>3, <1>4, <1>6, <1>12
  <2>4. Lost' \subseteq open' \ Free'
    BY <1>1, <1>3, <1>4 DEF Inv, IInv, Exclusive
  <2> QED BY <1>4, <2>1, <2>2, <2>3, <2>4 DEF Exclusive
<1> QED BY <1>1, <1>3, <1>8, <1>9, <1>10, <1>11, <1>13 DEF Inv, IInv, OpenUntilDone

LEMMA ReleasePushInv == ASSUME Inv, NEW t \in Threads, ReleasePush(t) PROVE Inv'
<1> DEFINE c == con[t]
<1>1. /\ pc[t] = "use" /\ Goto(t, "post")
      /\ con' = [con EXCEPT ![t] = NoConn] /\ connList' = Append(connList, c)
      /\ m_FreeConn' = m_FreeConn + 1 /\ m_CurConn' = m_CurConn - 1
      /\ UNCHANGED <<reserve, open, lost>>
  BY DEF ReleasePush
<1>2. /\ pc' \in [Threads -> Places]
      /\ Cardinality(At("use")') = Cardinality(At("use")) - 1
      /\ Cardinality(At("post")') = Cardinality(At("post")) + 1
      /\ At("pop")' = At("pop")
      /\ Cardinality(At("use")') \in Nat
  <2>1. Cardinality(At("use")') \in Nat
    BY PoolAssumption, FS_Subset, FS_CardinalityType DEF At
  <2> QED BY <1>1, <2>1, Moves DEF Inv, IInv, Places
<1>3. open = Conns /\ ~Closed /\ Closed' = Closed /\ Lost' = Lost
  BY <1>1, OpenWhileUsed DEF Closed, Lost
<1>4. c # NoConn /\ c \in Conns \ (Free \cup Lost)
  BY <1>1 DEF Inv, IInv, TypeOK, HoldsInUse, Exclusive
<1>5. /\ Free' = Free \cup {c}
      /\ \A i, j \in DOMAIN connList' : connList'[i] = connList'[j] => i = j
      /\ connList' \in Seq(Conns)
      /\ Len(connList') = Len(connList) + 1
  <2>1. /\ connList \in Seq(Conns)
        /\ \A i, j \in DOMAIN connList : connList[i] = connList[j] => i = j
    BY DEF Inv, IInv, TypeOK, Exclusive
  <2> HIDE DEF c
  <2> QED BY <1>1, <1>4, <2>1, FreePush
<1>6. con'[t] = NoConn /\ \A u \in Threads : u # t => con'[u] = con[u] /\ con[u] # c
  BY <1>1, <1>4 DEF Inv, IInv, TypeOK, Exclusive
<1>7. /\ m_FreeConn = Len(connList)
      /\ m_CurConn = Cardinality(At("use")) + Cardinality(Lost) /\ m_CurConn \in Nat
  BY <1>3, InUse DEF Inv, IInv, CountersExact, TypeOK
<1>8. TypeOK'
  <2>1. con' \in [Threads -> Conns \cup {NoConn}]
    BY <1>1 DEF Inv, IInv, TypeOK
  <2>2. m_FreeConn' \in Nat
    BY <1>1, <1>7 DEF Inv, IInv, TypeOK
  <2>3. m_CurConn' \in Nat
    BY <1>1, <1>2, <1>7, AtFinite, LostFinite
  <2> QED BY <1>1, <1>2, <1>5, <2>1, <2>2, <2>3 DEF Inv, IInv, TypeOK
<1>9. HoldsInUse'
  BY <1>1, <1>6 DEF Inv, IInv, TypeOK, HoldsInUse, Goto
<1>10. NeverPopEmpty' /\ Inventory' /\ WholeStock'
  <2>1. /\ Cardinality(At("pop")') <= Len(connList')
        /\ reserve' + Cardinality(At("pop")') + Cardinality(At("post")') = Len(connList')
    BY <1>1, <1>2, <1>3, <1>5, Numbers
  <2>2. Len(connList') + Cardinality(At("use")') + Cardinality(Lost') = Cardinality(Conns)
    BY <1>1, <1>2, <1>3, <1>5, Numbers
  <2> QED BY <2>1, <2>2 DEF NeverPopEmpty, Inventory, WholeStock
<1>11. CountersExact'
  <2>1. {u \in Threads : con'[u] # NoConn} = At("use")'
    BY <1>9 DEF HoldsInUse, At
  <2>2. m_CurConn' = Cardinality(At("use")') + Cardinality(Lost')
    BY <1>1, <1>2, <1>3, <1>7, AtFinite, LostFinite
  <2>3. m_FreeConn' = Len(connList')
    BY <1>1, <1>5, <1>7
  <2> QED BY <2>1, <2>2, <2>3 DEF CountersExact
<1>12. Exclusive'
  <2>1. \A u \in Threads : con'[u] # NoConn => con'[u] \in open' \ (Free' \cup Lost')
    BY <1>1, <1>3, <1>5, <1>6 DEF Inv, IInv, Exclusive
  <2>2. \A u, v \in Threads : con'[u] = con'[v] /\ con'[u] # NoConn => u = v
    BY <1>6 DEF Inv, IInv, Exclusive
  <2>3. \A d \in Conns : d \in Free' \cup Lost' \/ \E u \in Threads : con'[u] = d
    BY <1>3, <1>5, <1>6 DEF Inv, IInv, Exclusive
  <2>4. Lost' \subseteq open' \ Free'
    BY <1>1, <1>3, <1>4, <1>5 DEF Inv, IInv, Exclusive
  <2> QED BY <1>5, <2>1, <2>2, <2>3, <2>4 DEF Exclusive
<1> QED BY <1>1, <1>3, <1>8, <1>9, <1>10, <1>11, <1>12 DEF Inv, IInv, OpenUntilDone

LEMMA LoseInv == ASSUME Inv, NEW t \in Threads, Lose(t) PROVE Inv'
<1> DEFINE c == con[t]
<1>1. /\ pc[t] = "use" /\ Goto(t, "idle")
      /\ con' = [con EXCEPT ![t] = NoConn] /\ lost' = [lost EXCEPT ![c] = t]
      /\ UNCHANGED <<connList, m_FreeConn, m_CurConn, reserve, open>>
  BY DEF Lose, pool
<1>2. /\ pc' \in [Threads -> Places]
      /\ Cardinality(At("use")') = Cardinality(At("use")) - 1
      /\ At("post")' = At("post") /\ At("pop")' = At("pop")
  BY <1>1, Moves DEF Inv, IInv, Places
<1>3. open = Conns /\ ~Closed /\ Closed' = Closed /\ Free' = Free
  BY <1>1, OpenWhileUsed DEF Closed, Free
<1>4. c # NoConn /\ c \in Conns \ (Free \cup Lost)
  BY <1>1 DEF Inv, IInv, TypeOK, HoldsInUse, Exclusive
<1>5. Lost' = Lost \cup {c} /\ Cardinality(Lost') = Cardinality(Lost) + 1
  <2>1. Lost' = Lost \cup {c}
    BY <1>1, <1>4, PoolAssumption DEF Inv, IInv, TypeOK, Lost
  <2> HIDE DEF c
  <2> QED BY <1>4, <2>1, LostFinite, FS_AddElement
<1>6. con'[t] = NoConn /\ \A u \in Threads : u # t => con'[u] = con[u] /\ con[u] # c
  BY <1>1, <1>4 DEF Inv, IInv, TypeOK, Exclusive
<1>7. m_FreeConn = Len(connList) /\ m_CurConn = Cardinality(At("use")) + Cardinality(Lost)
  BY <1>3, InUse DEF Inv, IInv, CountersExact
<1>8. TypeOK'
  BY <1>1, <1>2, <1>4 DEF Inv, IInv, TypeOK
<1>9. HoldsInUse'
  BY <1>1, <1>6 DEF Inv, IInv, TypeOK, HoldsInUse, Goto
<1>10. NeverPopEmpty' /\ Inventory' /\ WholeStock'
  BY <1>1, <1>2, <1>3, <1>5, Numbers DEF Inv, IInv, NeverPopEmpty, Inventory, WholeStock
<1>11. CountersExact'
  <2>1. {u \in Threads : con'[u] # NoConn} = At("use")'
    BY <1>9 DEF HoldsInUse, At
  <2>2. m_CurConn' = Cardinality(At("use")') + Cardinality(Lost')
    BY <1>1, <1>2, <1>5, <1>7, AtFinite, LostFinite
  <2> QED BY <1>1, <1>7, <2>1, <2>2 DEF CountersExact
<1>12. Exclusive'
  <2>1. \A u \in Threads : con'[u] # NoConn => con'[u] \in open' \ (Free' \cup Lost')
    BY <1>1, <1>3, <1>5, <1>6 DEF Inv, IInv, Exclusive
  <2>2. \A u, v \in Threads : con'[u] = con'[v] /\ con'[u] # NoConn => u = v
    BY <1>6 DEF Inv, IInv, Exclusive
  <2>3. \A d \in Conns : d \in Free' \cup Lost' \/ \E u \in Threads : con'[u] = d
    BY <1>3, <1>5, <1>6 DEF Inv, IInv, Exclusive
  <2>4. Lost' \subseteq open' \ Free'
    BY <1>1, <1>3, <1>4, <1>5 DEF Inv, IInv, Exclusive
  <2> QED BY <1>1, <2>1, <2>2, <2>3, <2>4 DEF Inv, IInv, Exclusive
<1> QED BY <1>1, <1>3, <1>8, <1>9, <1>10, <1>11, <1>12 DEF Inv, IInv, OpenUntilDone

\* Where ReleasePost leaves the threads.
LEMMA PostMoves ==
    ASSUME TypeOK, NEW t \in Threads, ReleasePost(t)
    PROVE  /\ pc' \in [Threads -> Places]
           /\ Cardinality(At("post")') = Cardinality(At("post")) - 1
           /\ At("pop")' = At("pop") /\ At("use")' = At("use")
           /\ \A u \in Threads : pc'[u] = "use" <=> pc[u] = "use"
           /\ pc'[t] = "idle"
<1>1. CASE At("sleep") = {}
  <2>1. pc[t] = "post" /\ Goto(t, "idle")
    BY <1>1 DEF ReleasePost
  <2>2. \A u \in Threads : pc'[u] = "use" <=> pc[u] = "use"
    BY <2>1 DEF Goto, TypeOK
  <2>3. pc'[t] = "idle"
    BY <2>1 DEF Goto, TypeOK
  <2> QED BY <2>1, <2>2, <2>3, Moves DEF Places
<1>2. CASE At("sleep") # {}
  <2>1. PICK s \in At("sleep") : pc' = [pc EXCEPT ![t] = "idle", ![s] = "wait"]
    BY <1>2 DEF ReleasePost
  <2>2. s \in Threads /\ pc[s] = "sleep" /\ pc[t] = "post" /\ s # t
    BY <2>1 DEF At, ReleasePost
  <2>3. /\ pc' \in [Threads -> Places] /\ pc'[t] = "idle" /\ pc'[s] = "wait"
        /\ \A u \in Threads : u # t /\ u # s => pc'[u] = pc[u]
    BY <2>1, <2>2 DEF TypeOK, Places
  <2>4. t \in At("post") /\ At("post")' = At("post") \ {t}
    BY <2>2, <2>3 DEF At
  <2>5. At("pop")' = At("pop") /\ At("use")' = At("use")
    BY <2>2, <2>3 DEF At
  <2>6. \A u \in Threads : pc'[u] = "use" <=> pc[u] = "use"
    BY <2>2, <2>3
  <2> QED BY <2>3, <2>4, <2>5, <2>6, OneFewer
<1> QED BY <1>1, <1>2

LEMMA ReleasePostInv == ASSUME Inv, NEW t \in Threads, ReleasePost(t) PROVE Inv'
<1>1. /\ pc[t] = "post" /\ reserve' = reserve + 1
      /\ UNCHANGED <<connList, m_FreeConn, m_CurConn, open, con, lost>>
  BY DEF ReleasePost, hands
<1>2. /\ pc' \in [Threads -> Places]
      /\ Cardinality(At("post")') = Cardinality(At("post")) - 1
      /\ At("pop")' = At("pop") /\ At("use")' = At("use")
      /\ \A u \in Threads : pc'[u] = "use" <=> pc[u] = "use"
  BY PostMoves DEF Inv, IInv
<1>3. open = Conns /\ ~Closed
  BY <1>1, OpenWhileUsed
<1>4. Free' = Free /\ Closed' = Closed /\ Lost' = Lost
  BY <1>1 DEF Free, Closed, Lost
<1>5. TypeOK'
  BY <1>1, <1>2 DEF Inv, IInv, TypeOK
<1>6. NeverPopEmpty' /\ Inventory' /\ WholeStock'
  BY <1>1, <1>2, <1>3, <1>4, Numbers DEF NeverPopEmpty, Inventory, WholeStock
<1>7. Exclusive'
  BY <1>1, <1>4 DEF Inv, IInv, Exclusive
<1>8. CountersExact'
  BY <1>1, <1>4 DEF Inv, IInv, CountersExact
<1>9. HoldsInUse'
  BY <1>1, <1>2 DEF Inv, HoldsInUse
<1> QED BY <1>1, <1>3, <1>5, <1>6, <1>7, <1>8, <1>9 DEF Inv, IInv, OpenUntilDone

\* The destructor finds every connection in the list that is not lost.
LEMMA DestroyAll ==
    ASSUME Inv, DestroyPool
    PROVE  /\ open = Conns /\ open' = Lost /\ Closed'
           /\ \A t \in Threads : con[t] = NoConn /\ pc[t] = "done"
<1>1. \A t \in Threads : con[t] = NoConn /\ pc[t] = "done"
  BY DEF DestroyPool, Inv, HoldsInUse
<1>2. connList # <<>> /\ open' = open \ Free
  BY DEF DestroyPool, Free
<1>3. open = Conns /\ ~Closed
  BY <1>2 DEF Inv, OpenUntilDone, Closed
<1>4. \A c \in Conns : c \in Free \cup Lost
  BY <1>1, <1>3, PoolAssumption DEF Inv, IInv, Exclusive
<1>5. Lost \subseteq Conns \ Free
  BY <1>3 DEF Inv, IInv, Exclusive
<1>6. connList[1] \in Free /\ connList[1] \in Conns
  BY <1>2 DEF Inv, IInv, TypeOK, Free
<1>7. open' # Conns
  BY <1>2, <1>6
<1> QED BY <1>1, <1>2, <1>3, <1>4, <1>5, <1>7 DEF Closed

LEMMA DestroyInv == ASSUME Inv, DestroyPool PROVE Inv'
<1>1. /\ m_CurConn' = 0 /\ m_FreeConn' = 0 /\ connList' = <<>>
      /\ UNCHANGED <<reserve, pc, con, lost>>
  BY DEF DestroyPool, hands
<1>2. /\ open' = Lost /\ Closed' /\ Lost' = Lost
      /\ \A t \in Threads : con'[t] = NoConn /\ pc'[t] = "done"
  BY <1>1, DestroyAll DEF Lost
<1>3. At("pop")' = {}
  BY <1>2 DEF At
<1>4. Len(connList') = 0 /\ DOMAIN connList' = {} /\ connList' \in Seq(Conns)
  BY <1>1
<1>5. TypeOK'
  BY <1>1, <1>2, <1>4 DEF Inv, IInv, TypeOK, Lost
<1>6. NeverPopEmpty' /\ CountersExact'
  <2>1. Cardinality(At("pop")') = 0
    BY <1>3, FS_EmptySet
  <2> QED BY <1>1, <1>2, <1>4, <2>1 DEF NeverPopEmpty, CountersExact
<1>7. Free' = {}
  BY <1>4 DEF Free
<1>8. Exclusive'
  BY <1>2, <1>4, <1>7 DEF Exclusive
<1> QED BY <1>1, <1>2, <1>5, <1>6, <1>8
    DEF Inv, IInv, Inventory, WholeStock, HoldsInUse, OpenUntilDone

LEMMA NextInv == Inv /\ [Next]_vars => Inv'
<1> SUFFICES ASSUME Inv, [Next]_vars PROVE Inv'
  OBVIOUS
<1>1. ASSUME NEW t \in Threads, Step(t) PROVE Inv'
  <2>1. CASE GetTest(t)
    <3>1. pc[t] = "idle" /\ UNCHANGED <<pool, hands>> /\ (Goto(t, "none") \/ Goto(t, "wait"))
      BY <2>1 DEF GetTest
    <3> QED BY <3>1, QuietInv DEF Places
  <2>2. CASE GetSleep(t)
    BY <2>2, QuietInv DEF GetSleep, Places
  <2>3. CASE SpuriousWakeup(t)
    BY <2>3, QuietInv DEF SpuriousWakeup, Places
  <2>4. CASE ReleaseNull(t)
    BY <2>4, QuietInv DEF ReleaseNull, Places
  <2>5. CASE Exit(t)
    BY <2>5, QuietInv DEF Exit, Places
  <2> QED BY <1>1, <2>1, <2>2, <2>3, <2>4, <2>5, GetWaitInv, GetPopInv, ReleasePushInv,
             LoseInv, ReleasePostInv DEF Step
<1>2. CASE UNCHANGED vars
  <2>1. UNCHANGED <<connList, m_FreeConn, m_CurConn, reserve, open, pc, con, lost>>
    BY <1>2 DEF vars
  <2>2. \A p : At(p)' = At(p)
    BY <2>1 DEF At
  <2>3. Free' = Free /\ Closed' = Closed /\ Lost' = Lost
    BY <2>1 DEF Free, Closed, Lost
  <2>4. TypeOK' /\ Exclusive' /\ CountersExact'
    BY <2>1, <2>3 DEF Inv, IInv, TypeOK, Exclusive, CountersExact
  <2>5. NeverPopEmpty' /\ Inventory' /\ WholeStock'
    BY <2>1, <2>2, <2>3 DEF Inv, IInv, NeverPopEmpty, Inventory, WholeStock
  <2> QED BY <2>1, <2>4, <2>5 DEF Inv, IInv, HoldsInUse, OpenUntilDone
<1> QED BY <1>1, <1>2, DestroyInv DEF Next, Ended

LEMMA SpecInv == Spec => []Inv
BY InitInv, NextInv, PTL DEF Spec

\* All of the pool's bookkeeping is right at every moment: no connection is lent
\* twice, none leaves the pool but by a thread that loses it, none is taken from an
\* empty list although the test of the list takes no lock, the counters are exact,
\* a lost connection being one in use (sql_connection_pool.cpp:63-132).
THEOREM BookkeepingSound == Spec => []IInv
BY SpecInv, PTL DEF Inv

-----------------------------------------------------------------------------
(* The pool implements ResourcePool. *)

\* The owner of a connection is the one thread that holds it or has lost it.
LEMMA OwnerHolds ==
    ASSUME Inv, NEW c \in Conns
    PROVE  /\ \A t \in Threads : con[t] = c => ownerBar[c] = t
           /\ (\A t \in Threads : con[t] # c) => ownerBar[c] = lost[c]
<1>1. ASSUME NEW t \in Threads, con[t] = c PROVE ownerBar[c] = t
  <2>1. c # NoConn
    BY PoolAssumption
  <2>2. \A u \in Threads : con[u] = c => u = t
    BY <1>1, <2>1 DEF Inv, IInv, Exclusive
  <2>3. ownerBar[c] = CHOOSE u \in Threads : con[u] = c
    BY <1>1 DEF ownerBar
  <2> QED BY <1>1, <2>2, <2>3
<1>2. (\A t \in Threads : con[t] # c) => ownerBar[c] = lost[c]
  BY DEF ownerBar
<1> QED BY <1>1, <1>2

\* A connection that is not lost has lost no owner.
LEMMA NotLost ==
    ASSUME Inv, NEW c \in Conns \ Lost PROVE lost[c] = NoConn
BY DEF Lost

LEMMA LendStep ==
    ASSUME Inv, Inv', NEW t \in Threads, GetPop(t)
    PROVE  Abstract!Lend(t, Head(connList)) /\ Head(connList) \in Conns
<1> DEFINE c == Head(connList)
<1>1. /\ pc[t] = "pop" /\ connList # <<>> /\ con' = [con EXCEPT ![t] = c]
      /\ open' = open /\ lost' = lost
  BY DEF GetPop
<1>2. c \in Free /\ c \in Conns /\ c \notin Lost
  BY <1>1 DEF Inv, IInv, TypeOK, Free, Exclusive
<1>3. c \in open
  BY <1>1, <1>2, OpenWhileUsed
<1>4. \A u \in Threads : con[u] # c
  BY <1>2, PoolAssumption DEF Inv, IInv, Exclusive
<1>5. con[t] = NoConn
  BY <1>1 DEF Inv, HoldsInUse
<1>6. con'[t] = c /\ \A u \in Threads : u # t => con'[u] = con[u]
  BY <1>1 DEF Inv, IInv, TypeOK
<1>7. ownerBar[c] = NoConn
  BY <1>2, <1>4, OwnerHolds, NotLost
<1>8. ASSUME NEW d \in Conns PROVE ownerBar'[d] = [ownerBar EXCEPT ![c] = t][d]
  <2>1. CASE d = c
    <3>1. (CHOOSE u \in Threads : con'[u] = c) = t
      BY <1>4, <1>6
    <3> QED BY <1>2, <1>6, <2>1, <3>1 DEF ownerBar
  <2>2. CASE d # c
    <3>1. \A u \in Threads : con'[u] = d <=> con[u] = d
      BY <1>5, <1>6, <2>2, PoolAssumption
    <3>2. (CHOOSE u \in Threads : con'[u] = d) = (CHOOSE u \in Threads : con[u] = d)
      BY <3>1
    <3>3. ownerBar'[d] = ownerBar[d]
      BY <1>1, <3>1, <3>2 DEF ownerBar
    <3> QED BY <2>2, <3>3 DEF ownerBar
  <2> QED BY <2>1, <2>2
<1>9. ownerBar' = [ownerBar EXCEPT ![c] = t]
  BY <1>8 DEF ownerBar
<1> QED BY <1>1, <1>2, <1>3, <1>7, <1>9 DEF Abstract!Lend

LEMMA GiveBackStep ==
    ASSUME Inv, NEW t \in Threads, ReleasePush(t)
    PROVE  Abstract!GiveBack(t, con[t]) /\ con[t] \in Conns
<1> DEFINE c == con[t]
<1>1. pc[t] = "use" /\ con' = [con EXCEPT ![t] = NoConn] /\ open' = open /\ lost' = lost
  BY DEF ReleasePush
<1>2. c \in Conns /\ c # NoConn /\ c \notin Lost
  BY <1>1 DEF Inv, IInv, TypeOK, HoldsInUse, Exclusive
<1>3. ownerBar[c] = t
  BY <1>2, OwnerHolds
<1>4. con'[t] = NoConn /\ \A u \in Threads : u # t => con'[u] = con[u] /\ con[u] # c
  BY <1>1, <1>2 DEF Inv, IInv, TypeOK, Exclusive
<1>5. ASSUME NEW d \in Conns PROVE ownerBar'[d] = [ownerBar EXCEPT ![c] = NoConn][d]
  <2>1. CASE d = c
    <3>1. (\A u \in Threads : con'[u] # c) /\ lost[c] = NoConn
      BY <1>2, <1>4, NotLost
    <3> QED BY <1>1, <1>2, <2>1, <3>1 DEF ownerBar
  <2>2. CASE d # c
    <3>1. \A u \in Threads : con'[u] = d <=> con[u] = d
      BY <1>4, <2>2, PoolAssumption
    <3>2. (CHOOSE u \in Threads : con'[u] = d) = (CHOOSE u \in Threads : con[u] = d)
      BY <3>1
    <3>3. ownerBar'[d] = ownerBar[d]
      BY <1>1, <3>1, <3>2 DEF ownerBar
    <3> QED BY <2>2, <3>3 DEF ownerBar
  <2> QED BY <2>1, <2>2
<1>6. ownerBar' = [ownerBar EXCEPT ![c] = NoConn]
  BY <1>5 DEF ownerBar
<1> QED BY <1>1, <1>2, <1>3, <1>6 DEF Abstract!GiveBack

\* To its clients a lost connection stays lent to who lost it.
LEMMA LoseStep ==
    ASSUME Inv, NEW t \in Threads, Lose(t) PROVE UNCHANGED <<ownerBar, open>>
<1> DEFINE c == con[t]
<1>1. /\ pc[t] = "use" /\ con' = [con EXCEPT ![t] = NoConn] /\ open' = open
      /\ lost' = [lost EXCEPT ![c] = t]
  BY DEF Lose, pool
<1>2. c \in Conns /\ c # NoConn
  BY <1>1 DEF Inv, IInv, TypeOK, HoldsInUse
<1>3. ownerBar[c] = t
  BY <1>2, OwnerHolds
<1>4. con'[t] = NoConn /\ \A u \in Threads : u # t => con'[u] = con[u] /\ con[u] # c
  BY <1>1, <1>2 DEF Inv, IInv, TypeOK, Exclusive
<1>5. lost'[c] = t /\ \A d \in Conns \ {c} : lost'[d] = lost[d]
  BY <1>1, <1>2 DEF Inv, IInv, TypeOK
<1>6. ASSUME NEW d \in Conns PROVE ownerBar'[d] = ownerBar[d]
  <2>1. CASE d = c
    <3>1. \A u \in Threads : con'[u] # c
      BY <1>2, <1>4
    <3> QED BY <1>2, <1>3, <1>5, <2>1, <3>1 DEF ownerBar
  <2>2. CASE d # c
    <3>1. \A u \in Threads : con'[u] = d <=> con[u] = d
      BY <1>4, <2>2, PoolAssumption
    <3>2. (CHOOSE u \in Threads : con'[u] = d) = (CHOOSE u \in Threads : con[u] = d)
      BY <3>1
    <3> QED BY <1>5, <2>2, <3>1, <3>2 DEF ownerBar
  <2> QED BY <2>1, <2>2
<1>7. ownerBar' = ownerBar
  BY <1>6 DEF ownerBar
<1> QED BY <1>1, <1>7

\* The destructor closes what is not lent.
LEMMA CloseStep ==
    ASSUME Inv, DestroyPool PROVE Abstract!Close
<1>1. /\ open = Conns /\ open' = Lost
      /\ \A t \in Threads : con[t] = NoConn
  BY DestroyAll
<1>2. \A c \in Conns : ownerBar[c] = lost[c]
  BY <1>1, PoolAssumption, OwnerHolds
<1>3. open' = {c \in open : ownerBar[c] # NoConn}
  BY <1>1, <1>2 DEF Lost
<1>4. ownerBar' = ownerBar
  BY DEF DestroyPool, hands, ownerBar
<1> QED BY <1>3, <1>4 DEF Abstract!Close

LEMMA AbstractStep ==
    ASSUME Inv, [Next]_vars PROVE [Abstract!Next]_<<ownerBar, open>>
<1>1. ASSUME UNCHANGED <<con, lost, open>> PROVE UNCHANGED <<ownerBar, open>>
  BY <1>1 DEF ownerBar
<1>2. ASSUME NEW t \in Threads, GetPop(t) PROVE Abstract!Next
  BY <1>2, LendStep, NextInv DEF Abstract!Next, Next, Step
<1>3. ASSUME NEW t \in Threads, ReleasePush(t) PROVE Abstract!Next
  BY <1>3, GiveBackStep DEF Abstract!Next
<1>4. ASSUME NEW t \in Threads, Step(t), ~GetPop(t), ~ReleasePush(t), ~Lose(t)
      PROVE  UNCHANGED <<con, lost, open>>
  BY <1>4 DEF Step, GetTest, GetWait, GetSleep, SpuriousWakeup, ReleaseNull, ReleasePost, Exit,
              pool, hands
<1>5. CASE DestroyPool
  BY <1>5, CloseStep DEF Abstract!Next
<1>6. CASE UNCHANGED vars
  BY <1>1, <1>6 DEF vars
<1> QED BY <1>1, <1>2, <1>3, <1>4, <1>5, <1>6, LoseStep DEF Next, Ended

\* Seen by its callers the pool is one that lends each connection to one thread at a
\* time, takes it back from that thread only and closes those that are not lent, a
\* lost one staying lent to who lost it: the list, the counters and the semaphore are bookkeeping
\* (sql_connection_pool.cpp:63-132).
THEOREM PoolImplementsResourcePool == Spec => ImplementsResourcePool
<1>1. Init => Abstract!Init
  <2> SUFFICES ASSUME Init PROVE Abstract!Init
    OBVIOUS
  <2>1. \A c \in Conns : ownerBar[c] = NoConn
    BY PoolAssumption DEF Init, ownerBar
  <2> QED BY <2>1 DEF Init, Abstract!Init, ownerBar
<1>2. Inv /\ [Next]_vars => [Abstract!Next]_<<ownerBar, open>>
  BY AbstractStep
<1> QED BY <1>1, <1>2, SpecInv, PTL DEF Spec, ImplementsResourcePool, Abstract!Spec, Abstract!vars

-----------------------------------------------------------------------------
(* It uses `reserve` as a semaphore may be used. *)

LEMMA PlaceOf ==
    ASSUME NEW t \in Threads
    PROVE  /\ pc[t] = "wait" => place[t] = "test"
           /\ pc[t] = "sleep" => place[t] = "sleep"
           /\ pc[t] \notin {"wait", "sleep"} => place[t] = "out"
           /\ pc'[t] = "wait" => place'[t] = "test"
           /\ pc'[t] = "sleep" => place'[t] = "sleep"
           /\ pc'[t] \notin {"wait", "sleep"} => place'[t] = "out"
           /\ place[t] = "sleep" => pc[t] = "sleep"
BY DEF place

LEMMA PlaceMoves ==
    ASSUME TypeOK, NEW t \in Threads, NEW q, Goto(t, q)
    PROVE  place' = [place EXCEPT ![t] = CASE q = "wait" -> "test"
                                           [] q = "sleep" -> "sleep"
                                           [] OTHER -> "out"]
<1>1. pc'[t] = q /\ \A u \in Threads : u # t => pc'[u] = pc[u]
  BY DEF Goto, TypeOK
<1> QED BY <1>1 DEF place

LEMMA SleepersAgree == Monitor!At("sleep") = At("sleep")
BY PlaceOf DEF Monitor!At, At, place

LEMMA MonitorPost ==
    ASSUME Inv, NEW t \in Threads, ReleasePost(t) PROVE Monitor!Post
<1>1. pc[t] = "post" /\ reserve' = reserve + 1
  BY DEF ReleasePost
<1>2. reserve < Cardinality(Conns)
  <2>1. t \in At("post") /\ ~Closed
    BY <1>1, OpenWhileUsed DEF At
  <2>2. Cardinality(At("post")) # 0
    BY <2>1, AtFinite, FS_EmptySet
  <2> QED BY <2>1, <2>2, Numbers
<1>3. CASE At("sleep") = {}
  <2>1. place' = [place EXCEPT ![t] = "out"] /\ place[t] = "out"
    BY <1>1, <1>3, PlaceMoves, PlaceOf DEF ReleasePost, Inv, IInv
  <2>2. place' = place
    BY <2>1 DEF place
  <2> QED BY <1>1, <1>2, <1>3, <2>2, SleepersAgree DEF Monitor!Post, place
<1>4. CASE At("sleep") # {}
  <2>1. PICK s \in At("sleep") : pc' = [pc EXCEPT ![t] = "idle", ![s] = "wait"]
    BY <1>4 DEF ReleasePost
  <2>2. s \in Threads /\ pc[s] = "sleep" /\ s # t
    BY <1>1, <2>1 DEF At
  <2>3. pc'[s] = "wait" /\ pc'[t] = "idle" /\ \A u \in Threads : u # s /\ u # t => pc'[u] = pc[u]
    BY <2>1, <2>2 DEF Inv, IInv, TypeOK
  <2>4. place' = [place EXCEPT ![s] = "test"]
    BY <1>1, <2>2, <2>3 DEF place
  <2> QED BY <1>1, <1>2, <1>4, <2>1, <2>4, SleepersAgree DEF Monitor!Post, place
<1> QED BY <1>3, <1>4

LEMMA MonitorStep ==
    ASSUME Inv, [Next]_vars PROVE [Monitor!Next]_<<reserve, place>>
<1> USE DEF place
<1>1. TypeOK
  BY DEF Inv, IInv
<1>2. ASSUME NEW t \in Threads, GetTest(t) PROVE Monitor!Call(t) \/ UNCHANGED <<reserve, place>>
  <2>1. pc[t] = "idle" /\ reserve' = reserve /\ (Goto(t, "none") \/ Goto(t, "wait"))
    BY <1>2 DEF GetTest, pool
  <2> HIDE DEF place
  <2>2. place[t] = "out"
    BY <2>1, PlaceOf
  <2>3. CASE Goto(t, "wait")
    <3>1. place' = [place EXCEPT ![t] = "test"]
      BY <1>1, <2>3, PlaceMoves
    <3> QED BY <2>1, <2>2, <3>1 DEF Monitor!Call, place
  <2>4. CASE Goto(t, "none")
    <3>1. place' = [place EXCEPT ![t] = "out"]
      BY <1>1, <2>4, PlaceMoves
    <3> QED BY <2>1, <2>2, <3>1 DEF place
  <2> QED BY <2>1, <2>3, <2>4
<1>3. ASSUME NEW t \in Threads, GetWait(t) PROVE Monitor!Return(t)
  <2>1. pc[t] = "wait" /\ reserve > 0 /\ reserve' = reserve - 1 /\ Goto(t, "pop")
    BY <1>3 DEF GetWait
  <2> HIDE DEF place
  <2>2. place[t] = "test" /\ place' = [place EXCEPT ![t] = "out"]
    BY <1>1, <2>1, PlaceOf, PlaceMoves
  <2> QED BY <2>1, <2>2 DEF Monitor!Return, place
<1>4. ASSUME NEW t \in Threads, GetSleep(t) PROVE Monitor!Sleep(t)
  <2>1. pc[t] = "wait" /\ reserve = 0 /\ reserve' = reserve /\ Goto(t, "sleep")
    BY <1>4 DEF GetSleep, pool
  <2> HIDE DEF place
  <2>2. place[t] = "test" /\ place' = [place EXCEPT ![t] = "sleep"]
    BY <1>1, <2>1, PlaceOf, PlaceMoves
  <2> QED BY <2>1, <2>2 DEF Monitor!Sleep, place
<1>5. ASSUME NEW t \in Threads, SpuriousWakeup(t) PROVE Monitor!SpuriousWakeup(t)
  <2>1. pc[t] = "sleep" /\ reserve' = reserve /\ Goto(t, "wait")
    BY <1>5 DEF SpuriousWakeup, pool
  <2> HIDE DEF place
  <2>2. place[t] = "sleep" /\ place' = [place EXCEPT ![t] = "test"]
    BY <1>1, <2>1, PlaceOf, PlaceMoves
  <2> QED BY <2>1, <2>2 DEF Monitor!SpuriousWakeup, place
<1>6. ASSUME NEW t \in Threads, NEW q, q \notin {"wait", "sleep"}, Goto(t, q),
             pc[t] \notin {"wait", "sleep"}, reserve' = reserve
      PROVE  UNCHANGED <<reserve, place>>
  <2> HIDE DEF place
  <2>1. place[t] = "out" /\ place' = [place EXCEPT ![t] = "out"]
    BY <1>1, <1>6, PlaceOf, PlaceMoves
  <2> QED BY <1>6, <2>1 DEF place
<1>7. ASSUME NEW t \in Threads, \/ GetPop(t) \/ ReleaseNull(t) \/ ReleasePush(t)
                                \/ Lose(t) \/ Exit(t)
      PROVE  UNCHANGED <<reserve, place>>
  <2> HIDE DEF place
  <2> QED BY <1>6, <1>7 DEF GetPop, ReleaseNull, ReleasePush, Lose, Exit, pool
<1>8. CASE DestroyPool \/ UNCHANGED vars
  BY <1>8 DEF DestroyPool, vars
<1>9. ASSUME NEW t \in Threads, Step(t) PROVE Monitor!Next \/ UNCHANGED <<reserve, place>>
  <2> HIDE DEF place
  <2> QED BY <1>9, <1>2, <1>3, <1>4, <1>5, <1>7, MonitorPost DEF Step, Monitor!Next, Monitor!Step
<1> HIDE DEF place
<1> QED BY <1>8, <1>9 DEF Next, Ended

\* Seen through `reserve` GetConnection and ReleaseConnection do what the monitor's
\* wait() and post() do, and the count never exceeds the number of connections
\* (sql_connection_pool.cpp:70, :98; locker.h:43-61).
THEOREM PoolImplementsSemaphore == Spec => ImplementsSemaphore
<1>1. Init => Monitor!Init
  BY DEF Init, Monitor!Init, place
<1>2. Inv /\ [Next]_vars => [Monitor!Next]_<<reserve, place>>
  BY MonitorStep
<1> QED BY <1>1, <1>2, SpecInv, PTL DEF Spec, ImplementsSemaphore, Monitor!Spec, Monitor!vars, place

-----------------------------------------------------------------------------
(* The monitor of locker.h, in the pool's hands: it loses no wake-up and is a  *)
(* counting semaphore, for any finite number of threads and any count.        *)

LEMMA MonitorNumbers == Cardinality(Conns) \in Nat /\ IsFiniteSet(Threads)
BY PoolAssumption, FS_CardinalityType

\* The instance has the operators of FiniteSets for itself.
LEMMA MonitorCardinality ==
    ASSUME NEW S PROVE Monitor!Cardinality(S) = Cardinality(S)
BY DEF Monitor!Cardinality, Cardinality, Monitor!IsFiniteSet, IsFiniteSet

LEMMA MonitorAtFinite ==
    ASSUME NEW p
    PROVE  /\ IsFiniteSet(Monitor!At(p)) /\ Cardinality(Monitor!At(p)) \in Nat
           /\ IsFiniteSet(Monitor!At(p)') /\ Cardinality(Monitor!At(p)') \in Nat
<1>1. Monitor!At(p) \subseteq Threads /\ Monitor!At(p)' \subseteq Threads
  BY DEF Monitor!At
<1> QED BY <1>1, MonitorNumbers, FS_Subset, FS_CardinalityType

LEMMA MonitorTypeStep ==
    ASSUME Monitor!TypeOK, [Monitor!Next]_(Monitor!vars) PROVE Monitor!TypeOK'
<1> USE DEF Monitor!TypeOK
<1>1. CASE Monitor!Post
  BY <1>1 DEF Monitor!Post, Monitor!At
<1>2. ASSUME NEW t \in Threads, Monitor!Step(t) PROVE Monitor!TypeOK'
  BY <1>2 DEF Monitor!Step, Monitor!Call, Monitor!Return, Monitor!Sleep, Monitor!SpuriousWakeup
<1>3. CASE UNCHANGED Monitor!vars
  BY <1>3 DEF Monitor!vars
<1> QED BY <1>1, <1>2, <1>3 DEF Monitor!Next

\* The count is a natural number and every thread is at one of its three places
\* (locker.h:43-61): --m_count is reached only with a positive count.
THEOREM MonitorTypeCorrect == Monitor!Spec => []Monitor!TypeOK
<1>1. Monitor!Init => Monitor!TypeOK
  BY MonitorNumbers DEF Monitor!Init, Monitor!TypeOK
<1> QED BY <1>1, MonitorTypeStep, PTL DEF Monitor!Spec

\* A thread that starts to test the predicate is one more.
LEMMA TestGrows ==
    ASSUME Monitor!TypeOK, NEW t \in Threads, place[t] # "test",
           place' = [place EXCEPT ![t] = "test"]
    PROVE  /\ Cardinality(Monitor!At("test")') = Cardinality(Monitor!At("test")) + 1
           /\ Monitor!At("sleep")' = Monitor!At("sleep") \ {t}
<1>1. Monitor!At("test")' = Monitor!At("test") \cup {t} /\ t \notin Monitor!At("test")
  BY DEF Monitor!At, Monitor!TypeOK
<1>2. Cardinality(Monitor!At("test") \cup {t}) = Cardinality(Monitor!At("test")) + 1
  BY <1>1, MonitorAtFinite, FS_AddElement
<1>3. Monitor!At("sleep")' = Monitor!At("sleep") \ {t}
  BY DEF Monitor!At, Monitor!TypeOK
<1> QED BY <1>1, <1>2, <1>3

\* A thread that has tested it is one fewer.
LEMMA TestShrinks ==
    ASSUME Monitor!TypeOK, NEW t \in Threads, place[t] = "test", NEW p, p # "test",
           place' = [place EXCEPT ![t] = p]
    PROVE  Cardinality(Monitor!At("test")') = Cardinality(Monitor!At("test")) - 1
<1>1. Monitor!At("test")' = Monitor!At("test") \ {t} /\ t \in Monitor!At("test")
  BY DEF Monitor!At, Monitor!TypeOK
<1>2. Cardinality(Monitor!At("test") \ {t}) = Cardinality(Monitor!At("test")) - 1
  BY <1>1, MonitorAtFinite, FS_RemoveElement
<1> QED BY <1>1, <1>2

LEMMA MonitorWakeupStep ==
    ASSUME Monitor!TypeOK, Monitor!NoLostWakeup, [Monitor!Next]_(Monitor!vars)
    PROVE  Monitor!NoLostWakeup'
<1> DEFINE sleepers == Monitor!At("sleep")
           n == Cardinality(Monitor!At("test"))
<1>1. n \in Nat /\ n' \in Nat /\ reserve \in Nat
  BY MonitorAtFinite DEF Monitor!TypeOK
<1>2. sleepers # {} => n >= reserve
  BY MonitorCardinality DEF Monitor!NoLostWakeup
<1>3. SUFFICES sleepers' # {} => n' >= reserve'
  BY MonitorCardinality DEF Monitor!NoLostWakeup
<1>4. CASE Monitor!Post
  <2>1. reserve' = reserve + 1
    BY <1>4 DEF Monitor!Post
  <2>2. CASE sleepers = {}
    BY <1>4, <2>2 DEF Monitor!Post, Monitor!At
  <2>3. CASE sleepers # {}
    <3>1. PICK t \in sleepers : place' = [place EXCEPT ![t] = "test"]
      BY <1>4, <2>3 DEF Monitor!Post
    <3>2. t \in Threads /\ place[t] = "sleep"
      BY <3>1 DEF Monitor!At
    <3>3. n' = n + 1
      BY <3>1, <3>2, TestGrows
    <3> QED BY <1>1, <1>2, <2>1, <2>3, <3>3
  <2> QED BY <2>2, <2>3
<1>5. ASSUME NEW t \in Threads, Monitor!Call(t) \/ Monitor!SpuriousWakeup(t)
      PROVE  sleepers' # {} => n' >= reserve'
  <2>1. n' = n + 1 /\ sleepers' = sleepers \ {t} /\ reserve' = reserve
    BY <1>5, TestGrows DEF Monitor!Call, Monitor!SpuriousWakeup
  <2> HIDE DEF sleepers, n
  <2> QED BY <1>1, <1>2, <2>1
<1>6. ASSUME NEW t \in Threads, Monitor!Return(t) PROVE sleepers' # {} => n' >= reserve'
  <2>1. n' = n - 1 /\ reserve' = reserve - 1
    BY <1>6, TestShrinks DEF Monitor!Return
  <2>2. sleepers' = sleepers
    BY <1>6 DEF Monitor!Return, Monitor!At, Monitor!TypeOK
  <2> HIDE DEF sleepers, n
  <2> QED BY <1>1, <1>2, <2>1, <2>2
<1>7. ASSUME NEW t \in Threads, Monitor!Sleep(t) PROVE n' >= reserve'
  <2>1. reserve' = 0
    BY <1>7 DEF Monitor!Sleep
  <2> QED BY <1>1, <2>1
<1>8. CASE UNCHANGED Monitor!vars
  <2>1. sleepers' = sleepers /\ n' = n /\ reserve' = reserve
    BY <1>8 DEF Monitor!vars, Monitor!At
  <2> QED BY <1>2, <2>1
<1> QED BY <1>4, <1>5, <1>6, <1>7, <1>8 DEF Monitor!Next, Monitor!Step

\* No post() is lost on a thread that sleeps: notify_one inside the mutex wakes as
\* many as there is to take (locker.h:46-49, :56-59).
THEOREM MonitorLosesNoWakeup == Monitor!Spec => []Monitor!NoLostWakeup
<1>1. Monitor!Init => Monitor!NoLostWakeup
  BY DEF Monitor!Init, Monitor!NoLostWakeup, Monitor!At
<1> QED BY <1>1, MonitorWakeupStep, MonitorTypeCorrect, PTL DEF Monitor!Spec

\* Every step of the monitor is one of the counter or none, which is what the pool
\* takes `reserve` to be (locker.h:43-61).
THEOREM MonitorImplementsCounter == Monitor!Spec => Monitor!Counting!Spec
<1> DEFINE in == Monitor!At("test") \cup Monitor!At("sleep")
<1>1. Monitor!Init => Monitor!Counting!Init
  BY DEF Monitor!Init, Monitor!Counting!Init, Monitor!At
<1>2. ASSUME Monitor!TypeOK, [Monitor!Next]_(Monitor!vars)
      PROVE  [Monitor!Counting!Next]_<<reserve, in>>
  <2>1. CASE Monitor!Post
    <3>1. in' = in
      BY <1>2, <2>1 DEF Monitor!Post, Monitor!At, Monitor!TypeOK
    <3> QED BY <3>1, <2>1 DEF Monitor!Post, Monitor!Counting!Next, Monitor!Counting!Post
  <2>2. ASSUME NEW t \in Threads, Monitor!Call(t) PROVE Monitor!Counting!Call(t)
    <3>1. t \notin in /\ in' = in \cup {t}
      BY <1>2, <2>2 DEF Monitor!Call, Monitor!At, Monitor!TypeOK
    <3> QED BY <3>1, <2>2 DEF Monitor!Call, Monitor!Counting!Call
  <2>3. ASSUME NEW t \in Threads, Monitor!Return(t) PROVE Monitor!Counting!Return(t)
    <3>1. t \in in /\ in' = in \ {t}
      BY <1>2, <2>3 DEF Monitor!Return, Monitor!At, Monitor!TypeOK
    <3> QED BY <3>1, <2>3 DEF Monitor!Return, Monitor!Counting!Return
  <2>4. ASSUME NEW t \in Threads, Monitor!Sleep(t) \/ Monitor!SpuriousWakeup(t)
        PROVE  UNCHANGED <<reserve, in>>
    BY <1>2, <2>4 DEF Monitor!Sleep, Monitor!SpuriousWakeup, Monitor!At, Monitor!TypeOK
  <2>5. CASE UNCHANGED Monitor!vars
    BY <2>5 DEF Monitor!vars, Monitor!At
  <2> QED BY <1>2, <2>1, <2>2, <2>3, <2>4, <2>5 DEF Monitor!Next, Monitor!Step, Monitor!Counting!Next
<1> QED BY <1>1, <1>2, MonitorTypeCorrect, PTL DEF Monitor!Spec, Monitor!Counting!Spec

LEMMA ReserveLosesNoWakeup == Spec => []Monitor!NoLostWakeup
BY PoolImplementsSemaphore, MonitorLosesNoWakeup DEF ImplementsSemaphore

-----------------------------------------------------------------------------
(* A connection for every thread. *)

LEMMA DisjointSum ==
    ASSUME NEW S, NEW T, IsFiniteSet(S), IsFiniteSet(T), S \cap T = {}
    PROVE  IsFiniteSet(S \cup T) /\ Cardinality(S \cup T) = Cardinality(S) + Cardinality(T)
<1>1. /\ IsFiniteSet(S \cup T)
      /\ Cardinality(S \cup T) = Cardinality(S) + Cardinality(T) - Cardinality({})
  BY FS_Union
<1> QED BY <1>1, FS_EmptySet, FS_CardinalityType

\* The threads that have taken from the semaphore and not given back.
Busy == At("pop") \cup At("post") \cup At("use")

LEMMA BusyCount ==
    ASSUME Inv, ~Closed
    PROVE  IsFiniteSet(Busy) /\ Cardinality(Busy) = Cardinality(Conns) - Cardinality(Lost) - reserve
<1>1. At("pop") \cap At("post") = {} /\ (At("pop") \cup At("post")) \cap At("use") = {}
  BY DEF At
<1>2. /\ IsFiniteSet(At("pop") \cup At("post"))
      /\ Cardinality(At("pop") \cup At("post")) = Cardinality(At("pop")) + Cardinality(At("post"))
  BY <1>1, AtFinite, DisjointSum
<1>3. /\ IsFiniteSet(Busy)
      /\ Cardinality(Busy) = Cardinality(At("pop") \cup At("post")) + Cardinality(At("use"))
  BY <1>1, <1>2, AtFinite, DisjointSum DEF Busy
<1> QED BY <1>2, <1>3, Numbers

\* With no more threads than connections that are not lost, the threads that wait,
\* one that does not and the busy ones are no more than these.
LEMMA LiveBound ==
    ASSUME Cardinality({t \in Threads : pc[t] # "done"}) + Cardinality(Lost) <= Cardinality(Conns),
           NEW S, S \subseteq {t \in Threads : pc[t] # "done"}, NEW s \in Threads, pc[s] # "done",
           s \notin S
    PROVE  Cardinality(S) + 1 + Cardinality(Lost) <= Cardinality(Conns)
<1> DEFINE L == {t \in Threads : pc[t] # "done"}
<1>1. IsFiniteSet(L) /\ Cardinality(L) \in Nat
  BY PoolAssumption, FS_Subset, FS_CardinalityType
<1>2. IsFiniteSet(S) /\ Cardinality(S) \in Nat
  BY <1>1, FS_Subset, FS_CardinalityType
<1>3. Cardinality(S \cup {s}) = Cardinality(S) + 1
  BY <1>2, FS_AddElement
<1>4. S \cup {s} \in SUBSET L
  OBVIOUS
<1>5. Cardinality(S \cup {s}) <= Cardinality(L)
  <2> HIDE DEF L
  <2> QED BY <1>1, <1>4, FS_Subset
<1>6. Cardinality(Conns) \in Nat /\ Cardinality(Lost) \in Nat
  BY PoolAssumption, LostFinite, FS_CardinalityType
<1> QED BY <1>1, <1>2, <1>3, <1>5, <1>6

LEMMA WaitersAgree ==
    Monitor!NoLostWakeup => (At("sleep") # {} => Cardinality(At("wait")) >= reserve)
<1>1. Monitor!At("test") = At("wait")
  BY DEF Monitor!At, At, place
<1> QED BY <1>1, MonitorCardinality, SleepersAgree DEF Monitor!NoLostWakeup

LEMMA EnoughFromInv == Inv /\ Monitor!NoLostWakeup => EnoughForAll
<1> SUFFICES ASSUME Inv, Monitor!NoLostWakeup,
                    Cardinality({t \in Threads : pc[t] # "done"}) + Cardinality(Lost)
                        <= Cardinality(Conns)
             PROVE  /\ At("idle") # {} => connList # <<>>
                    /\ At("wait") # {} => reserve > 0
                    /\ At("sleep") = {}
  BY DEF EnoughForAll
<1>1. Cardinality(Conns) \in Nat /\ Cardinality(Lost) \in Nat
  BY PoolAssumption, LostFinite, FS_CardinalityType
<1>2. ASSUME NEW t \in At("idle"), connList = <<>> PROVE FALSE
  <2>1. t \in Threads /\ pc[t] = "idle" /\ ~Closed
    BY <1>2, OpenWhileUsed DEF At
  <2>2. Cardinality(At("use")) + Cardinality(Lost) = Cardinality(Conns)
    BY <1>1, <1>2, <2>1, Numbers
  <2>3. Cardinality(At("use")) + 1 + Cardinality(Lost) <= Cardinality(Conns)
    BY <2>1, LiveBound DEF At
  <2> QED BY <1>1, <2>2, <2>3, AtFinite
<1>3. Busy \subseteq {t \in Threads : pc[t] # "done"}
  BY DEF Busy, At
<1>4. ASSUME NEW t \in At("wait"), ~(reserve > 0) PROVE FALSE
  <2>1. t \in Threads /\ pc[t] = "wait" /\ ~Closed /\ t \notin Busy
    BY <1>4, OpenWhileUsed DEF At, Busy
  <2>2. Cardinality(Busy) + 1 + Cardinality(Lost) <= Cardinality(Conns)
    BY <1>3, <2>1, LiveBound
  <2>3. reserve = 0
    BY <1>4 DEF Inv, IInv, TypeOK
  <2>4. Cardinality(Busy) = Cardinality(Conns) - Cardinality(Lost)
    BY <1>1, <2>1, <2>3, BusyCount
  <2> QED BY <1>1, <2>2, <2>4
<1>5. ASSUME NEW s \in At("sleep") PROVE FALSE
  <2>1. s \in Threads /\ pc[s] = "sleep" /\ ~Closed /\ s \notin Busy \cup At("wait")
    BY <1>5, OpenWhileUsed DEF At, Busy
  <2>2. Cardinality(At("wait")) >= reserve
    BY <1>5, WaitersAgree
  <2>3. Busy \cap At("wait") = {} /\ Busy \cup At("wait") \subseteq {t \in Threads : pc[t] # "done"}
    BY DEF Busy, At
  <2>4. Cardinality(Busy \cup At("wait")) = Cardinality(Busy) + Cardinality(At("wait"))
    BY <2>1, <2>3, AtFinite, BusyCount, DisjointSum
  <2>5. Cardinality(Busy \cup At("wait")) + 1 + Cardinality(Lost) <= Cardinality(Conns)
    BY <2>1, <2>3, LiveBound
  <2>6. Cardinality(At("wait")) \in Nat /\ reserve \in Nat
    BY AtFinite DEF Inv, IInv, TypeOK
  <2> QED BY <1>1, <2>1, <2>2, <2>4, <2>5, <2>6, BusyCount
<1> QED BY <1>2, <1>4, <1>5

\* As long as there are no more threads, and connections lost, than connections,
\* GetConnection neither refuses nor blocks, whoever slept before the last of the
\* others ended: a sleeper would be one more than the semaphore's count leaves
\* (sql_connection_pool.cpp:67, :70).  With the defaults of config.cpp, 8 and 8, that
\* is so until run() loses the first connection (threadpool.h:174-176).
THEOREM NobodyWaits == Spec => []EnoughForAll
BY SpecInv, ReserveLosesNoWakeup, EnoughFromInv, PTL
=============================================================================
