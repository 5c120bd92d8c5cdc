----------------------------- MODULE UsersProofs -----------------------------
(***************************************************************************)
(* For any number of workers, names and tokens, with or without a key of   *)
(* the table, over queries that fail and restarts at any moment: what      *)
(* `users` holds is a row of the table unless its INSERT failed, who was   *)
(* told to be registered can log in and keeps the password unless the name *)
(* was raced for or an INSERT or the SELECT failed, and sessions have      *)
(* users.  Redis costs one command per lost connection.                    *)
(***************************************************************************)
EXTENDS Users, SequenceTheorems, WellFoundedInduction, TLAPS

Row(a) == \E i \in DOMAIN table : table[i] = a

\* m_lock.
OneInserts == \A v, w \in Workers : pc[v] = "insert" /\ pc[w] = "insert" => v = w

\* After a query that succeeded, in m_lock: the row is there.
AfterQuery == \A w \in Workers : pc[w] = "insert" /\ res[w] => Row(req[w])

\* A row that `users` lacks is that of the worker in m_lock.
RowsKnown == loaded => \A i \in DOMAIN table : users[table[i].name] = NULL =>
    \E w \in Workers : pc[w] = "insert" /\ res[w] /\ req[w] = table[i]

\* Who was told to be registered has a row, and `users` an entry of the name.
ConfirmedHasRow == \A a \in confirmed : Row(a) /\ (loaded => users[a.name] # NULL)

\* ConfirmedLogsIn and PasswordStays follow from LoginHasRow: the entry is a row's, and
\* there is but one.  LoginHasRow is not inductive alone: a worker enters its password
\* whatever its query said, in a step after it; the lock keeps the two together.
TableInv == /\ A!TypeOK /\ OneInserts /\ AfterQuery /\ RowsKnown
            /\ LoginHasRow /\ ConfirmedHasRow

LEMMA TableType ==
    ASSUME A!TypeOK
    PROVE  /\ DOMAIN table = 1..Len(table) /\ Len(table) \in Nat
           /\ \A i \in DOMAIN table : /\ table[i] \in A!Accts /\ table[i].name \in Names
                                      /\ table[i].passwd \in Passwds /\ table[i].passwd # NULL
                                      /\ table[i] = [name |-> table[i].name,
                                                     passwd |-> table[i].passwd]
<1>1. table \in Seq(A!Accts)
    BY DEF A!TypeOK
<1>2. DOMAIN table = 1..Len(table) /\ Len(table) \in Nat
    BY <1>1
<1>3. \A i \in DOMAIN table : table[i] \in A!Accts
    BY <1>1, <1>2, ElementOfSeq
<1> QED BY <1>2, <1>3, UsersAssumption DEF A!Accts

LEMMA NatMin == ASSUME NEW T, T \subseteq Nat, T # {}
                PROVE  \E x \in T : \A y \in T : x <= y
<1> DEFINE R == OpToRel(<, Nat)
<1>1. IsWellFoundedOn(R, Nat)
    BY NatLessThanWellFounded
<1>2. \A x, y \in Nat : x < y => <<x, y>> \in R
    BY DEF OpToRel
<1> HIDE DEF R
<1>3. PICK x \in T : \A y \in T : ~ (<<y, x>> \in R)
    BY <1>1, WFMin
<1>4. ASSUME NEW y \in T PROVE x <= y
  <2>1. x \in Nat /\ y \in Nat /\ ~(y < x)
      BY <1>2, <1>3
  <2> QED BY <2>1
<1> QED BY <1>4

LEMMA NatMax == ASSUME NEW n \in Nat, NEW T, T \subseteq 1..n, T # {}
                PROVE  \E x \in T : \A y \in T : y <= x
<1> DEFINE U == {n - i : i \in T}
<1>1. \A i \in T : i \in Nat /\ n - i \in Nat
    OBVIOUS
<1>2. U \subseteq Nat /\ U # {}
    BY <1>1
<1>3. PICK u \in U : \A v \in U : u <= v
    BY <1>2, NatMin
<1>4. PICK x \in T : u = n - x
    BY <1>3
<1>5. ASSUME NEW y \in T PROVE y <= x
  <2>1. n - x <= n - y
      BY <1>3, <1>4
  <2>2. x \in Nat /\ y \in Nat
      BY <1>1
  <2> QED BY <2>1, <2>2
<1> QED BY <1>5

\* initmysql_result finds a row of every name that has one.
LEMMA LoadedRow ==
    ASSUME A!TypeOK, NEW n \in Names
    PROVE  /\ (\E i \in DOMAIN table : table[i].name = n) =>
                  \E i \in DOMAIN table : table[i] = [name |-> n, passwd |-> A!Loaded(n)]
           /\ A!Loaded(n) # NULL <=> \E i \in DOMAIN table : table[i].name = n
           /\ A!Loaded(n) \in Passwds \cup {NULL}
<1> DEFINE rows == {j \in DOMAIN table : table[j].name = n}
<1>1. CASE rows = {}
    BY <1>1 DEF A!Loaded
<1>2. CASE rows # {}
  <2>1. \E k \in rows : \A j \in rows : j <= k
      BY <1>2, TableType, NatMax
  <2> DEFINE k == CHOOSE k \in rows : \A j \in rows : j <= k
  <2>2. k \in rows
      BY <2>1
  <2>3. A!Loaded(n) = table[k].passwd
      BY <1>2 DEF A!Loaded
  <2> HIDE DEF k
  <2>4. k \in DOMAIN table /\ table[k].name = n
      BY <2>2
  <2> QED BY <2>3, <2>4, TableType
<1> QED BY <1>1, <1>2

-----------------------------------------------------------------------------
(* The steps that touch accounts. *)

LEMMA GotoMoves ==
    ASSUME A!TypeOK, NEW w \in Workers, NEW p \in {"idle", "lock", "insert"}, A!Goto(w, p)
    PROVE  /\ pc' \in [Workers -> {"idle", "lock", "insert"}] /\ pc'[w] = p
           /\ \A v \in Workers : v # w => pc'[v] = pc[v]
BY DEF A!Goto, A!TypeOK

LEMMA RegisterStep ==
    ASSUME TableInv, NEW w \in Workers, NEW a \in A!Accts, A!Register(w, a)
    PROVE  TableInv'
<1>1. A!TypeOK /\ pc[w] = "idle" /\ UNCHANGED <<table, users, res, confirmed, unbacked, loaded>>
    BY DEF TableInv, A!Register
<1>2. /\ pc' \in [Workers -> {"idle", "lock", "insert"}] /\ pc'[w] # "insert"
      /\ \A v \in Workers : v # w => pc'[v] = pc[v]
    BY <1>1, GotoMoves DEF A!Register
<1>3. req' \in [Workers -> A!Accts] /\ \A v \in Workers : v # w => req'[v] = req[v]
    BY <1>1 DEF A!Register, A!TypeOK
<1>4. requests' \in 0..MaxRequests
    BY <1>1, UsersAssumption DEF A!Register, A!Arrives, A!TypeOK
<1>5. A!TypeOK'
    BY <1>1, <1>2, <1>3, <1>4 DEF A!TypeOK
<1>6. \A v \in Workers : pc'[v] = "insert" => pc[v] = "insert" /\ req'[v] = req[v]
    BY <1>2, <1>3
<1>7. \A v \in Workers : pc[v] = "insert" => pc'[v] = "insert" /\ req'[v] = req[v]
    BY <1>1, <1>2, <1>3
<1>8. OneInserts' /\ LoginHasRow' /\ ConfirmedHasRow'
    BY <1>1, <1>6 DEF TableInv, OneInserts, LoginHasRow, ConfirmedHasRow, Row
<1>9. AfterQuery'
    BY <1>1, <1>6 DEF TableInv, AfterQuery, Row
<1>10. RowsKnown'
    BY <1>1, <1>7 DEF TableInv, RowsKnown
<1> QED BY <1>5, <1>8, <1>9, <1>10 DEF TableInv

LEMMA QueryStep == ASSUME TableInv, NEW w \in Workers, A!Query(w) PROVE TableInv'
<1> DEFINE a == req[w]
<1>1. /\ A!TypeOK /\ pc[w] = "lock" /\ \A v \in Workers : pc[v] # "insert"
      /\ UNCHANGED <<users, req, confirmed, unbacked, loaded, requests>>
    BY DEF TableInv, A!Query, A!LockFree
<1>2. /\ pc' \in [Workers -> {"idle", "lock", "insert"}] /\ pc'[w] = "insert"
      /\ \A v \in Workers : v # w => pc'[v] = pc[v]
    BY <1>1, GotoMoves DEF A!Query
<1>3. \A v \in Workers : pc'[v] = "insert" => v = w
    BY <1>1, <1>2
<1>4. loaded => \A i \in DOMAIN table : users[table[i].name] # NULL
    BY <1>1 DEF TableInv, RowsKnown
<1>5. a \in A!Accts
    BY <1>1 DEF A!TypeOK
<1>6. CASE table' = Append(table, a) /\ res' = [res EXCEPT ![w] = TRUE]
  <2> DEFINE k == Len(table)
  <2>1. table \in Seq(A!Accts) /\ k \in Nat /\ DOMAIN table = 1..k
      BY <1>1, TableType DEF A!TypeOK
  <2>2. /\ table' \in Seq(A!Accts) /\ DOMAIN table' = 1..(k + 1)
        /\ \A i \in 1..k : table'[i] = table[i]
        /\ table'[k + 1] = a
      BY <1>5, <1>6, <2>1, AppendProperties, LenProperties
  <2> HIDE DEF a, k
  <2>3. \A i \in 1..(k + 1) : i = k + 1 \/ i \in 1..k
      BY <2>1
  <2>4. k + 1 \in 1..(k + 1) /\ 1..k \subseteq 1..(k + 1)
      BY <2>1
  <2>5. res'[w] = TRUE /\ res' \in [Workers -> BOOLEAN]
      BY <1>1, <1>6 DEF A!TypeOK
  <2>6. A!TypeOK'
      BY <1>1, <1>2, <2>2, <2>5 DEF A!TypeOK
  <2>7. OneInserts'
      BY <1>1, <1>3 DEF OneInserts
  <2>8. AfterQuery'
      BY <1>1, <1>3, <2>2, <2>4 DEF AfterQuery, Row, a
  <2>9. RowsKnown'
      BY <1>1, <1>2, <1>4, <2>1, <2>2, <2>3, <2>5 DEF RowsKnown, a
  <2>10. LoginHasRow' /\ ConfirmedHasRow'
      BY <1>1, <2>1, <2>2, <2>4 DEF TableInv, LoginHasRow, ConfirmedHasRow, Row
  <2> QED BY <2>6, <2>7, <2>8, <2>9, <2>10 DEF TableInv
<1>7. CASE table' = table /\ res' = [res EXCEPT ![w] = FALSE]
  <2>1. res'[w] = FALSE /\ res' \in [Workers -> BOOLEAN]
      BY <1>1, <1>7 DEF A!TypeOK
  <2>2. A!TypeOK'
      BY <1>1, <1>2, <1>7, <2>1 DEF A!TypeOK
  <2>3. OneInserts' /\ LoginHasRow' /\ ConfirmedHasRow'
      BY <1>1, <1>3, <1>7 DEF TableInv, OneInserts, LoginHasRow, ConfirmedHasRow, Row
  <2>4. AfterQuery'
      BY <1>1, <1>3, <2>1 DEF AfterQuery
  <2>5. RowsKnown'
      BY <1>1, <1>4, <1>7 DEF RowsKnown
  <2> QED BY <2>2, <2>3, <2>4, <2>5 DEF TableInv
<1> QED BY <1>6, <1>7 DEF A!Query

\* users.insert: it leaves every entry, and enters a row unless the query failed.
LEMMA InsertEffect ==
    ASSUME TableInv, NEW w \in Workers, A!Insert(w)
    PROVE  /\ \A n \in Names : users[n] # NULL => users'[n] = users[n]
           /\ users' \in [Names -> Passwds \cup {NULL}]
           /\ unbacked' \in SUBSET Names
           /\ LoginHasRow'
           /\ users'[req[w].name] # NULL
<1> DEFINE a == req[w]
<1>1. /\ A!TypeOK /\ pc[w] = "insert" /\ table' = table
      /\ users' = [users EXCEPT ![a.name] = IF @ = NULL THEN a.passwd ELSE @]
      /\ unbacked' = unbacked \cup IF ~res[w] /\ users[a.name] = NULL
                                   THEN {a.name} ELSE {}
    BY DEF TableInv, A!Insert, A!Record
<1>2. /\ a \in A!Accts /\ a.name \in Names /\ a.passwd \in Passwds /\ a.passwd # NULL
      /\ a = [name |-> a.name, passwd |-> a.passwd]
    BY <1>1, UsersAssumption DEF A!TypeOK, A!Accts
<1>3. res[w] => Row(a)
    BY <1>1 DEF TableInv, AfterQuery
<1> HIDE DEF a
<1>4. /\ users'[a.name] = IF users[a.name] = NULL THEN a.passwd ELSE users[a.name]
      /\ \A n \in Names : n # a.name => users'[n] = users[n]
      /\ users' \in [Names -> Passwds \cup {NULL}]
    BY <1>1, <1>2 DEF A!TypeOK
<1>5. LoginHasRow'
  <2> SUFFICES ASSUME NEW n \in Names \ unbacked', users'[n] # NULL
               PROVE  \E i \in DOMAIN table : table[i] = [name |-> n, passwd |-> users'[n]]
      BY <1>1 DEF LoginHasRow
  <2>1. n \in Names \ unbacked
      BY <1>1
  <2>2. CASE users[n] # NULL
    <3>1. users'[n] = users[n]
        BY <1>4, <2>2
    <3> QED BY <2>1, <2>2, <3>1 DEF TableInv, LoginHasRow
  <2>3. CASE users[n] = NULL
    <3>1. n = a.name /\ users'[n] = a.passwd
        BY <1>4, <2>3
    <3>2. Row(a)
        BY <1>1, <1>3, <2>3, <3>1
    <3> QED BY <1>2, <3>1, <3>2 DEF Row
  <2> QED BY <2>2, <2>3
<1>6. \A n \in Names : users[n] # NULL => users'[n] = users[n]
    BY <1>4
<1>7. users'[a.name] # NULL
    BY <1>2, <1>4
<1>8. unbacked' \in SUBSET Names
    BY <1>1, <1>2 DEF A!TypeOK
<1> QED BY <1>4, <1>5, <1>6, <1>7, <1>8 DEF a

LEMMA InsertStep == ASSUME TableInv, NEW w \in Workers, A!Insert(w) PROVE TableInv'
<1>1. /\ A!TypeOK /\ pc[w] = "insert" /\ UNCHANGED <<table, req, res, loaded, requests>>
      /\ confirmed' = confirmed \cup IF res[w] THEN {req[w]} ELSE {}
    BY DEF TableInv, A!Insert, A!Record
<1>2. /\ pc' \in [Workers -> {"idle", "lock", "insert"}] /\ pc'[w] = "idle"
      /\ \A v \in Workers : v # w => pc'[v] = pc[v]
    BY <1>1, GotoMoves DEF A!Insert, A!Record
<1>3. /\ \A n \in Names : users[n] # NULL => users'[n] = users[n]
      /\ users' \in [Names -> Passwds \cup {NULL}]
      /\ unbacked' \in SUBSET Names
      /\ LoginHasRow'
      /\ users'[req[w].name] # NULL
    BY InsertEffect
<1>4. \A v \in Workers : pc'[v] # "insert"
    BY <1>1, <1>2 DEF TableInv, OneInserts
<1>5. req[w] \in A!Accts /\ confirmed' \in SUBSET A!Accts
    BY <1>1 DEF A!TypeOK
<1>6. A!TypeOK'
    BY <1>1, <1>2, <1>3, <1>5 DEF A!TypeOK
<1>7. OneInserts' /\ AfterQuery'
    BY <1>4 DEF OneInserts, AfterQuery
<1>8. RowsKnown'
  <2> SUFFICES ASSUME loaded, NEW i \in DOMAIN table PROVE users'[table[i].name] # NULL
      BY <1>1 DEF RowsKnown
  <2>1. table[i].name \in Names
      BY <1>1, TableType
  <2>2. CASE users[table[i].name] # NULL
      BY <1>3, <2>1, <2>2
  <2>3. CASE users[table[i].name] = NULL
    <3>1. PICK v \in Workers : pc[v] = "insert" /\ req[v] = table[i]
        BY <2>3 DEF TableInv, RowsKnown
    <3>2. v = w
        BY <1>1, <3>1 DEF TableInv, OneInserts
    <3> QED BY <1>3, <3>1, <3>2
  <2> QED BY <2>2, <2>3
<1>9. ConfirmedHasRow'
  <2> SUFFICES ASSUME NEW a \in confirmed' PROVE Row(a) /\ (loaded => users'[a.name] # NULL)
      BY <1>1 DEF ConfirmedHasRow, Row
  <2>1. CASE a \in confirmed
    <3>1. Row(a) /\ (loaded => users[a.name] # NULL) /\ a.name \in Names
        BY <1>1, <2>1 DEF TableInv, ConfirmedHasRow, A!TypeOK, A!Accts
    <3> QED BY <1>3, <3>1
  <2>2. CASE a \notin confirmed
    <3>1. res[w] /\ a = req[w]
        BY <1>1, <2>2
    <3> QED BY <1>1, <1>3, <3>1 DEF TableInv, AfterQuery
  <2> QED BY <2>1, <2>2
<1> QED BY <1>3, <1>6, <1>7, <1>8, <1>9 DEF TableInv

\* A restart finds in the table what was in memory, but for what raced or failed.
LEMMA RestartEffect ==
    ASSUME TableInv, A!Restart
    PROVE  /\ \A n \in Names :
                 users[n] # NULL /\ n \notin unbacked /\ A!NoRace(n) /\ loaded' => users'[n] = users[n]
           /\ \A n \in Names : users'[n] # NULL => users'[n] = A!Loaded(n)
           /\ \A n \in Names : loaded' => users'[n] = A!Loaded(n)
<1>1. A!TypeOK /\ \A n \in Names : users'[n] = IF loaded' THEN A!Loaded(n) ELSE NULL
    BY DEF TableInv, A!Restart
<1>2. ASSUME NEW n \in Names, users[n] # NULL, n \notin unbacked, A!NoRace(n)
      PROVE  A!Loaded(n) = users[n]
  <2>1. PICK i \in DOMAIN table : table[i] = [name |-> n, passwd |-> users[n]]
      BY <1>2 DEF TableInv, LoginHasRow
  <2>2. table[i].name = n /\ table[i].passwd = users[n]
      BY <2>1
  <2>3. PICK j \in DOMAIN table : table[j] = [name |-> n, passwd |-> A!Loaded(n)]
      BY <1>1, <2>2, LoadedRow
  <2>4. table[j].name = n /\ table[j].passwd = A!Loaded(n)
      BY <2>3
  <2>5. i = j
      BY <1>2, <2>2, <2>4 DEF A!NoRace
  <2> QED BY <2>2, <2>4, <2>5
<1> QED BY <1>1, <1>2

LEMMA RestartStep == ASSUME TableInv, A!Restart PROVE TableInv'
<1>1. /\ A!TypeOK /\ UNCHANGED <<table, req, confirmed, requests>>
      /\ loaded' \in BOOLEAN /\ unbacked' = {}
      /\ pc' = [w \in Workers |-> "idle"] /\ res' = [w \in Workers |-> FALSE]
      /\ users' = [n \in Names |-> IF loaded' THEN A!Loaded(n) ELSE NULL]
    BY DEF TableInv, A!Restart
<1>2. /\ \A n \in Names : users'[n] # NULL => users'[n] = A!Loaded(n)
      /\ \A n \in Names : loaded' => users'[n] = A!Loaded(n)
    BY RestartEffect
<1>3. users' \in [Names -> Passwds \cup {NULL}]
    BY <1>1, LoadedRow
<1>4. A!TypeOK'
  <2>1. res' \in [Workers -> BOOLEAN]
      BY <1>1
  <2> QED BY <1>1, <1>3, <2>1 DEF A!TypeOK
<1>5. LoginHasRow'
  <2> SUFFICES ASSUME NEW n \in Names, users'[n] # NULL
               PROVE  \E i \in DOMAIN table : table[i] = [name |-> n, passwd |-> users'[n]]
      BY <1>1 DEF LoginHasRow
  <2>1. users'[n] = A!Loaded(n) /\ A!Loaded(n) # NULL
      BY <1>2
  <2> QED BY <1>1, <2>1, LoadedRow
<1>6. RowsKnown'
  <2> SUFFICES ASSUME loaded', NEW i \in DOMAIN table PROVE users'[table[i].name] # NULL
      BY <1>1 DEF RowsKnown
  <2>1. table[i].name \in Names
      BY <1>1, TableType
  <2>2. A!Loaded(table[i].name) # NULL
      BY <1>1, <2>1, LoadedRow
  <2> QED BY <1>2, <2>1, <2>2
<1>7. ConfirmedHasRow'
  <2> SUFFICES ASSUME NEW a \in confirmed PROVE Row(a) /\ (loaded' => users'[a.name] # NULL)
      BY <1>1 DEF ConfirmedHasRow, Row
  <2>1. Row(a) /\ a.name \in Names
      BY <1>1 DEF TableInv, ConfirmedHasRow, A!TypeOK, A!Accts
  <2>2. A!Loaded(a.name) # NULL
      BY <1>1, <2>1, LoadedRow DEF Row
  <2> QED BY <1>2, <2>1, <2>2
<1>8. OneInserts' /\ AfterQuery'
    BY <1>1 DEF OneInserts, AfterQuery
<1> QED BY <1>4, <1>5, <1>6, <1>7, <1>8 DEF TableInv

-----------------------------------------------------------------------------
(* The table and the copy of it in memory. *)

\* What a step of Users does to accounts.
LEMMA AccountsStep ==
    ASSUME [Next]_vars
    PROVE  (\E w \in Workers : A!Work(w)) \/ A!Restart \/ UNCHANGED accounts
BY DEF Next, vars, accounts, Register, UseSession, Redis, Restart, Login

LEMMA TableInit == Init => TableInv
<1> SUFFICES ASSUME A!Init PROVE TableInv
    BY DEF Init
<1>1. table = <<>> /\ DOMAIN table = {}
    BY DEF A!Init
<1>2. PICK a \in A!Accts : req = [w \in Workers |-> a]
    BY DEF A!Init
<1>3. A!TypeOK
  <2>1. res \in [Workers -> BOOLEAN]
      BY DEF A!Init
  <2>2. requests \in 0..MaxRequests
      BY UsersAssumption DEF A!Init
  <2>3. table \in Seq(A!Accts)
      BY <1>1
  <2> QED BY <1>2, <2>1, <2>2, <2>3 DEF A!Init, A!TypeOK
<1>4. OneInserts /\ AfterQuery /\ RowsKnown
    BY <1>1 DEF A!Init, OneInserts, AfterQuery, RowsKnown
<1>5. LoginHasRow /\ ConfirmedHasRow
    BY DEF A!Init, LoginHasRow, ConfirmedHasRow
<1> QED BY <1>3, <1>4, <1>5 DEF TableInv

LEMMA TableStep == ASSUME TableInv, [Next]_vars PROVE TableInv'
<1>1. ASSUME NEW w \in Workers, A!Work(w) PROVE TableInv'
    BY <1>1, RegisterStep, QueryStep, InsertStep DEF A!Work
<1>2. CASE A!Restart
    BY <1>2, RestartStep
<1>3. CASE UNCHANGED accounts
  <2>1. UNCHANGED <<table, users, pc, req, res, confirmed, unbacked, loaded, requests>>
      BY <1>3 DEF accounts
  <2>2. A!TypeOK'
      BY <2>1 DEF TableInv, A!TypeOK
  <2>3. OneInserts' /\ AfterQuery' /\ RowsKnown'
      BY <2>1 DEF TableInv, OneInserts, AfterQuery, RowsKnown, Row
  <2>4. LoginHasRow' /\ ConfirmedHasRow'
      BY <2>1 DEF TableInv, LoginHasRow, ConfirmedHasRow, Row
  <2> QED BY <2>2, <2>3, <2>4 DEF TableInv
<1> QED BY <1>1, <1>2, <1>3, AccountsStep

LEMMA SpecTable == Spec => []TableInv
<1>1. ASSUME TableInv, [Next]_vars PROVE TableInv'
    BY <1>1, TableStep
<1> QED BY <1>1, TableInit, PTL DEF Spec

\* No step but a restart takes a password back or changes it.
LEMMA EntriesStay ==
    ASSUME TableInv, [Next]_vars, ~A!Restart
    PROVE  /\ \A n \in Names : users[n] # NULL => users'[n] = users[n]
           /\ loaded' = loaded
<1>1. ASSUME NEW w \in Workers, A!Work(w)
      PROVE  /\ \A n \in Names : users[n] # NULL => users'[n] = users[n]
             /\ loaded' = loaded
  <2>1. A!Insert(w) \/ UNCHANGED users
      BY <1>1 DEF A!Work, A!Register, A!Query
  <2>2. loaded' = loaded
      BY <1>1 DEF A!Work, A!Register, A!Query, A!Insert, A!Record
  <2> QED BY <2>1, <2>2, InsertEffect
<1>2. CASE UNCHANGED accounts
    BY <1>2 DEF accounts
<1> QED BY <1>1, <1>2, AccountsStep

LEMMA OnlyRowLogsIn == TableInv => ConfirmedLogsIn
<1> SUFFICES ASSUME TableInv, NEW a \in confirmed,
                    loaded, A!NoRace(a.name), a.name \notin unbacked
             PROVE  users[a.name] = a.passwd
    BY DEF ConfirmedLogsIn, A!LogsIn
<1>1. a.name \in Names /\ a = [name |-> a.name, passwd |-> a.passwd]
    BY DEF TableInv, A!TypeOK, A!Accts
<1>2. users[a.name] # NULL /\ Row(a)
    BY DEF TableInv, ConfirmedHasRow
<1>3. PICK i \in DOMAIN table : table[i] = a
    BY <1>2 DEF Row
<1>4. PICK j \in DOMAIN table : table[j] = [name |-> a.name, passwd |-> users[a.name]]
    BY <1>1, <1>2 DEF TableInv, LoginHasRow
<1>5. table[i].name = a.name /\ table[j].name = a.name /\ table[j].passwd = users[a.name]
    BY <1>3, <1>4
<1>6. i = j
    BY <1>5 DEF A!NoRace
<1> QED BY <1>3, <1>5, <1>6

\* What `users` holds is a row of the table unless its INSERT failed, after any restart
\* (http_conn.cpp:534-541, :107-112), for any number of workers and names, with or
\* without a key.
THEOREM LoginsAreInTheTable == Spec => []LoginHasRow
BY SpecTable, PTL DEF TableInv

\* Who was told to be registered can log in, now and after any restart, unless the name
\* was raced for or a query on it failed (http_conn.cpp:535-541, :107-112).
THEOREM ConfirmedCanLogIn == Spec => []ConfirmedLogsIn
BY SpecTable, OnlyRowLogsIn, PTL

\* No registration changes the password of a name that is taken, and a restart only
\* that of a name raced for or with a failed query (http_conn.cpp:536, :107-112).
THEOREM PasswordsStay == Spec => PasswordStays
<1>1. ASSUME TableInv, [Next]_vars
      PROVE  [\A n \in Names : users[n] # NULL /\ users'[n] # users[n] =>
                 ~A!NoRace(n) \/ n \in unbacked \/ ~loaded']_users
    BY <1>1, EntriesStay, RestartEffect
<1> QED BY <1>1, SpecTable, PTL DEF Spec, PasswordStays

-----------------------------------------------------------------------------
(* The sessions. *)

\* SessionHasUser is not inductive alone: a command whose reply was lost may leave a
\* key in Redis nobody knows of.  It is that of a cookie, a cookie is given to a user
\* only, who has a row or is a ghost, and the row brings the user back.
Backed == {n \in Names : /\ \E i \in DOMAIN table : table[i].name = n
                         /\ loaded => users[n] # NULL}

CookieInv == /\ sessions \subseteq cookie /\ cookie \subseteq Tokens
             /\ who \in [Tokens -> Names \cup {NULL}]
             /\ \A t \in cookie : who[t] \in Names /\ (t \in ghosts \/ who[t] \in Backed)

\* What a step does to the keys in Redis: only a login gives out a token.
LEMMA KeysStep ==
    ASSUME [Next]_vars
    PROVE  \/ \E a \in A!Accts, t \in Tokens :
                 /\ A!LogsIn(a) /\ who' = [who EXCEPT ![t] = a.name]
                 /\ ghosts' = ghosts \cup IF a.name \in unbacked THEN {t} ELSE {}
                 /\ t \notin cookie /\ cookie' = cookie \cup {t}
                 /\ sessions' \subseteq sessions \cup {t} /\ UNCHANGED accounts
           \/ UNCHANGED <<cookie, who, ghosts>> /\ sessions' \subseteq sessions
<1>1. CASE Register \/ UNCHANGED vars
    BY <1>1 DEF Register, vars, redisSide, logins
<1>2. CASE Redis
    BY <1>2 DEF Redis, S!Redis, S!LinkEnds, S!RedisStops, S!RedisStarts, S!Expires, logins
<1>3. CASE Restart
    BY <1>3 DEF Restart, S!Restart, logins
<1>4. CASE UseSession
  <2>1. PICK t \in Tokens : S!Visit(t) \/ S!Logout(t)
      BY <1>4 DEF UseSession, S!Use
  <2>2. cookie' = cookie /\ who' = who /\ ghosts' = ghosts
      BY <1>4, <2>1 DEF UseSession, S!Visit, S!Logout, logins
  <2>3. sessions' \subseteq sessions
      BY <2>1 DEF S!Visit, S!Logout, S!Command
  <2> QED BY <2>2, <2>3
<1>5. ASSUME NEW a \in A!Accts, NEW t \in Tokens, Login(a, t)
      PROVE  /\ A!LogsIn(a) /\ who' = [who EXCEPT ![t] = a.name]
             /\ ghosts' = ghosts \cup IF a.name \in unbacked THEN {t} ELSE {}
             /\ t \notin cookie /\ cookie' = cookie \cup {t}
             /\ sessions' \subseteq sessions \cup {t} /\ UNCHANGED accounts
  <2>1. sessions' \subseteq sessions \cup {t}
      BY <1>5 DEF Login, S!Login, S!Command
  <2> QED BY <1>5, <2>1 DEF Login, S!Login
<1> QED BY <1>1, <1>2, <1>3, <1>4, <1>5 DEF Next

LEMMA BackedStays ==
    ASSUME TableInv, [Next]_vars, NEW n \in Backed
    PROVE  n \in Backed'
<1>1. A!TypeOK /\ n \in Names
    BY DEF TableInv, Backed
<1>2. PICK i \in DOMAIN table : table[i].name = n
    BY DEF Backed
<1>3. i \in DOMAIN table' /\ table'[i] = table[i]
  <2>1. \/ \E w \in Workers : table' = Append(table, req[w])
        \/ table' = table
      BY AccountsStep
      DEF A!Work, A!Register, A!Query, A!Insert, A!Record, A!Restart, accounts
  <2>2. ASSUME NEW w \in Workers, table' = Append(table, req[w])
        PROVE  i \in DOMAIN table' /\ table'[i] = table[i]
    <3>1. table \in Seq(A!Accts) /\ req[w] \in A!Accts
        BY <1>1 DEF A!TypeOK
    <3>2. /\ DOMAIN table' = 1..(Len(table) + 1)
          /\ \A j \in 1..Len(table) : table'[j] = table[j]
        BY <2>2, <3>1, AppendProperties, LenProperties
    <3>3. i \in 1..Len(table) /\ Len(table) \in Nat
        BY <1>1, TableType
    <3> QED BY <3>2, <3>3
  <2> QED BY <2>1, <2>2
<1>4. loaded' => users'[n] # NULL
  <2>1. CASE A!Restart
    <3>1. A!Loaded(n) # NULL
        BY <1>1, <1>2, LoadedRow
    <3>2. loaded' => users'[n] = A!Loaded(n)
        BY <1>1, <2>1, RestartEffect
    <3> QED BY <3>1, <3>2
  <2>2. CASE ~A!Restart
      BY <1>1, <2>2, EntriesStay DEF Backed
  <2> QED BY <2>1, <2>2
<1> QED BY <1>2, <1>3, <1>1, <1>4 DEF Backed

LEMMA CookieStep == ASSUME TableInv, CookieInv, [Next]_vars PROVE CookieInv'
<1>1. Backed \subseteq Backed'
    BY BackedStays
<1>2. ASSUME NEW a \in A!Accts, NEW t \in Tokens,
             A!LogsIn(a), who' = [who EXCEPT ![t] = a.name],
             ghosts' = ghosts \cup IF a.name \in unbacked THEN {t} ELSE {},
             cookie' = cookie \cup {t}, sessions' \subseteq sessions \cup {t}, t \notin cookie
      PROVE  CookieInv'
  <2>1. a.name \in Names /\ users[a.name] # NULL
      BY <1>2, UsersAssumption DEF A!LogsIn, A!Accts
  <2>2. /\ who' \in [Tokens -> Names \cup {NULL}] /\ who'[t] = a.name
        /\ \A u \in Tokens : u # t => who'[u] = who[u]
      BY <1>2, <2>1 DEF CookieInv
  <2>3. a.name \notin unbacked => a.name \in Backed
    <3> SUFFICES ASSUME a.name \notin unbacked PROVE a.name \in Backed
        OBVIOUS
    <3>1. PICK i \in DOMAIN table : table[i] = [name |-> a.name, passwd |-> users[a.name]]
        BY <2>1 DEF TableInv, LoginHasRow
    <3>2. table[i].name = a.name
        BY <3>1
    <3> QED BY <2>1, <3>2 DEF Backed
  <2>4. ASSUME NEW u \in cookie'
        PROVE  who'[u] \in Names /\ (u \in ghosts' \/ who'[u] \in Backed')
    <3>1. CASE u = t
      <4>1. t \in ghosts' \/ a.name \in Backed'
          BY <1>1, <1>2, <2>1, <2>3
      <4> QED BY <2>1, <2>2, <3>1, <4>1
    <3>2. CASE u # t
      <4>1. u \in cookie /\ u \in Tokens /\ who'[u] = who[u]
          BY <1>2, <2>2, <2>4, <3>2 DEF CookieInv
      <4>2. who[u] \in Names /\ (u \in ghosts \/ who[u] \in Backed')
          BY <1>1, <4>1 DEF CookieInv
      <4> QED BY <1>2, <4>1, <4>2
    <3> QED BY <3>1, <3>2
  <2>5. sessions' \subseteq cookie' /\ cookie' \subseteq Tokens
      BY <1>2 DEF CookieInv
  <2> QED BY <2>2, <2>4, <2>5 DEF CookieInv
<1>3. CASE UNCHANGED <<cookie, who, ghosts>> /\ sessions' \subseteq sessions
  <2>1. ASSUME NEW u \in cookie PROVE who[u] \in Names /\ (u \in ghosts \/ who[u] \in Backed')
      BY <1>1, <2>1 DEF CookieInv
  <2> QED BY <1>3, <2>1 DEF CookieInv
<1> QED BY <1>2, <1>3, KeysStep

\* Whose session is in Redis is a user of the server, though it was restarted since the
\* login (http_conn.cpp:336-344), unless the login was to a name whose INSERT had failed
\* or the SELECT of the start did, for any number of tokens and users.
THEOREM SessionsHaveUsers == Spec => []SessionHasUser
<1>1. Init => CookieInv
    BY DEF Init, S!Init, CookieInv
<1>2. ASSUME TableInv, CookieInv, [Next]_vars PROVE CookieInv'
    BY <1>2, CookieStep
<1>3. CookieInv => SessionHasUser
    BY DEF CookieInv, SessionHasUser, Backed
<1> QED BY <1>1, <1>2, <1>3, SpecTable, PTL DEF Spec

-----------------------------------------------------------------------------
(* The connection to Redis. *)

\* A context whose connection is gone: the next command fails.
Broken == m_ctx = "ok" /\ ~link

\* Every failure has a break of its own, and a break nobody has noticed yet has none:
\* this is what the strict bound adds to OneFailurePerBreak.
BreakInv == /\ failures \in Nat /\ breaks \in Nat /\ failures <= breaks
            /\ Broken => failures < breaks

LEMMA ReconnectMends == S!reconnect => ~Broken'
BY DEF S!reconnect, Broken

\* What a command does to the connection and the counts.
LEMMA CommandCosts ==
    ASSUME NEW effect, S!Command(effect), failures \in Nat, breaks \in Nat
    PROVE  \/ ~Broken' /\ failures' = failures /\ breaks' \in {breaks, breaks + 1}
           \/ ~Broken' /\ Broken /\ failures' = failures + 1 /\ breaks' = breaks
           \/ ~Broken' /\ failures' = failures + 1 /\ breaks' = breaks + 1
<1>1. CASE S!NoContext
  <2>1. ~Broken' /\ failures' = failures + 0 /\ breaks' = breaks
      BY <1>1, ReconnectMends DEF S!NoContext, S!Failed
  <2> QED BY <2>1
<1>2. CASE S!ReplyLost
  <2>1. ~Broken' /\ Broken /\ breaks' = breaks
      BY <1>2, ReconnectMends DEF S!ReplyLost, Broken
  <2>2. failures' = failures + 1 \/ failures' = failures + 0
      BY <1>2 DEF S!ReplyLost, S!Failed
  <2> QED BY <2>1, <2>2
<1>3. CASE S!ReplyLate
  <2>1. ~Broken' /\ breaks' = breaks + 1
      BY <1>3, ReconnectMends DEF S!ReplyLate
  <2>2. failures' = failures + 1 \/ failures' = failures + 0
      BY <1>3 DEF S!ReplyLate, S!Failed
  <2> QED BY <2>1, <2>2
<1>4. CASE S!Replied
  <2>1. failures' = failures /\ breaks' = breaks
      BY <1>4 DEF S!Replied
  <2>2. ~Broken'
      BY <1>4, ReconnectMends DEF S!Replied, Broken
  <2> QED BY <2>1, <2>2
<1> QED BY <1>1, <1>2, <1>3, <1>4 DEF S!Command

LEMMA BreakStep == ASSUME BreakInv, [Next]_vars PROVE BreakInv'
<1>1. failures \in Nat /\ breaks \in Nat
    BY DEF BreakInv
<1>2. ASSUME NEW effect, S!Command(effect) PROVE BreakInv'
  <2> DEFINE b == Broken
             c == Broken'
  <2>1. \/ ~c /\ failures' = failures /\ breaks' \in {breaks, breaks + 1}
        \/ ~c /\ b /\ failures' = failures + 1 /\ breaks' = breaks
        \/ ~c /\ failures' = failures + 1 /\ breaks' = breaks + 1
      BY <1>1, <1>2, CommandCosts
  <2>2. b => failures < breaks
      BY DEF BreakInv
  <2> HIDE DEF b, c
  <2>3. ~c /\ failures' \in Nat /\ breaks' \in Nat /\ failures' <= breaks'
      BY <1>1, <2>1, <2>2 DEF BreakInv
  <2> QED BY <2>3 DEF BreakInv, c
<1>3. CASE S!Lost /\ failures' = failures
  <2>1. breaks' = breaks + 1
      BY <1>3 DEF S!Lost
  <2>2. failures' \in Nat /\ breaks' \in Nat /\ failures' <= breaks' /\ failures' < breaks'
      BY <1>1, <1>3, <2>1 DEF BreakInv
  <2> QED BY <2>2 DEF BreakInv
<1>4. CASE S!reconnect /\ UNCHANGED <<breaks, failures>>
    BY <1>4, ReconnectMends DEF BreakInv
<1>5. CASE UNCHANGED <<link, m_ctx, breaks, failures>>
    BY <1>5 DEF BreakInv, Broken
<1>6. CASE Register \/ UNCHANGED vars
    BY <1>5, <1>6 DEF Register, vars, redisSide
<1>7. CASE UseSession
  <2>1. \E effect : S!Command(effect)
      BY <1>7 DEF UseSession, S!Use, S!Visit, S!Logout
  <2> QED BY <1>2, <2>1
<1>8. CASE Redis
    BY <1>3, <1>5, <1>8 DEF Redis, S!Redis, S!LinkEnds, S!RedisStops, S!RedisStarts, S!Expires
<1>9. CASE Restart
    BY <1>4, <1>9 DEF Restart, S!Restart
<1>10. ASSUME NEW a \in A!Accts, NEW t \in Tokens, Login(a, t) PROVE BreakInv'
  <2>1. \E effect : S!Command(effect)
      BY <1>10 DEF Login, S!Login
  <2> QED BY <1>2, <2>1
<1> QED BY <1>6, <1>7, <1>8, <1>9, <1>10 DEF Next

\* A lost connection costs one command at most, however often it is lost and wherever:
\* the call that notices makes a new one (redis_manager.cpp:72, :79-84, :102-107).
THEOREM BreaksCostOneCommand == Spec => []OneFailurePerBreak
<1>1. Init => BreakInv
  <2> SUFFICES ASSUME Init PROVE BreakInv
      OBVIOUS
  <2>1. failures = 0 /\ breaks = 0
      BY DEF Init, S!Init
  <2>2. ~Broken
      BY DEF Init, S!Init, Broken
  <2>3. failures \in Nat /\ breaks \in Nat /\ failures <= breaks
      BY <2>1
  <2> QED BY <2>2, <2>3 DEF BreakInv
<1>2. ASSUME BreakInv, [Next]_vars PROVE BreakInv'
    BY <1>2, BreakStep
<1>3. BreakInv => OneFailurePerBreak
    BY DEF BreakInv, OneFailurePerBreak
<1> QED BY <1>1, <1>2, <1>3, PTL DEF Spec
=============================================================================
