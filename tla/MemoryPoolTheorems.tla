------------------------- MODULE MemoryPoolTheorems -------------------------
(***************************************************************************)
(* What allocate and deallocate of MemoryPool return and preserve.         *)
(***************************************************************************)
EXTENDS MemoryPool, TLAPS, SequenceTheorems

\* deallocate followed by allocate gives the same object and the same pool back:
\* what the Reactor branch of dealwithread relies on (webserver.cpp:308, :327).
THEOREM AllocateAfterDeallocate ==
    ASSUME NEW pool \in Pools, NEW obj \in Nat \ {0}
    PROVE  /\ Allocated(Deallocate(pool, obj)) = obj
           /\ Allocate(Deallocate(pool, obj)) = pool
<1> DEFINE p == Deallocate(pool, obj)
<1>1. p.free = <<obj>> \o pool.free /\ p.blocks = pool.blocks
    BY DEF Deallocate, Pools
<1>2. p.free \in Seq(Nat \ {0}) /\ p.free # <<>>
    BY <1>1 DEF Pools
<1>3. Head(p.free) = obj /\ Tail(p.free) = pool.free
    BY <1>1 DEF Pools
<1>4. Allocated(p) = obj
    BY <1>2, <1>3 DEF Allocated
<1>5. Allocate(p) = [free |-> pool.free, blocks |-> pool.blocks]
    BY <1>1, <1>2, <1>3 DEF Allocate
<1>6. [free |-> pool.free, blocks |-> pool.blocks] = pool
    BY DEF Pools
<1> QED BY <1>4, <1>5, <1>6

\* allocate returns an object that is not in use and keeps the pool sound
\* (memory_pool.h:25-70).
THEOREM AllocateSound ==
    ASSUME NEW pool \in Pools, NEW used, PoolSoundFor(pool, used)
    PROVE  /\ Allocated(pool) \in Nat \ {0}
           /\ Allocated(pool) \notin used
           /\ Allocate(pool) \in Pools
           /\ PoolSoundFor(Allocate(pool), used \cup {Allocated(pool)})
<1> DEFINE obj == Allocated(pool)
           new == Allocate(pool)
<1> USE BlockAssumption
<1>1. CASE pool.free # <<>>
  <2> DEFINE f == pool.free
  <2>1. f \in Seq(Nat \ {0}) /\ f # <<>>
      BY <1>1 DEF Pools
  <2>2. /\ obj = f[1] /\ 1 \in DOMAIN f
        /\ new = [free |-> Tail(f), blocks |-> pool.blocks]
      BY <1>1, <2>1 DEF Allocated, Allocate
  <2>3. /\ Tail(f) \in Seq(Nat \ {0})
        /\ Len(Tail(f)) = Len(f) - 1
        /\ \A i \in 1..Len(Tail(f)) : Tail(f)[i] = f[i + 1]
      BY <2>1
  <2>4. new \in Pools /\ new.free = Tail(f) /\ new.blocks = pool.blocks
      BY <2>2, <2>3 DEF Pools
  <2>5. DOMAIN f = 1..Len(f) /\ DOMAIN Tail(f) = 1..(Len(f) - 1) /\ Len(f) \in Nat /\ Len(f) >= 1
      BY <2>1, <2>3
  <2>6. FreeObjects(new) = FreeObjects(pool) \ {obj}
    <3>1. ASSUME NEW x \in FreeObjects(new) PROVE x \in FreeObjects(pool) \ {obj}
      <4>1. PICK i \in DOMAIN Tail(f) : x = Tail(f)[i]
          BY <2>4 DEF FreeObjects
      <4>2. x = f[i + 1] /\ i + 1 \in DOMAIN f /\ i + 1 # 1
          BY <4>1, <2>3, <2>5
      <4> QED BY <4>2, <2>2 DEF FreeObjects, PoolSoundFor
    <3>2. ASSUME NEW x \in FreeObjects(pool), x # obj PROVE x \in FreeObjects(new)
      <4>1. PICK i \in DOMAIN f : x = f[i]
          BY DEF FreeObjects
      <4>2. i # 1 /\ i - 1 \in DOMAIN Tail(f)
          BY <4>1, <3>2, <2>2, <2>5
      <4>3. Tail(f)[i - 1] = x
          BY <4>1, <4>2, <2>3, <2>5
      <4> QED BY <4>2, <4>3, <2>4 DEF FreeObjects
    <3> QED BY <3>1, <3>2
  <2>7. \A i, j \in DOMAIN new.free : new.free[i] = new.free[j] => i = j
    <3>1. ASSUME NEW i \in DOMAIN new.free, NEW j \in DOMAIN new.free,
                 new.free[i] = new.free[j]
          PROVE  i = j
      <4>1. i \in 1..(Len(f) - 1) /\ j \in 1..(Len(f) - 1)
          BY <2>4, <2>5
      <4>2. /\ i + 1 \in DOMAIN f /\ j + 1 \in DOMAIN f
            /\ f[i + 1] = f[j + 1]
          BY <4>1, <3>1, <2>3, <2>4, <2>5
      <4>3. i + 1 = j + 1
          BY <4>2 DEF PoolSoundFor
      <4> QED BY <4>1, <4>3
    <3> QED BY <3>1
  <2>8. obj \in FreeObjects(pool) /\ obj \in Nat \ {0}
      BY <2>1, <2>2 DEF FreeObjects
  <2>9. Objects(new) = Objects(pool)
      BY <2>4 DEF Objects
  <2> QED BY <2>4, <2>6, <2>7, <2>8, <2>9 DEF PoolSoundFor
<1>2. CASE pool.free = <<>>
  <2> DEFINE k == pool.blocks * BlockSize
  <2>0. pool.blocks \in Nat
      BY DEF Pools
  <2>1. k \in Nat /\ (pool.blocks + 1) * BlockSize = k + BlockSize
      BY <2>0
  <2> HIDE DEF k
  <2>2. /\ obj = k + 1
        /\ new = [free |-> [i \in 1..(BlockSize - 1) |-> k + 1 + i], blocks |-> pool.blocks + 1]
      BY <1>2 DEF Allocated, Allocate, FirstOfNextBlock, k
  <2>3. /\ new.free = [i \in 1..(BlockSize - 1) |-> k + 1 + i]
        /\ new.blocks = pool.blocks + 1
        /\ DOMAIN new.free = 1..(BlockSize - 1)
      BY <2>2
  <2>4. new \in Pools
    <3>1. new.free \in [1..(BlockSize - 1) -> Nat \ {0}]
        BY <2>1, <2>3
    <3>2. new.free \in Seq(Nat \ {0})
        BY <3>1
    <3> QED BY <3>2, <2>2, <2>3, <2>0 DEF Pools
  <2>5. FreeObjects(pool) = {} /\ used = 1..k
    <3>1. DOMAIN pool.free = {}
        BY <1>2
    <3>2. FreeObjects(pool) = {}
        BY <3>1 DEF FreeObjects
    <3> QED BY <3>2 DEF PoolSoundFor, Objects, k
  <2>6. Objects(new) = 1..(k + BlockSize)
      BY <2>1, <2>3 DEF Objects
  <2>7. FreeObjects(new) = (k + 2)..(k + BlockSize)
    <3>1. ASSUME NEW x \in FreeObjects(new) PROVE x \in (k + 2)..(k + BlockSize)
      <4>1. PICK i \in 1..(BlockSize - 1) : x = k + 1 + i
          BY <2>3 DEF FreeObjects
      <4> QED BY <4>1, <2>1
    <3>2. ASSUME NEW x \in (k + 2)..(k + BlockSize) PROVE x \in FreeObjects(new)
      <4>1. x - k - 1 \in 1..(BlockSize - 1) /\ k + 1 + (x - k - 1) = x
          BY <2>1
      <4> QED BY <4>1, <2>3 DEF FreeObjects
    <3> QED BY <3>1, <3>2
  <2>8. \A i, j \in DOMAIN new.free : new.free[i] = new.free[j] => i = j
      BY <2>1, <2>3
  <2>9. used \cup {obj} = 1..(k + 1)
      BY <2>1, <2>2, <2>5
  <2>10. obj \in Nat \ {0} /\ obj \notin used
      BY <2>1, <2>2, <2>5
  <2>11. FreeObjects(new) \cap (1..(k + 1)) = {}
      BY <2>1, <2>7
  <2>12. FreeObjects(new) \cup (1..(k + 1)) = 1..(k + BlockSize)
      BY <2>1, <2>7
  <2> QED BY <2>4, <2>6, <2>8, <2>9, <2>10, <2>11, <2>12 DEF PoolSoundFor
<1> QED BY <1>1, <1>2

\* Freeing objects in use, in any order, keeps the pool sound
\* (memory_pool.h:73-79).
THEOREM DeallocateAllSound ==
    ASSUME NEW pool \in Pools, NEW used, PoolSoundFor(pool, used),
           NEW S \in SUBSET used, Cardinality(S) \in Nat, NEW order \in Orders(S)
    PROVE  /\ DeallocateAll(pool, order) \in Pools
           /\ DeallocateAll(pool, order).blocks = pool.blocks
           /\ PoolSoundFor(DeallocateAll(pool, order), used \ S)
<1> DEFINE f == pool.free
           new == DeallocateAll(pool, order)
           n == Cardinality(S)
<1>1. f \in Seq(Nat \ {0}) /\ Len(f) \in Nat /\ DOMAIN f = 1..Len(f)
    BY DEF Pools
<1>2. used \subseteq Nat \ {0}
    BY BlockAssumption DEF PoolSoundFor, Objects, Pools
<1>3. /\ order \in [1..n -> S] /\ n \in Nat
      /\ \A i, j \in 1..n : order[i] = order[j] => i = j
      /\ \A obj \in S : \E i \in 1..n : order[i] = obj
    BY DEF Orders
<1>4. order \in Seq(Nat \ {0}) /\ Len(order) = n
  <2>1. order \in [1..n -> Nat \ {0}]
      BY <1>2, <1>3
  <2> QED BY <2>1, <1>3
<1>5. /\ new.free = order \o f /\ new.blocks = pool.blocks
      /\ order \o f \in Seq(Nat \ {0})
      /\ new \in Pools
  <2>1. order \o f \in Seq(Nat \ {0})
      BY <1>1, <1>4
  <2>2. new = [free |-> order \o f, blocks |-> pool.blocks]
      BY DEF DeallocateAll, Pools
  <2> QED BY <2>1, <2>2 DEF Pools
<1>6. /\ DOMAIN new.free = 1..(n + Len(f))
      /\ \A i \in 1..(n + Len(f)) : new.free[i] = IF i <= n THEN order[i] ELSE f[i - n]
    BY <1>1, <1>3, <1>4, <1>5
<1>7. FreeObjects(pool) \cap S = {}
    BY DEF PoolSoundFor
<1>8. FreeObjects(new) = FreeObjects(pool) \cup S
  <2>1. ASSUME NEW x \in FreeObjects(new) PROVE x \in FreeObjects(pool) \cup S
    <3>1. PICK i \in 1..(n + Len(f)) : x = new.free[i]
        BY <1>6 DEF FreeObjects
    <3>2. CASE i <= n
        BY <3>1, <3>2, <1>3, <1>6
    <3>3. CASE ~(i <= n)
      <4>1. i - n \in DOMAIN f /\ x = f[i - n]
          BY <3>1, <3>3, <1>1, <1>3, <1>6
      <4> QED BY <4>1 DEF FreeObjects
    <3> QED BY <3>2, <3>3
  <2>2. ASSUME NEW x \in S PROVE x \in FreeObjects(new)
    <3>1. PICK i \in 1..n : order[i] = x
        BY <1>3
    <3>2. i \in 1..(n + Len(f)) /\ new.free[i] = x
        BY <3>1, <1>1, <1>3, <1>6
    <3> QED BY <3>2, <1>6 DEF FreeObjects
  <2>3. ASSUME NEW x \in FreeObjects(pool) PROVE x \in FreeObjects(new)
    <3>1. PICK i \in DOMAIN f : x = f[i]
        BY DEF FreeObjects
    <3>2. n + i \in 1..(n + Len(f)) /\ new.free[n + i] = x
        BY <3>1, <1>1, <1>3, <1>6
    <3> QED BY <3>2, <1>6 DEF FreeObjects
  <2> QED BY <2>1, <2>2, <2>3
<1>9. ASSUME NEW i \in DOMAIN new.free, NEW j \in DOMAIN new.free, new.free[i] = new.free[j]
      PROVE  i = j
  <2>0. i \in 1..(n + Len(f)) /\ j \in 1..(n + Len(f))
      BY <1>6
  <2>1. CASE i <= n /\ j <= n
      BY <2>0, <2>1, <1>3, <1>6, <1>9
  <2>2. CASE ~(i <= n) /\ ~(j <= n)
    <3>1. i - n \in DOMAIN f /\ j - n \in DOMAIN f /\ f[i - n] = f[j - n]
        BY <2>0, <2>2, <1>1, <1>3, <1>6, <1>9
    <3>2. i - n = j - n
        BY <3>1 DEF PoolSoundFor
    <3> QED BY <3>2, <2>0, <1>3
  <2>3. ASSUME NEW a \in 1..(n + Len(f)), NEW b \in 1..(n + Len(f)),
               a <= n, ~(b <= n), new.free[a] = new.free[b]
        PROVE FALSE
    <3>1. new.free[a] \in S
      <4>1. a \in 1..n
          BY <2>3, <1>3
      <4>2. order[a] \in S
          BY <4>1, <1>3
      <4>3. new.free[a] = order[a]
          BY <2>3, <1>6
      <4> QED BY <4>2, <4>3
    <3>2. b - n \in DOMAIN f /\ new.free[b] = f[b - n]
        BY <2>3, <1>1, <1>3, <1>6
    <3>3. new.free[b] \in FreeObjects(pool)
        BY <3>2 DEF FreeObjects
    <3> QED BY <3>1, <3>3, <2>3, <1>7
  <2> QED BY <2>0, <2>1, <2>2, <2>3, <1>9
<1>10. Objects(new) = Objects(pool)
    BY <1>5 DEF Objects
<1>11. FreeObjects(new) \cap (used \ S) = {} /\ FreeObjects(new) \cup (used \ S) = Objects(new)
    BY <1>8, <1>10 DEF PoolSoundFor
<1> QED BY <1>5, <1>9, <1>11 DEF PoolSoundFor

\* The same for one object.
THEOREM DeallocateSound ==
    ASSUME NEW pool \in Pools, NEW used, PoolSoundFor(pool, used), NEW obj \in used
    PROVE  /\ Deallocate(pool, obj) \in Pools
           /\ Deallocate(pool, obj).blocks = pool.blocks
           /\ PoolSoundFor(Deallocate(pool, obj), used \ {obj})
<1> DEFINE f == pool.free
           new == Deallocate(pool, obj)
<1>1. f \in Seq(Nat \ {0}) /\ Len(f) \in Nat /\ DOMAIN f = 1..Len(f)
    BY DEF Pools
<1>2. obj \in Nat \ {0} /\ obj \notin FreeObjects(pool)
    BY BlockAssumption DEF PoolSoundFor, Objects, Pools
<1>3. new.free = <<obj>> \o f /\ new.blocks = pool.blocks /\ new \in Pools
    BY <1>1, <1>2 DEF Deallocate, Pools
<1>4. /\ DOMAIN new.free = 1..(1 + Len(f))
      /\ new.free[1] = obj
      /\ \A i \in 2..(1 + Len(f)) : new.free[i] = f[i - 1]
    BY <1>1, <1>2, <1>3
<1>5. FreeObjects(new) = FreeObjects(pool) \cup {obj}
  <2>1. ASSUME NEW x \in FreeObjects(new) PROVE x \in FreeObjects(pool) \cup {obj}
    <3>1. PICK i \in 1..(1 + Len(f)) : x = new.free[i]
        BY <1>4 DEF FreeObjects
    <3>2. CASE i = 1
        BY <3>1, <3>2, <1>4
    <3>3. CASE i # 1
      <4>1. i - 1 \in DOMAIN f /\ x = f[i - 1]
          BY <3>1, <3>3, <1>1, <1>4
      <4> QED BY <4>1 DEF FreeObjects
    <3> QED BY <3>2, <3>3
  <2>2. obj \in FreeObjects(new)
      BY <1>1, <1>4 DEF FreeObjects
  <2>3. ASSUME NEW x \in FreeObjects(pool) PROVE x \in FreeObjects(new)
    <3>1. PICK i \in DOMAIN f : x = f[i]
        BY DEF FreeObjects
    <3>2. 1 + i \in 2..(1 + Len(f)) /\ new.free[1 + i] = x
        BY <3>1, <1>1, <1>4
    <3> QED BY <3>2, <1>1, <1>4 DEF FreeObjects
  <2> QED BY <2>1, <2>2, <2>3
<1>6. ASSUME NEW i \in DOMAIN new.free, NEW j \in DOMAIN new.free, new.free[i] = new.free[j]
      PROVE  i = j
  <2>0. i \in 1..(1 + Len(f)) /\ j \in 1..(1 + Len(f))
      BY <1>4
  <2>1. \A a \in 2..(1 + Len(f)) : new.free[a] \in FreeObjects(pool)
    <3>1. ASSUME NEW a \in 2..(1 + Len(f)) PROVE new.free[a] \in FreeObjects(pool)
      <4>1. a - 1 \in DOMAIN f /\ new.free[a] = f[a - 1]
          BY <1>1, <1>4
      <4> QED BY <4>1 DEF FreeObjects
    <3> QED BY <3>1
  <2>2. CASE i = 1 \/ j = 1
      BY <2>0, <2>1, <2>2, <1>1, <1>2, <1>4, <1>6
  <2>3. CASE i # 1 /\ j # 1
    <3>0. i \in 2..(1 + Len(f)) /\ j \in 2..(1 + Len(f))
        BY <2>0, <2>3, <1>1
    <3>1. i - 1 \in DOMAIN f /\ j - 1 \in DOMAIN f /\ f[i - 1] = f[j - 1]
      <4>1. new.free[i] = f[i - 1] /\ new.free[j] = f[j - 1]
          BY <3>0, <1>4
      <4> QED BY <3>0, <4>1, <1>1, <1>6
    <3>2. i - 1 = j - 1
        BY <3>1 DEF PoolSoundFor
    <3> QED BY <3>2, <2>0
  <2> QED BY <2>2, <2>3
<1>7. Objects(new) = Objects(pool)
    BY <1>3 DEF Objects
<1> QED BY <1>3, <1>5, <1>6, <1>7 DEF PoolSoundFor
=============================================================================
