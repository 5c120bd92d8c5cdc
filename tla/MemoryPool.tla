----------------------------- MODULE MemoryPool -----------------------------
(***************************************************************************)
(* MemoryPool<T, BlockSize> of lock/memory_pool.h, as operators on the     *)
(* value of a pool.  Objects are numbered in the order in which the blocks *)
(* that hold them are obtained from the system; the free list is the       *)
(* sequence of free objects, the head first.                               *)
(***************************************************************************)
EXTENDS Naturals, Sequences, FiniteSets

CONSTANT BlockSize   \* objects per block

\* With one object per block allocate() would leave m_free_list pointing past it.
ASSUME BlockAssumption == BlockSize \in Nat /\ BlockSize >= 2

\* MemoryPool(): no block, an empty free list.
EmptyPool == [free |-> <<>>, blocks |-> 0]

\* The objects of the blocks obtained so far.
Objects(pool) == 1..(pool.blocks * BlockSize)

FirstOfNextBlock(pool) == pool.blocks * BlockSize + 1

\* The object allocate() returns: the head of the free list or, when there is
\* none, the first of a new block.
Allocated(pool) == IF pool.free # <<>> THEN Head(pool.free)
                                       ELSE FirstOfNextBlock(pool)

\* The pool after allocate(): the other objects of a new block become free.
Allocate(pool) ==
    IF pool.free # <<>>
    THEN [free |-> Tail(pool.free), blocks |-> pool.blocks]
    ELSE [free   |-> [i \in 1..(BlockSize - 1) |-> FirstOfNextBlock(pool) + i],
          blocks |-> pool.blocks + 1]

\* Fault: the object goes to the tail of the free list.
DeallocateLast(pool, obj) == [free |-> Append(pool.free, obj), blocks |-> pool.blocks]

\* The pool after deallocate(obj): obj becomes the head of the free list.
Deallocate(pool, obj) == [free |-> <<obj>> \o pool.free, blocks |-> pool.blocks]

\* The orders in which the objects of a set may be freed, the last one first.
Orders(S) == {o \in [1..Cardinality(S) -> S] :
                 /\ \A i, j \in DOMAIN o : o[i] = o[j] => i = j
                 /\ \A obj \in S : \E i \in DOMAIN o : o[i] = obj}

\* The pool after deallocate() of every object of such an order.
DeallocateAll(pool, order) == [free |-> order \o pool.free, blocks |-> pool.blocks]

FreeObjects(pool) == {pool.free[i] : i \in DOMAIN pool.free}

\* The values a pool of positive object numbers takes.
Pools == [free : Seq(Nat \ {0}), blocks : Nat]

\* What makes the pool usable when `used` is the set of objects in use: every
\* object is either free, once, or in use.
PoolSoundFor(pool, used) ==
    /\ \A i, j \in DOMAIN pool.free : pool.free[i] = pool.free[j] => i = j
    /\ FreeObjects(pool) \cap used = {}
    /\ FreeObjects(pool) \cup used = Objects(pool)
=============================================================================
