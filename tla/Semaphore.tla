------------------------------ MODULE Semaphore ------------------------------
(***************************************************************************)
(* class sem of lock/locker.h: a counting semaphore made of a mutex and a  *)
(* condition variable.  Every section under m_mutex is one action; post()  *)
(* notifies inside its section.  The wait of the condition variable may    *)
(* end spuriously, and a thread that has just called wait() may take what  *)
(* was posted for one that slept.                                          *)
(***************************************************************************)
EXTENDS Integers, FiniteSets

CONSTANTS
    Threads,
    Initial,   \* the argument of init()
    MaxCount   \* bound: post() is not called above it

VARIABLES
    m_count,
    pc         \* pc[t]: "out"; "test": about to test the predicate, with the mutex
               \* to take; "sleep": in the condition variable

vars == <<m_count, pc>>

TypeOK == /\ m_count \in Nat
          /\ pc \in [Threads -> {"out", "test", "sleep"}]

Init == /\ m_count = Initial
        /\ pc = [t \in Threads |-> "out"]

At(place) == {t \in Threads : pc[t] = place}

-----------------------------------------------------------------------------

Call(t) == /\ pc[t] = "out"
           /\ pc' = [pc EXCEPT ![t] = "test"]
           /\ UNCHANGED m_count

Return(t) == /\ pc[t] = "test"
             /\ m_count > 0
             /\ m_count' = m_count - 1
             /\ pc' = [pc EXCEPT ![t] = "out"]

Sleep(t) == /\ pc[t] = "test"
            /\ m_count = 0
            /\ pc' = [pc EXCEPT ![t] = "sleep"]
            /\ UNCHANGED m_count

SpuriousWakeup(t) == /\ pc[t] = "sleep"
                     /\ pc' = [pc EXCEPT ![t] = "test"]
                     /\ UNCHANGED m_count

\* notify_one wakes one of the threads that sleep.
Post == /\ m_count < MaxCount
        /\ m_count' = m_count + 1
        /\ IF At("sleep") = {}
           THEN UNCHANGED pc
           ELSE \E t \in At("sleep") : pc' = [pc EXCEPT ![t] = "test"]

Step(t) == Call(t) \/ Return(t) \/ Sleep(t) \/ SpuriousWakeup(t)

Next == Post \/ \E t \in Threads : Step(t)

Spec == Init /\ [][Next]_vars

-----------------------------------------------------------------------------

\* A thread sleeps only while there are as many threads on their way to the
\* predicate as there is to take: no post() is lost on it (locker.h:48, :56-59).
NoLostWakeup == At("sleep") # {} => Cardinality(At("test")) >= m_count

Counting == INSTANCE CountingSemaphore
    WITH count <- m_count, in_wait <- At("test") \cup At("sleep")
=============================================================================
