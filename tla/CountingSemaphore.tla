-------------------------- MODULE CountingSemaphore --------------------------
(***************************************************************************)
(* What the class sem of lock/locker.h promises: a counter that wait()     *)
(* takes one from, as soon as there is one to take, and post() adds one    *)
(* to.                                                                     *)
(***************************************************************************)
EXTENDS Naturals

CONSTANTS
    Threads,
    Initial,   \* the count it is made with
    MaxCount   \* bound: post() is not called above it

VARIABLES
    count,
    in_wait    \* the threads that have called wait() and not returned

Init == count = Initial /\ in_wait = {}

Call(t) == /\ t \notin in_wait
           /\ in_wait' = in_wait \cup {t}
           /\ UNCHANGED count

Return(t) == /\ t \in in_wait
             /\ count > 0
             /\ count' = count - 1
             /\ in_wait' = in_wait \ {t}

Post == /\ count < MaxCount
        /\ count' = count + 1
        /\ UNCHANGED in_wait

Next == Post \/ \E t \in Threads : Call(t) \/ Return(t)

Spec == Init /\ [][Next]_<<count, in_wait>>
=============================================================================
