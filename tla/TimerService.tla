---------------------------- MODULE TimerService ----------------------------
(***************************************************************************)
(* What a timer structure promises, however it stores the timers: a timer  *)
(* added for k ticks is still there after k ticks and goes off at the next *)
(* one, unless it is deleted first.                                        *)
(***************************************************************************)
EXTENDS Integers

CONSTANTS
    Timers,
    Counts    \* the numbers of ticks a timer may be added for

VARIABLE left   \* left[t]: the ticks t will survive; Off when t is not set

Off == -1

TypeOK == left \in [Timers -> Nat \cup {Off}]

Init == left = [t \in Timers |-> Off]

Add(t, k) == /\ left[t] = Off
             /\ left' = [left EXCEPT ![t] = k]

Del(t) == /\ left[t] # Off
          /\ left' = [left EXCEPT ![t] = Off]

\* The timers that go off at the next tick.
Due == {t \in Timers : left[t] = 0}

Tick == left' = [t \in Timers |-> IF left[t] > 0 THEN left[t] - 1 ELSE Off]

Next == \/ \E t \in Timers : Del(t) \/ \E k \in Counts : Add(t, k)
        \/ Tick

Spec == Init /\ [][Next]_left
=============================================================================
