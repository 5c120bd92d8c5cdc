---------------------------- MODULE ResourcePool ----------------------------
(***************************************************************************)
(* What a pool of reusable resources promises its clients, whatever its    *)
(* bookkeeping: a resource is lent to at most one client at a time, only   *)
(* the client it is lent to gives it back, and closing the pool closes     *)
(* every resource but those that are lent.                                 *)
(***************************************************************************)
CONSTANTS
    Clients,     \* who borrows
    Resources,   \* what is lent
    Nobody       \* the owner of a resource that is not lent

VARIABLES
    owner,       \* owner[r]: the client r is lent to, or Nobody
    open         \* the resources that have not been closed

vars == <<owner, open>>

TypeOK == /\ owner \in [Resources -> Clients \cup {Nobody}]
          /\ open \in SUBSET Resources

Init == /\ owner = [r \in Resources |-> Nobody]
        /\ open = Resources

Lend(c, r) == /\ r \in open
              /\ owner[r] = Nobody
              /\ owner' = [owner EXCEPT ![r] = c]
              /\ UNCHANGED open

GiveBack(c, r) == /\ owner[r] = c
                  /\ owner' = [owner EXCEPT ![r] = Nobody]
                  /\ UNCHANGED open

Close == /\ open' = {r \in open : owner[r] # Nobody}
         /\ UNCHANGED owner

Next == \/ \E c \in Clients, r \in Resources : Lend(c, r) \/ GiveBack(c, r)
        \/ Close

Spec == Init /\ [][Next]_vars
=============================================================================
