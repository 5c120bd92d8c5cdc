------------------------- MODULE MCWorkerConnections -------------------------
(* Small instances of WorkerConnections for TLC. *)
EXTENDS WorkerConnections, TLC

CONSTANTS f1, f2, w1, w2, c1, c2

TwoFds == {f1, f2}
TwoWorkers == {w1, w2}
TwoConns == {c1, c2}
Symmetry == Permutations(Fds) \cup Permutations(Workers) \cup Permutations(Conns)
=============================================================================
