---------------------------- MODULE MCThreadPool ----------------------------
(* Small instances of ThreadPool and Shutdown for TLC. *)
EXTENDS Shutdown

CONSTANTS w1, w2, w3

TwoWorkers == {w1, w2}
ThreeWorkers == {w1, w2, w3}
=============================================================================
