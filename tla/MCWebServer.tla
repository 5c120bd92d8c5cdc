----------------------------- MODULE MCWebServer -----------------------------
(* Small instances of WebServer for TLC. *)
EXTENDS WebServer, TLC

CONSTANTS w1, w2

TwoWorkers == {w1, w2}
Symmetry == Permutations(Workers)
TwoFds == {1, 2}
=============================================================================
