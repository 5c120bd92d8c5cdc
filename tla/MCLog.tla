-------------------------------- MODULE MCLog --------------------------------
(* Small instances of Log for TLC. *)
EXTENDS Log

CONSTANTS w1, w2

TwoWriters == {w1, w2}
=============================================================================
