----------------------------- MODULE MCTimeWheel -----------------------------
(* Small instances of TimeWheel for TLC. *)
EXTENDS TimeWheel

ShortTimeouts == {0, 1, 7}
=============================================================================
