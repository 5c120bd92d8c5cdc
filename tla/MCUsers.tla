------------------------------ MODULE MCUsers -------------------------------
(* Small instances of Users for TLC. *)
EXTENDS Users, TLC

CONSTANTS w1, w2, alice, bob, pa, pb, k1, k2

TwoWorkers == {w1, w2}
TwoNames == {alice, bob}
TwoPasswds == {pa, pb}
TwoTokens == {k1, k2}
Symmetry == Permutations(Workers) \cup Permutations(Names)
               \cup Permutations(Passwds) \cup Permutations(Tokens)
=============================================================================
