------------------------- MODULE MCServerLifecycle -------------------------
(* Two workers and three signals. *)
EXTENDS ServerLifecycle, TLC
CONSTANTS w1, w2
TwoWorkers == {w1, w2}
=============================================================================
