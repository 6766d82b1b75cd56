--------------------------- MODULE MCCheckQueue ---------------------------
(* Two workers and the master.  A batch of two checks needs a queue of     *)
(* four: BatchSize divides by the number of threads plus one.              *)
EXTENDS CheckQueue

CONSTANTS w1, w2, c1, c2, c3, c4
=============================================================================
