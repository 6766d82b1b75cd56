--------------------------- MODULE MCInstantSend ---------------------------
(* Small instances of InstantSend: two transactions over one or two        *)
(* outpoints, two or three masternodes with a quorum of two.               *)
EXTENDS InstantSend

CONSTANTS t1, t2, n1, m1, m2, m3

\* t1 spends outpoint 1, t2 spends both: they conflict on outpoint 1.
PairInputs == [t \in Tx |-> IF t = t2 THEN {1, 2} ELSE {1}]
OneInput == [t \in Tx |-> {1}]
AllRanked == [o \in OutPoint |-> MN]
=============================================================================
