------------------------- MODULE MCInstantSendNet -------------------------
(* Two conflicting requests and four masternodes.                          *)
EXTENDS InstantSendNet, TLC

CONSTANTS t1, t2, m1, m2, m3, m4

OneInput == [t \in Tx |-> {1}]
AllRanked == [o \in OutPoint |-> MN]
\* Only nodes that restart alike are interchangeable.
Symmetry == Permutations(MayRestart) \cup Permutations(MN \ MayRestart)
=============================================================================
