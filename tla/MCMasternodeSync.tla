-------------------------- MODULE MCMasternodeSync --------------------------
(* Small instances of MasternodeSync.                                      *)
EXTENDS MasternodeSync

CONSTANTS p1, p2, p3

\* Two regular peers, before or after a masternode connection, or nobody yet.
SomeConnected == {<<>>, <<p1, p2>>, <<p3, p1>>}
=============================================================================
