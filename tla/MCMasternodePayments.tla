------------------------ MODULE MCMasternodePayments ------------------------
(* Small instances of MasternodePayments.                                  *)
EXTENDS MasternodePayments, TLC

CONSTANTS n1, n2, m1, m2, m3, p, q

\* n1 is masternode m1, n2 a client whose entry of m2 comes and goes.
OneMasternode == [n \in Node |-> IF n = n1 THEN m1 ELSE NoMN]
ClientsView == {<<n2, m2>>}

\* m3 is not ranked for the first height.
MostRanked == [h \in Height |-> IF h = 1 THEN MN \ {m3} ELSE MN]

AnyPayees == Permutations({p, q})
=============================================================================
