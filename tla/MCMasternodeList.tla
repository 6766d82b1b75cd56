--------------------------- MODULE MCMasternodeList ---------------------------
(* Small instances of MasternodeList.                                      *)
EXTENDS MasternodeList

CONSTANTS m, p1, p2

AnyPeers == Permutations({p1, p2})
=============================================================================
