------------------------------- MODULE UTXOSet -------------------------------
(***************************************************************************)
(* What the layered coins views promise, whatever each layer happens to    *)
(* hold in memory: three plain maps from transactions to their unspent     *)
(* outputs.  A block is applied to work entry by entry; all of it reaches  *)
(* coins or none of it; saved is what a restart finds.                     *)
(***************************************************************************)
CONSTANTS TxId, CCoins, Null

VARIABLES work, coins, saved

vars == <<work, coins, saved>>

Init == work = [t \in TxId |-> Null] /\ coins = work /\ saved = work

Modify(t) ==
    /\ work'[t] \in CCoins
    /\ work' = [work EXCEPT ![t] = work'[t]]
    /\ UNCHANGED <<coins, saved>>

Commit == coins' = work /\ UNCHANGED <<work, saved>>

Discard == work' = coins /\ UNCHANGED <<coins, saved>>

Save == saved' = coins /\ work = coins /\ UNCHANGED <<work, coins>>

Lose == work' = saved /\ coins' = saved /\ UNCHANGED saved

Next == (\E t \in TxId : Modify(t)) \/ Commit \/ Discard \/ Save \/ Lose

Spec == Init /\ [][Next]_vars
=============================================================================
