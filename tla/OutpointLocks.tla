--------------------------- MODULE OutpointLocks ---------------------------
(***************************************************************************)
(* What CInstantSend promises about mapLockedOutpoints, without saying how *)
(* votes are collected: a transaction with a quorum locks all its inputs   *)
(* in one step, no lock passes from one transaction to another, and a      *)
(* transaction keeps its quorum for as long as it holds a lock.            *)
(***************************************************************************)
CONSTANTS Tx, NoTx, OutPoint, Inputs

VARIABLES lock,     \* [OutPoint -> Tx \cup {NoTx}]
          quorum    \* the transactions with a quorum on each of their inputs

Init == lock = [o \in OutPoint |-> NoTx] /\ quorum = {}

Holds(t) == \E o \in OutPoint : lock[o] = t

\* Transactions gain a quorum; transactions that hold no lock lose it.
Count ==
    /\ quorum' \subseteq Tx
    /\ \A t \in quorum \ quorum' : ~ Holds(t)
    /\ UNCHANGED lock

Acquire(t) ==
    /\ quorum \subseteq quorum' /\ quorum' \subseteq Tx /\ t \in quorum'
    /\ \A o \in Inputs[t] : lock[o] \in {NoTx, t}
    /\ lock' = [o \in OutPoint |-> IF o \in Inputs[t] THEN t ELSE lock[o]]

\* The inputs of the transactions in T are free again.
Release(T) ==
    /\ quorum' = quorum \ T
    /\ lock' = [o \in OutPoint |-> IF \E t \in T : o \in Inputs[t] THEN NoTx ELSE lock[o]]

Next ==
    \/ Count
    \/ \E t \in Tx : Acquire(t)
    \/ \E T \in SUBSET Tx : Release(T)

Spec == Init /\ [][Next]_<<lock, quorum>>
=============================================================================
