----------------------------- MODULE CheckAll -----------------------------
(* What the users of CCheckQueueControl rely on: checks are handed over in *)
(* any number of batches, Wait() returns, and its result is the            *)
(* conjunction of all checks.  There are no threads here.                  *)
CONSTANTS Check

VARIABLES phase,    \* "outside", "control" or "waiting"
          jobs,     \* the checks handed over
          bad,      \* those that fail
          result    \* what the last Wait() returned

vars == <<phase, jobs, bad, result>>

Init == phase = "outside" /\ jobs = {} /\ bad = {} /\ result = TRUE

Begin ==
    /\ phase = "outside" /\ phase' = "control"
    /\ jobs' = {} /\ bad' = {} /\ UNCHANGED result

HandOver(C, B) ==
    /\ phase = "control" /\ C \cap jobs = {} /\ B \subseteq C
    /\ jobs' = jobs \cup C /\ bad' = bad \cup B
    /\ UNCHANGED <<phase, result>>

Wait == phase = "control" /\ phase' = "waiting" /\ UNCHANGED <<jobs, bad, result>>

Return ==
    /\ phase = "waiting" /\ phase' = "outside"
    /\ result' = (bad = {}) /\ UNCHANGED <<jobs, bad>>

Next ==
    \/ Begin \/ Wait \/ Return
    \/ \E C \in SUBSET Check : \E B \in SUBSET C : HandOver(C, B)

Spec == Init /\ [][Next]_vars
FairSpec == Spec /\ WF_vars(Return)
=============================================================================
