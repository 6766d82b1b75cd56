----------------------------- MODULE MCGovernance -----------------------------
(* A small instance of Governance: a proposal with two votes of one        *)
(* masternode and one of another, and a trigger.                           *)
EXTENDS Governance, TLC

CONSTANTS proposal, trigger, m1, m2, v1, v2, w

ballot(m, o, s, out, t) == [mn |-> m, obj |-> o, signal |-> s, outcome |-> out, time |-> t]

Ballots ==
    v1 :> ballot(m1, proposal, "funding", "yes", 1) @@
    v2 :> ballot(m1, proposal, "funding", "no", 2) @@
    w :> ballot(m2, proposal, "delete", "yes", 1)

JustM1 == <<m1>>

Signers == proposal :> NoMN @@ trigger :> m2
=============================================================================
