-------------------------- MODULE InstantSendNet --------------------------
(***************************************************************************)
(* The InstantSend protocol between nodes: every node runs the vote rules  *)
(* of CInstantSend (src/src/instantsend.cpp), masternodes that follow them *)
(* sign votes, and the network delivers a vote to each node at any time,   *)
(* in any order, or never.  ResolveConflicts is abstracted to its result:  *)
(* it refuses a candidate that conflicts with a completed lock and may     *)
(* fail for reasons of the node's own mempool or chain.  The maps are not  *)
(* persisted (init.cpp stores four other managers): a restart loses them.  *)
(* Expiry is left out: this is the life of an outpoint until the block     *)
(* that spends it is nInstantSendKeepLock deep.                            *)
(***************************************************************************)
EXTENDS Integers, FiniteSets

CONSTANTS
    Node,                   \* nodes
    MN,                     \* the nodes that are masternodes
    Tx, NoTx,               \* lock requests; "none"
    OutPoint, Inputs,       \* [Tx -> non-empty sets of outpoints]
    Ranked,                 \* [OutPoint -> SUBSET MN]: the top SIGNATURES_TOTAL
    SIGNATURES_REQUIRED,
    MayRestart              \* bound: the nodes that may restart, any number of times

ASSUME NetAssumption ==
    /\ MN \subseteq Node /\ IsFiniteSet(MN)
    /\ NoTx \notin Tx
    /\ Inputs \in [Tx -> (SUBSET OutPoint) \ {{}}]
    /\ Ranked \in [OutPoint -> SUBSET MN]
    /\ SIGNATURES_REQUIRED \in Nat \ {0} /\ MayRestart \subseteq Node

VARIABLES
    mapTxLockCandidates,    \* [Node -> SUBSET Tx]
    mapMasternodeVotes,     \* [Node -> [Tx -> [OutPoint -> SUBSET MN]]]
    mapVotedOutpoints,      \* [Node -> [OutPoint -> SUBSET Tx]]
    mapLockedOutpoints,     \* [Node -> [OutPoint -> Tx \cup {NoTx}]]
    relayed,                \* the votes signed and relayed so far: [tx, outpoint, mn]
    restarted               \* history: the nodes that have restarted

vars == <<mapTxLockCandidates, mapMasternodeVotes, mapVotedOutpoints, mapLockedOutpoints,
          relayed, restarted>>

Vote == [tx : Tx, outpoint : OutPoint, mn : MN]

Init ==
    /\ mapTxLockCandidates = [n \in Node |-> {}]
    /\ mapMasternodeVotes = [n \in Node |-> [t \in Tx |-> [o \in OutPoint |-> {}]]]
    /\ mapVotedOutpoints = [n \in Node |-> [o \in OutPoint |-> {}]]
    /\ mapLockedOutpoints = [n \in Node |-> [o \in OutPoint |-> NoTx]]
    /\ relayed = {} /\ restarted = {}

\* Mutant of IsAllOutPointsReady: one vote is missing.
IsAllOutPointsReadyEarly(t, votes) ==
    \A o \in Inputs[t] : Cardinality(votes[t][o]) + 1 >= SIGNATURES_REQUIRED

\* CTxLockCandidate::IsAllOutPointsReady.
IsAllOutPointsReady(t, votes) ==
    \A o \in Inputs[t] : Cardinality(votes[t][o]) >= SIGNATURES_REQUIRED

\* Mutant of OutpointsToVote: the earlier votes are not looked up.
OutpointsToVoteAgain(n, t) == {o \in Inputs[t] : n \in Ranked[o]}

\* Vote(): the outpoints of t on which node n signs a vote.
OutpointsToVote(n, t) ==
    {o \in Inputs[t] :
        /\ n \in Ranked[o]
        /\ \A h \in mapVotedOutpoints[n][o] : n \notin mapMasternodeVotes[n][h][o]}

\* ProcessTxLockRequest for a request the node has not seen: candidate and own votes.
ProcessTxLockRequest(n, t) ==
    LET own == OutpointsToVote(n, t)
    IN /\ t \notin mapTxLockCandidates[n]
       /\ \A o \in Inputs[t] : mapLockedOutpoints[n][o] = NoTx
       /\ mapTxLockCandidates' = [mapTxLockCandidates EXCEPT ![n] = @ \cup {t}]
       /\ mapMasternodeVotes' = [mapMasternodeVotes EXCEPT ![n][t] =
              [o \in OutPoint |-> IF o \in own THEN @[o] \cup {n} ELSE @[o]]]
       /\ mapVotedOutpoints' = [mapVotedOutpoints EXCEPT ![n] =
              [o \in OutPoint |-> IF o \in own THEN @[o] \cup {t} ELSE @[o]]]
       /\ relayed' = relayed \cup {[tx |-> t, outpoint |-> o, mn |-> n] : o \in own}
       /\ UNCHANGED <<mapLockedOutpoints, restarted>>

\* ProcessTxLockVote at node n for a vote of a candidate.
ProcessTxLockVote(n, v) ==
    /\ v.tx \in mapTxLockCandidates[n]
    /\ \A h \in mapVotedOutpoints[n][v.outpoint] \ {v.tx} :
          v.mn \notin mapMasternodeVotes[n][h][v.outpoint]
    /\ v.mn \notin mapMasternodeVotes[n][v.tx][v.outpoint]
    /\ mapMasternodeVotes' = [mapMasternodeVotes EXCEPT ![n][v.tx][v.outpoint] = @ \cup {v.mn}]
    /\ mapVotedOutpoints' = [mapVotedOutpoints EXCEPT ![n][v.outpoint] =
                                IF @ = {} THEN {v.tx} ELSE @]
    /\ UNCHANGED <<mapTxLockCandidates, mapLockedOutpoints, relayed, restarted>>

\* The last part of ProcessTxLockVote, when ResolveConflicts returned true.
LockTransactionInputs(n, t) ==
    /\ t \in mapTxLockCandidates[n]
    /\ IsAllOutPointsReady(t, mapMasternodeVotes[n])
    /\ \A o \in Inputs[t] : mapLockedOutpoints[n][o] \in {NoTx, t}
    /\ mapLockedOutpoints' = [mapLockedOutpoints EXCEPT ![n] =
              [o \in OutPoint |-> IF o \in Inputs[t] THEN t ELSE @[o]]]
    /\ UNCHANGED <<mapTxLockCandidates, mapMasternodeVotes, mapVotedOutpoints, relayed,
                   restarted>>

\* The process ends and starts again: CInstantSend's maps are empty.
Restart(n) ==
    /\ n \in MayRestart
    /\ restarted' = restarted \cup {n}
    /\ mapTxLockCandidates' = [mapTxLockCandidates EXCEPT ![n] = {}]
    /\ mapMasternodeVotes' = [mapMasternodeVotes EXCEPT ![n] =
                                 [t \in Tx |-> [o \in OutPoint |-> {}]]]
    /\ mapVotedOutpoints' = [mapVotedOutpoints EXCEPT ![n] = [o \in OutPoint |-> {}]]
    /\ mapLockedOutpoints' = [mapLockedOutpoints EXCEPT ![n] = [o \in OutPoint |-> NoTx]]
    /\ UNCHANGED relayed

Next ==
    \E n \in Node :
        \/ \E t \in Tx : ProcessTxLockRequest(n, t)
        \/ \E v \in relayed : ProcessTxLockVote(n, v)
        \/ \E t \in Tx : LockTransactionInputs(n, t)
        \/ Restart(n)

Spec == Init /\ [][Next]_vars

-----------------------------------------------------------------------------

\* The maps of every node have their types.
TypeOK ==
    /\ mapTxLockCandidates \in [Node -> SUBSET Tx]
    /\ mapMasternodeVotes \in [Node -> [Tx -> [OutPoint -> SUBSET MN]]]
    /\ mapVotedOutpoints \in [Node -> [OutPoint -> SUBSET Tx]]
    /\ mapLockedOutpoints \in [Node -> [OutPoint -> Tx \cup {NoTx}]]
    /\ relayed \subseteq Vote /\ restarted \subseteq Node

\* A masternode that has not restarted relays votes for one transaction per outpoint: "Check
\* to see if we already voted for this outpoint, refuse to vote twice or to include the same
\* outpoint in another tx" (Vote()).  A restart loses the maps this is looked up in.
VoteOncePerOutpoint ==
    \A v, w \in relayed :
        (v.mn = w.mn /\ v.outpoint = w.outpoint /\ v.mn \notin restarted) => v.tx = w.tx

\* Any two quorums of outpoint o share a masternode that has not restarted.
QuorumsOverlap(o) ==
    2 * SIGNATURES_REQUIRED > Cardinality(Ranked[o]) + Cardinality(Ranked[o] \cap restarted)

\* As long as the quorums of an outpoint overlap in a masternode that has not restarted, no two
\* nodes complete locks of different transactions on it, in whatever order votes reach them.
OverlappingQuorumsAgree ==
    \A n, k \in Node, o \in OutPoint :
        (QuorumsOverlap(o) /\ mapLockedOutpoints[n][o] # NoTx /\ mapLockedOutpoints[k][o] # NoTx)
            => mapLockedOutpoints[n][o] = mapLockedOutpoints[k][o]

\* Whatever restarts have made nodes forget, a lock stands on votes that SIGNATURES_REQUIRED
\* masternodes of the outpoint's quorum really relayed for the holder, on each of its inputs.
LockedByRelayedVotes ==
    \A n \in Node, o \in OutPoint : mapLockedOutpoints[n][o] # NoTx =>
        LET t == mapLockedOutpoints[n][o]
        IN \A p \in Inputs[t] :
              Cardinality({m \in Ranked[p] : [tx |-> t, outpoint |-> p, mn |-> m] \in relayed})
                  >= SIGNATURES_REQUIRED
=============================================================================
