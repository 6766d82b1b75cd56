----------------------- MODULE InstantSendNet_proofs -----------------------
(***************************************************************************)
(* Proofs about InstantSendNet, for every number of nodes, masternodes,    *)
(* requests and outpoints.                                                 *)
(*                                                                         *)
(* Two inductive invariants.  Backed: every vote a node counted was        *)
(* relayed by a ranked masternode, so every lock stands on a quorum of     *)
(* relayed votes.  Recorded: a masternode that has not restarted finds     *)
(* each of its own relayed votes in its maps, which is what keeps it from  *)
(* voting twice.  Agreement follows from the two where quorums overlap in  *)
(* such a masternode.                                                      *)
(***************************************************************************)
EXTENDS InstantSendNet, FiniteSetTheorems, TLAPS

\* The masternodes of outpoint o's quorum that relayed a vote for t.
Voters(t, o) == {m \in Ranked[o] : [tx |-> t, outpoint |-> o, mn |-> m] \in relayed}

CountedVotesRelayed ==
    \A n \in Node, t \in Tx, o \in OutPoint : mapMasternodeVotes[n][t][o] \subseteq Voters(t, o)

\* A lock is on inputs of its holder, each with a quorum of relayed votes.
LocksHaveVoters ==
    \A n \in Node, o \in OutPoint : mapLockedOutpoints[n][o] # NoTx =>
        /\ o \in Inputs[mapLockedOutpoints[n][o]]
        /\ \A p \in Inputs[mapLockedOutpoints[n][o]] :
              Cardinality(Voters(mapLockedOutpoints[n][o], p)) >= SIGNATURES_REQUIRED

RelayedVotesRanked == \A v \in relayed : v.mn \in Ranked[v.outpoint]

Backed == TypeOK /\ RelayedVotesRanked /\ CountedVotesRelayed /\ LocksHaveVoters

\* A masternode that has not restarted finds every vote it relayed in its own maps.
OwnVotesRecorded ==
    \A v \in relayed : v.mn \notin restarted =>
        /\ v.mn \in mapMasternodeVotes[v.mn][v.tx][v.outpoint]
        /\ v.tx \in mapVotedOutpoints[v.mn][v.outpoint]

Recorded == Backed /\ OwnVotesRecorded /\ VoteOncePerOutpoint

-----------------------------------------------------------------------------

\* Voters are finitely many; more relayed votes mean more voters.
LEMMA VotersFinite ==
    ASSUME NEW t \in Tx, NEW o \in OutPoint
    PROVE  IsFiniteSet(Ranked[o]) /\ IsFiniteSet(Voters(t, o)) /\ Cardinality(Voters(t, o)) \in Nat
<1>1. IsFiniteSet(MN) /\ Ranked[o] \subseteq MN BY NetAssumption
<1>2. IsFiniteSet(Ranked[o]) BY <1>1, FS_Subset
<1>3. Voters(t, o) \subseteq Ranked[o] BY DEF Voters
<1> QED BY <1>2, <1>3, FS_Subset, FS_CardinalityType

\* The initial state satisfies both invariants.
LEMMA InitRecorded == Init => Recorded
<1> SUFFICES ASSUME Init PROVE Recorded OBVIOUS
<1>1. TypeOK BY NetAssumption DEF Init, TypeOK
<1> QED BY <1>1 DEF Init, Recorded, Backed, RelayedVotesRanked, CountedVotesRelayed,
             LocksHaveVoters, OwnVotesRecorded, VoteOncePerOutpoint

\* Every action preserves the types of the maps.
LEMMA TypeStep == TypeOK /\ [Next]_vars => TypeOK'
<1> SUFFICES ASSUME TypeOK, [Next]_vars PROVE TypeOK' OBVIOUS
<1> USE NetAssumption
<1>1. ASSUME NEW n \in Node, NEW t \in Tx, ProcessTxLockRequest(n, t) PROVE TypeOK'
  <2>1. OutpointsToVote(n, t) \subseteq OutPoint
        /\ \A o \in OutpointsToVote(n, t) : n \in MN
    BY DEF OutpointsToVote
  <2>2. mapMasternodeVotes' \in [Node -> [Tx -> [OutPoint -> SUBSET MN]]]
    BY <1>1, <2>1 DEF ProcessTxLockRequest, TypeOK
  <2>3. mapVotedOutpoints' \in [Node -> [OutPoint -> SUBSET Tx]]
    BY <1>1, <2>1 DEF ProcessTxLockRequest, TypeOK
  <2>4. relayed' \subseteq Vote
    BY <1>1, <2>1 DEF ProcessTxLockRequest, TypeOK, Vote
  <2> QED BY <1>1, <2>2, <2>3, <2>4 DEF ProcessTxLockRequest, TypeOK
<1>2. ASSUME NEW n \in Node, NEW v \in relayed, ProcessTxLockVote(n, v) PROVE TypeOK'
  <2>1. v.tx \in Tx /\ v.outpoint \in OutPoint /\ v.mn \in MN BY DEF TypeOK, Vote
  <2>2. mapMasternodeVotes' \in [Node -> [Tx -> [OutPoint -> SUBSET MN]]]
    BY <1>2, <2>1 DEF ProcessTxLockVote, TypeOK
  <2>3. mapVotedOutpoints' \in [Node -> [OutPoint -> SUBSET Tx]]
    BY <1>2, <2>1 DEF ProcessTxLockVote, TypeOK
  <2> QED BY <1>2, <2>2, <2>3 DEF ProcessTxLockVote, TypeOK
<1>3. ASSUME NEW n \in Node, NEW t \in Tx, LockTransactionInputs(n, t) PROVE TypeOK'
  BY <1>3 DEF LockTransactionInputs, TypeOK
<1>4. ASSUME NEW n \in Node, Restart(n) PROVE TypeOK'
  BY <1>4 DEF Restart, TypeOK
<1>5. CASE UNCHANGED vars BY <1>5 DEF TypeOK, vars
<1> QED BY <1>1, <1>2, <1>3, <1>4, <1>5 DEF Next

\* The maps of every node have their types, for any number of restarts.
THEOREM TypeCorrect == Spec => []TypeOK
<1>1. Init => TypeOK BY InitRecorded DEF Recorded, Backed
<1> QED BY <1>1, TypeStep, PTL DEF Spec

-----------------------------------------------------------------------------

\* Voters never lose a member: relayed only grows.
LEMMA VotersGrow ==
    ASSUME TypeOK, TypeOK', relayed \subseteq relayed', NEW t \in Tx, NEW o \in OutPoint
    PROVE  /\ Voters(t, o) \subseteq Voters(t, o)'
           /\ Cardinality(Voters(t, o)) >= SIGNATURES_REQUIRED
                 => Cardinality(Voters(t, o)') >= SIGNATURES_REQUIRED
<1>1. Voters(t, o) \subseteq Voters(t, o)' BY DEF Voters
<1>2. Voters(t, o)' \subseteq Ranked[o] BY DEF Voters
<1>3. IsFiniteSet(Voters(t, o)') BY <1>2, VotersFinite, FS_Subset
<1>4. Cardinality(Voters(t, o)') \in Nat BY <1>3, FS_CardinalityType
<1>5. Cardinality(Voters(t, o)) <= Cardinality(Voters(t, o)') BY <1>1, <1>3, FS_Subset
<1> QED BY <1>1, <1>4, <1>5, VotersFinite, NetAssumption

\* Every action, a restart included, preserves that locks stand on relayed votes.
LEMMA BackedStep == Backed /\ [Next]_vars => Backed'
<1> SUFFICES ASSUME Backed, [Next]_vars PROVE Backed' OBVIOUS
<1> USE NetAssumption
<1>0. TypeOK /\ TypeOK' BY TypeStep DEF Backed
<1>1. ASSUME NEW n \in Node, NEW t \in Tx, ProcessTxLockRequest(n, t) PROVE Backed'
  <2>1. relayed \subseteq relayed' BY <1>1 DEF ProcessTxLockRequest
  <2>2. RelayedVotesRanked'
    BY <1>0, <1>1 DEF Backed, RelayedVotesRanked, ProcessTxLockRequest, OutpointsToVote
  <2>3. CountedVotesRelayed'
    <3> SUFFICES ASSUME NEW k \in Node, NEW h \in Tx, NEW o \in OutPoint,
                        NEW m \in mapMasternodeVotes'[k][h][o]
                 PROVE  m \in Voters(h, o)'
        BY DEF CountedVotesRelayed
    <3>1. CASE m \in mapMasternodeVotes[k][h][o]
      BY <3>1, <1>0, <2>1, VotersGrow DEF Backed, CountedVotesRelayed
    <3>2. CASE m \notin mapMasternodeVotes[k][h][o]
      <4>1. k = n /\ h = t /\ m = n /\ o \in OutpointsToVote(n, t)
        BY <3>2, <1>0, <1>1 DEF ProcessTxLockRequest, TypeOK
      <4> QED BY <4>1, <1>1 DEF ProcessTxLockRequest, OutpointsToVote, Voters
    <3> QED BY <3>1, <3>2
  <2>4. LocksHaveVoters'
    <3> SUFFICES ASSUME NEW k \in Node, NEW o \in OutPoint, mapLockedOutpoints'[k][o] # NoTx
                 PROVE  /\ o \in Inputs[mapLockedOutpoints'[k][o]]
                        /\ \A p \in Inputs[mapLockedOutpoints'[k][o]] :
                              Cardinality(Voters(mapLockedOutpoints[k][o], p)')
                                 >= SIGNATURES_REQUIRED
        BY DEF LocksHaveVoters
    <3>1. mapLockedOutpoints' = mapLockedOutpoints BY <1>1 DEF ProcessTxLockRequest
    <3>2. mapLockedOutpoints[k][o] \in Tx BY <3>1, <1>0 DEF TypeOK
    <3> QED BY <3>1, <3>2, <1>0, <2>1, VotersGrow DEF Backed, LocksHaveVoters
  <2> QED BY <1>0, <2>2, <2>3, <2>4 DEF Backed
<1>2. ASSUME NEW n \in Node, NEW v \in relayed, ProcessTxLockVote(n, v) PROVE Backed'
  <2>1. relayed' = relayed /\ mapLockedOutpoints' = mapLockedOutpoints
    BY <1>2 DEF ProcessTxLockVote
  <2>2. RelayedVotesRanked' /\ LocksHaveVoters'
    BY <2>1 DEF Backed, RelayedVotesRanked, LocksHaveVoters, Voters
  <2>3. v.tx \in Tx /\ v.outpoint \in OutPoint /\ v.mn \in Voters(v.tx, v.outpoint)
        BY <1>0 DEF Backed, RelayedVotesRanked, TypeOK, Vote, Voters
  <2>4. CountedVotesRelayed'
    <3> SUFFICES ASSUME NEW k \in Node, NEW h \in Tx, NEW o \in OutPoint,
                        NEW m \in mapMasternodeVotes'[k][h][o]
                 PROVE  m \in Voters(h, o)
        BY <2>1 DEF CountedVotesRelayed, Voters
    <3>1. m \in mapMasternodeVotes[k][h][o] \/ (h = v.tx /\ o = v.outpoint /\ m = v.mn)
      BY <1>0, <1>2, <2>3 DEF ProcessTxLockVote, TypeOK
    <3> QED BY <3>1, <2>3 DEF Backed, CountedVotesRelayed
  <2> QED BY <1>0, <2>2, <2>4 DEF Backed
<1>3. ASSUME NEW n \in Node, NEW t \in Tx, LockTransactionInputs(n, t) PROVE Backed'
  <2>1. relayed' = relayed /\ mapMasternodeVotes' = mapMasternodeVotes
    BY <1>3 DEF LockTransactionInputs
  <2>2. RelayedVotesRanked' /\ CountedVotesRelayed'
    BY <2>1 DEF Backed, RelayedVotesRanked, CountedVotesRelayed, Voters
  <2>3. ASSUME NEW p \in Inputs[t] PROVE Cardinality(Voters(t, p)) >= SIGNATURES_REQUIRED
    <3>1. p \in OutPoint OBVIOUS
    <3>2. mapMasternodeVotes[n][t][p] \subseteq Voters(t, p)
      BY <3>1 DEF Backed, CountedVotesRelayed
    <3>3. Cardinality(mapMasternodeVotes[n][t][p]) >= SIGNATURES_REQUIRED
      BY <1>3 DEF LockTransactionInputs, IsAllOutPointsReady
    <3>4. /\ IsFiniteSet(mapMasternodeVotes[n][t][p])
          /\ Cardinality(mapMasternodeVotes[n][t][p]) <= Cardinality(Voters(t, p))
      BY <3>1, <3>2, VotersFinite, FS_Subset
    <3>5. Cardinality(mapMasternodeVotes[n][t][p]) \in Nat BY <3>4, FS_CardinalityType
    <3> QED BY <3>1, <3>3, <3>4, <3>5, VotersFinite
  <2>4. LocksHaveVoters'
    <3> SUFFICES ASSUME NEW k \in Node, NEW o \in OutPoint, mapLockedOutpoints'[k][o] # NoTx
                 PROVE  /\ o \in Inputs[mapLockedOutpoints'[k][o]]
                        /\ \A p \in Inputs[mapLockedOutpoints'[k][o]] :
                              Cardinality(Voters(mapLockedOutpoints'[k][o], p))
                                 >= SIGNATURES_REQUIRED
        BY <2>1 DEF LocksHaveVoters, Voters
    <3>1. CASE k = n /\ o \in Inputs[t]
      <4>1. mapLockedOutpoints'[k][o] = t
        BY <3>1, <1>0, <1>3 DEF LockTransactionInputs, TypeOK
      <4> QED BY <4>1, <3>1, <2>3
    <3>2. CASE ~ (k = n /\ o \in Inputs[t])
      <4>1. mapLockedOutpoints'[k][o] = mapLockedOutpoints[k][o]
        BY <3>2, <1>0, <1>3 DEF LockTransactionInputs, TypeOK
      <4> QED BY <4>1 DEF Backed, LocksHaveVoters
    <3> QED BY <3>1, <3>2
  <2> QED BY <1>0, <2>2, <2>4 DEF Backed
<1>4. ASSUME NEW n \in Node, Restart(n) PROVE Backed'
  <2>1. relayed' = relayed BY <1>4 DEF Restart
  <2>2. RelayedVotesRanked' BY <2>1 DEF Backed, RelayedVotesRanked
  <2>3. CountedVotesRelayed'
    <3> SUFFICES ASSUME NEW k \in Node, NEW h \in Tx, NEW o \in OutPoint
                 PROVE  mapMasternodeVotes'[k][h][o] \subseteq Voters(h, o)
        BY <2>1 DEF CountedVotesRelayed, Voters
    <3>1. mapMasternodeVotes'[k][h][o] \in {{}, mapMasternodeVotes[k][h][o]}
      BY <1>0, <1>4 DEF Restart, TypeOK
    <3> QED BY <3>1 DEF Backed, CountedVotesRelayed
  <2>4. LocksHaveVoters'
    <3> SUFFICES ASSUME NEW k \in Node, NEW o \in OutPoint, mapLockedOutpoints'[k][o] # NoTx
                 PROVE  /\ o \in Inputs[mapLockedOutpoints'[k][o]]
                        /\ \A p \in Inputs[mapLockedOutpoints'[k][o]] :
                              Cardinality(Voters(mapLockedOutpoints'[k][o], p))
                                 >= SIGNATURES_REQUIRED
        BY <2>1 DEF LocksHaveVoters, Voters
    <3>1. mapLockedOutpoints'[k][o] \in {NoTx, mapLockedOutpoints[k][o]}
      BY <1>0, <1>4 DEF Restart, TypeOK
    <3> QED BY <3>1 DEF Backed, LocksHaveVoters
  <2> QED BY <1>0, <2>2, <2>3, <2>4 DEF Backed
<1>5. CASE UNCHANGED vars
  BY <1>5, <1>0 DEF vars, Backed, RelayedVotesRanked, CountedVotesRelayed, LocksHaveVoters, Voters
<1> QED BY <1>1, <1>2, <1>3, <1>4, <1>5 DEF Next

\* For any number of restarts, a completed lock stands on SIGNATURES_REQUIRED votes that
\* masternodes of the outpoint's quorum relayed, on every input of the holder.
THEOREM LocksStandOnRelayedVotes == Spec => []LockedByRelayedVotes
<1>1. Init => Backed BY InitRecorded DEF Recorded
<1>2. Backed => LockedByRelayedVotes
  BY DEF Backed, LocksHaveVoters, LockedByRelayedVotes, Voters
<1> QED BY <1>1, <1>2, BackedStep, PTL DEF Spec

-----------------------------------------------------------------------------

\* Every action preserves that masternodes that have not restarted know their own votes.
LEMMA RecordedStep == Recorded /\ [Next]_vars => Recorded'
<1> SUFFICES ASSUME Recorded, [Next]_vars PROVE Recorded' OBVIOUS
<1> USE NetAssumption
<1>0. Backed /\ Backed' /\ TypeOK /\ TypeOK' BY BackedStep DEF Recorded, Backed
<1>1. ASSUME NEW n \in Node, NEW t \in Tx, ProcessTxLockRequest(n, t) PROVE Recorded'
  <2> DEFINE own == OutpointsToVote(n, t)
  <2>0. restarted' = restarted BY <1>1 DEF ProcessTxLockRequest
  <2>1. \A v \in relayed' : v \in relayed
           \/ (v.mn = n /\ v.tx = t /\ v.outpoint \in own)
    BY <1>1 DEF ProcessTxLockRequest
  <2>2. n \notin restarted => \A o \in own : \A v \in relayed : ~ (v.mn = n /\ v.outpoint = o)
    BY DEF Recorded, OwnVotesRecorded, OutpointsToVote
  <2>3. VoteOncePerOutpoint' BY <2>0, <2>1, <2>2 DEF Recorded, VoteOncePerOutpoint
  <2>4. own \subseteq OutPoint BY DEF OutpointsToVote
  <2>5. OwnVotesRecorded'
    <3> SUFFICES ASSUME NEW v \in relayed', v.mn \notin restarted
                 PROVE  /\ v.mn \in mapMasternodeVotes'[v.mn][v.tx][v.outpoint]
                        /\ v.tx \in mapVotedOutpoints'[v.mn][v.outpoint]
        BY <2>0 DEF OwnVotesRecorded
    <3>0. v.tx \in Tx /\ v.outpoint \in OutPoint /\ v.mn \in MN /\ v.mn \in Node
      BY <1>0 DEF TypeOK, Vote
    <3>1. CASE v \in relayed
      <4>1. /\ mapMasternodeVotes[v.mn][v.tx][v.outpoint]
                 \subseteq mapMasternodeVotes'[v.mn][v.tx][v.outpoint]
            /\ mapVotedOutpoints[v.mn][v.outpoint] \subseteq mapVotedOutpoints'[v.mn][v.outpoint]
        BY <1>0, <1>1, <3>0 DEF ProcessTxLockRequest, TypeOK
      <4> QED BY <4>1, <3>1 DEF Recorded, OwnVotesRecorded
    <3>2. CASE v.mn = n /\ v.tx = t /\ v.outpoint \in own
      BY <1>0, <1>1, <3>0, <3>2, <2>4 DEF ProcessTxLockRequest, TypeOK
    <3> QED BY <2>1, <3>1, <3>2
  <2> QED BY <1>0, <2>3, <2>5 DEF Recorded
<1>2. ASSUME NEW n \in Node, NEW w \in relayed, ProcessTxLockVote(n, w) PROVE Recorded'
  <2>1. relayed' = relayed /\ restarted' = restarted BY <1>2 DEF ProcessTxLockVote
  <2>2. VoteOncePerOutpoint' BY <2>1 DEF Recorded, VoteOncePerOutpoint
  <2>3. w.tx \in Tx /\ w.outpoint \in OutPoint /\ w.mn \in MN BY <1>0 DEF TypeOK, Vote
  <2>4. OwnVotesRecorded'
    <3> SUFFICES ASSUME NEW v \in relayed, v.mn \notin restarted
                 PROVE  /\ v.mn \in mapMasternodeVotes'[v.mn][v.tx][v.outpoint]
                        /\ v.tx \in mapVotedOutpoints'[v.mn][v.outpoint]
        BY <2>1 DEF OwnVotesRecorded
    <3>1. v.tx \in Tx /\ v.outpoint \in OutPoint /\ v.mn \in MN /\ v.mn \in Node
      BY <1>0 DEF TypeOK, Vote
    <3>2. mapMasternodeVotes[v.mn][v.tx][v.outpoint]
             \subseteq mapMasternodeVotes'[v.mn][v.tx][v.outpoint]
      BY <1>0, <1>2, <2>3, <3>1 DEF ProcessTxLockVote, TypeOK
    <3>3. v.tx \in mapVotedOutpoints[v.mn][v.outpoint] BY DEF Recorded, OwnVotesRecorded
    <3>4. v.tx \in mapVotedOutpoints'[v.mn][v.outpoint]
      BY <1>0, <1>2, <2>3, <3>1, <3>3 DEF ProcessTxLockVote, TypeOK
    <3> QED BY <3>2, <3>4 DEF Recorded, OwnVotesRecorded
  <2> QED BY <1>0, <2>2, <2>4 DEF Recorded
<1>3. ASSUME NEW n \in Node, NEW t \in Tx, LockTransactionInputs(n, t) PROVE Recorded'
  BY <1>3, <1>0 DEF LockTransactionInputs, Recorded, OwnVotesRecorded, VoteOncePerOutpoint
<1>4. ASSUME NEW n \in Node, Restart(n) PROVE Recorded'
  <2>1. relayed' = relayed /\ restarted' = restarted \cup {n} BY <1>4 DEF Restart
  <2>2. VoteOncePerOutpoint' BY <2>1 DEF Recorded, VoteOncePerOutpoint
  <2>3. OwnVotesRecorded'
    <3> SUFFICES ASSUME NEW v \in relayed, v.mn \notin restarted, v.mn # n
                 PROVE  /\ v.mn \in mapMasternodeVotes'[v.mn][v.tx][v.outpoint]
                        /\ v.tx \in mapVotedOutpoints'[v.mn][v.outpoint]
        BY <2>1 DEF OwnVotesRecorded
    <3>1. v.mn \in Node BY <1>0 DEF TypeOK, Vote
    <3>2. /\ mapMasternodeVotes'[v.mn] = mapMasternodeVotes[v.mn]
          /\ mapVotedOutpoints'[v.mn] = mapVotedOutpoints[v.mn]
      BY <1>0, <1>4, <3>1 DEF Restart, TypeOK
    <3> QED BY <3>2 DEF Recorded, OwnVotesRecorded
  <2> QED BY <1>0, <2>2, <2>3 DEF Recorded
<1>5. CASE UNCHANGED vars
  BY <1>5, <1>0 DEF vars, Recorded, OwnVotesRecorded, VoteOncePerOutpoint
<1> QED BY <1>1, <1>2, <1>3, <1>4, <1>5 DEF Next

\* For any number of restarts: a masternode that has not restarted never relays votes for two
\* transactions on one outpoint (Vote() finds its earlier vote in mapVotedOutpoints).
THEOREM MasternodesVoteOnce == Spec => []VoteOncePerOutpoint
<1>1. Recorded => VoteOncePerOutpoint BY DEF Recorded
<1> QED BY <1>1, RecordedStep, InitRecorded, PTL DEF Spec

\* Two quorums of an outpoint with overlapping quorums share a masternode that has not restarted.
LEMMA QuorumsIntersect ==
    ASSUME NEW o \in OutPoint, NEW S \in SUBSET Ranked[o], NEW T \in SUBSET Ranked[o],
           QuorumsOverlap(o),
           Cardinality(S) >= SIGNATURES_REQUIRED, Cardinality(T) >= SIGNATURES_REQUIRED
    PROVE  \E m \in S \cap T : m \notin restarted
<1> DEFINE R == Ranked[o] \cap restarted
<1>1. IsFiniteSet(Ranked[o]) BY NetAssumption, FS_Subset
<1>2. IsFiniteSet(S) /\ IsFiniteSet(T) /\ IsFiniteSet(R) /\ IsFiniteSet(S \cap T)
  BY <1>1, FS_Subset
<1>3. Cardinality(S \cup T) = Cardinality(S) + Cardinality(T) - Cardinality(S \cap T)
  BY <1>2, FS_Union
<1>4. S \cup T \subseteq Ranked[o] OBVIOUS
<1>5. Cardinality(S \cup T) <= Cardinality(Ranked[o]) BY <1>1, <1>4, FS_Subset
<1>6. /\ Cardinality(S) \in Nat /\ Cardinality(T) \in Nat /\ Cardinality(Ranked[o]) \in Nat
      /\ Cardinality(R) \in Nat /\ Cardinality(S \cap T) \in Nat
      BY <1>1, <1>2, FS_CardinalityType
<1>7. Cardinality(S \cap T) > Cardinality(R)
  BY <1>3, <1>5, <1>6, NetAssumption DEF QuorumsOverlap
<1>8. SUFFICES ASSUME \A m \in S \cap T : m \in restarted PROVE FALSE OBVIOUS
<1>9. S \cap T \subseteq R BY <1>8
<1>10. Cardinality(S \cap T) <= Cardinality(R) BY <1>2, <1>9, FS_Subset
<1> QED BY <1>6, <1>7, <1>10

\* For any network, any order of delivery and any restarts: where the quorums of an outpoint
\* overlap in a masternode that has not restarted, no two nodes ever hold completed locks of
\* different transactions on it.  The code's 10 of 20 never overlap in this sense.
THEOREM NodesAgree == Spec => []OverlappingQuorumsAgree
<1>1. Recorded => OverlappingQuorumsAgree
  <2> SUFFICES ASSUME Recorded, NEW n \in Node, NEW k \in Node, NEW o \in OutPoint,
                      QuorumsOverlap(o),
                      mapLockedOutpoints[n][o] # NoTx, mapLockedOutpoints[k][o] # NoTx
               PROVE  mapLockedOutpoints[n][o] = mapLockedOutpoints[k][o]
      BY DEF OverlappingQuorumsAgree
  <2> DEFINE t == mapLockedOutpoints[n][o]
             u == mapLockedOutpoints[k][o]
  <2>1. /\ Cardinality(Voters(t, o)) >= SIGNATURES_REQUIRED
        /\ Cardinality(Voters(u, o)) >= SIGNATURES_REQUIRED
    BY DEF Recorded, Backed, LocksHaveVoters
  <2>2. Voters(t, o) \subseteq Ranked[o] /\ Voters(u, o) \subseteq Ranked[o] BY DEF Voters
  <2>3. \E m \in Voters(t, o) \cap Voters(u, o) : m \notin restarted
    BY <2>1, <2>2, QuorumsIntersect
  <2>4. PICK m : /\ [tx |-> t, outpoint |-> o, mn |-> m] \in relayed
                 /\ [tx |-> u, outpoint |-> o, mn |-> m] \in relayed
                 /\ m \notin restarted
    BY <2>3 DEF Voters
  <2> QED BY <2>4 DEF Recorded, VoteOncePerOutpoint
<1> QED BY <1>1, RecordedStep, InitRecorded, PTL DEF Spec
=============================================================================
