------------------------- MODULE InstantSend_proofs -------------------------
(***************************************************************************)
(* Proofs about InstantSend, for any transactions, masternodes, quorums    *)
(* and bounds.                                                             *)
(*                                                                         *)
(* The invariant is inductive by what is known of the handlers under way   *)
(* (Handlers): a replay is for a candidate that respects all locks, and    *)
(* once its conflicts were removed from the mempool none comes back before *)
(* its inputs are locked.                                                  *)
(***************************************************************************)
EXTENDS InstantSend, FiniteSetTheorems, SequenceTheorems, TLAPS

Block == Tx \cup {NoTx}

\* A replay holds a candidate; the blocks it undid fit on the chain again.
Replay ==
    /\ resolve.tx = NoTx <=> resolve.stage = "none"
    /\ resolve.tx = NoTx => resolve.undone = << >>
    /\ Len(chain) + Len(resolve.undone) <= MaxHeight

Handlers ==
    /\ resolve.tx # NoTx => resolve.tx \in mapTxLockCandidates /\ RespectsLocks(resolve.tx)
    /\ resolve.stage = "activate" => Conflicts(resolve.tx, mempool) = {}

\* The transactions recorded for an outpoint are candidates that spend it.
VotedSpend ==
    \A o \in OutPoint : \A t \in mapVotedOutpoints[o] : t \in mapTxLockCandidates /\ o \in Inputs[t]

VotesRanked == \A t \in Tx, o \in OutPoint : mapMasternodeVotes[t][o] \subseteq Ranked[o]

TypeInv == TypeOK /\ Replay
IInv == TypeInv /\ Handlers /\ VotedSpend /\ VotesRanked /\ LocksBackedByQuorums
        /\ MempoolRespectsLocks

-----------------------------------------------------------------------------
(* Types of what the operators assign. *)

\* The fields of a vote.
LEMMA VoteType ==
    ASSUME NEW v \in LockVote
    PROVE  v.tx \in Tx /\ v.outpoint \in OutPoint /\ v.mn \in MN /\ v.outpoint \in Inputs[v.tx]
BY TxAssumption DEF LockVote

\* The greater of two numbers is one of them.
LEMMA MaxOfTwo ==
    ASSUME NEW a \in Int, NEW b \in Int
    PROVE  Max({a, b}) \in {a, b} /\ Max({a, b}) >= a /\ Max({a, b}) >= b
<1>1. \E x \in {a, b} : \A y \in {a, b} : x >= y
  <2>1. CASE a >= b BY <2>1
  <2>2. CASE b >= a BY <2>2
  <2> QED BY <2>1, <2>2
<1> QED BY <1>1 DEF Max

\* SyncTransaction() changes heights and enters orphan votes in mapTxLockVotes.
LEMMA SyncType ==
    ASSUME TypeOK, NEW T, NEW h \in [Tx -> Heights], SyncTransaction(T, h)
    PROVE  /\ candidateHeight' \in [Tx -> Heights]
           /\ voteHeight' \in [LockVote -> Heights]
           /\ mapTxLockVotes' \subseteq LockVote
           /\ UNCHANGED <<mapTxLockCandidates, mapMasternodeVotes>>
<1>1. UNCHANGED <<mapTxLockCandidates, mapMasternodeVotes>> BY DEF SyncTransaction
<1>2. candidateHeight' \in [Tx -> Heights] BY DEF SyncTransaction, TypeOK
<1>3. voteHeight' \in [LockVote -> Heights]
  <2>1. ASSUME NEW v \in LockVote PROVE h[v.tx] \in Heights BY VoteType
  <2> QED BY <2>1 DEF SyncTransaction, TypeOK
<1>4. mapTxLockVotes' \subseteq LockVote BY DEF SyncTransaction, TypeOK
<1> QED BY <1>1, <1>2, <1>3, <1>4

\* ConnectTip() makes the chain longer by one block and only takes from the mempool.
LEMMA ConnectTipType ==
    ASSUME TypeOK, NEW b \in Block, Len(chain) < MaxHeight, ConnectTip(b)
    PROVE  /\ chain' \in Seq(Block) /\ Len(chain') = Len(chain) + 1
           /\ mempool' \subseteq mempool
           /\ candidateHeight' \in [Tx -> Heights]
           /\ voteHeight' \in [LockVote -> Heights]
           /\ mapTxLockVotes' \subseteq LockVote
           /\ UNCHANGED <<mapTxLockCandidates, mapMasternodeVotes>>
<1> DEFINE gone == IF b = NoTx THEN {} ELSE Conflicts(b, mempool)
           h == [t \in Tx |-> IF t = b THEN Len(chain) + 1 ELSE -1]
<1>1. chain \in Seq(Block) BY DEF TypeOK, Block
<1>2. chain' = Append(chain, b) BY DEF ConnectTip
<1>3. chain' \in Seq(Block) /\ Len(chain') = Len(chain) + 1 BY <1>1, <1>2, AppendProperties
<1>4. mempool' \subseteq mempool BY DEF ConnectTip
<1>5. SyncTransaction((gone \cup {b}) \ {NoTx}, h) BY DEF ConnectTip
<1>6. Len(chain) + 1 \in Heights
  BY <1>1, NumberAssumption, LenProperties DEF Heights
<1>7. h \in [Tx -> Heights] BY <1>6, NumberAssumption DEF Heights
<1> HIDE DEF h
<1>8. /\ candidateHeight' \in [Tx -> Heights]
      /\ voteHeight' \in [LockVote -> Heights]
      /\ mapTxLockVotes' \subseteq LockVote
      /\ UNCHANGED <<mapTxLockCandidates, mapMasternodeVotes>>
  BY <1>5, <1>7, SyncType
<1> QED BY <1>3, <1>4, <1>8

\* A chain without its tip.
LEMMA WithoutLast ==
    ASSUME NEW S, NEW s \in Seq(S), s # << >>
    PROVE  /\ SubSeq(s, 1, Len(s) - 1) \in Seq(S)
           /\ Len(SubSeq(s, 1, Len(s) - 1)) = Len(s) - 1
           /\ s[Len(s)] \in S
<1>1. Len(s) \in Nat \ {0} BY EmptySeq
<1>2. \A i \in 1..Len(s) : s[i] \in S BY ElementOfSeq
<1> DEFINE n == Len(s) - 1
<1>3. n \in Int /\ (\A i \in 1..n : s[i] \in S) BY <1>1, <1>2
<1> HIDE DEF n
<1>4. SubSeq(s, 1, n) \in Seq(S) /\ Len(SubSeq(s, 1, n)) = IF 1 <= n THEN n - 1 + 1 ELSE 0
  BY <1>3, SubSeqProperties
<1>5. n \in Nat BY <1>1 DEF n
<1>6. SubSeq(s, 1, n) \in Seq(S) /\ Len(SubSeq(s, 1, n)) = n BY <1>4, <1>5
<1>7. s[Len(s)] \in S BY <1>1, <1>2
<1> QED BY <1>6, <1>7, Zenon DEF n

\* DisconnectTip() makes the chain shorter by one block; what it adds to the mempool was
\* accepted there.
LEMMA DisconnectTipType ==
    ASSUME TypeOK, chain # << >>, DisconnectTip
    PROVE  /\ chain' \in Seq(Block) /\ Len(chain') = Len(chain) - 1
           /\ chain[Len(chain)] \in Block
           /\ mempool' \subseteq Tx
           /\ \A x \in mempool' \ mempool : RespectsLocks(x)
           /\ candidateHeight' \in [Tx -> Heights]
           /\ voteHeight' \in [LockVote -> Heights]
           /\ mapTxLockVotes' \subseteq LockVote
           /\ UNCHANGED <<mapTxLockCandidates, mapMasternodeVotes>>
<1> DEFINE b == chain[Len(chain)]
           h == [t \in Tx |-> -1]
<1>1. chain \in Seq(Block) BY DEF TypeOK, Block
<1>3. chain' = SubSeq(chain, 1, Len(chain) - 1) BY DEF DisconnectTip
<1>4. b \in Block BY <1>1, WithoutLast
<1>5. chain' \in Seq(Block) /\ Len(chain') = Len(chain) - 1 BY <1>1, <1>3, WithoutLast
<1>6. mempool' \subseteq Tx /\ \A x \in mempool' \ mempool : RespectsLocks(x)
  BY <1>4 DEF DisconnectTip, TypeOK, Block, AcceptToMemoryPool
<1>7. SyncTransaction({b} \ {NoTx}, h) BY DEF DisconnectTip
<1>8. h \in [Tx -> Heights] BY NumberAssumption DEF Heights
<1> HIDE DEF h
<1>9. /\ candidateHeight' \in [Tx -> Heights]
      /\ voteHeight' \in [LockVote -> Heights]
      /\ mapTxLockVotes' \subseteq LockVote
      /\ UNCHANGED <<mapTxLockCandidates, mapMasternodeVotes>>
  BY <1>7, <1>8, SyncType
<1> QED BY <1>4, <1>5, <1>6, <1>9

\* A replay begins, or continues, only with a block to disconnect.
LEMMA ReplayHasBlocks ==
    ASSUME TypeOK, NEW t \in Tx, NeedsReplay(t)
    PROVE  chain # << >>
<1>1. chain \in Seq(Block) BY DEF TypeOK, Block
<1>2. PICK i \in 1..Len(chain) : TRUE BY DEF NeedsReplay, SpentIn
<1> QED BY <1>1, <1>2, EmptySeq

\* ResolveConflicts() and LockTransactionInputs() in one step.
LEMMA ResolveAndLockType ==
    ASSUME TypeOK, NEW t \in Tx, NEW votes, NEW seen \in SUBSET LockVote,
           ResolveAndLock(t, votes, seen)
    PROVE  /\ mapLockedOutpoints' \in [OutPoint -> Tx \cup {NoTx}]
           /\ mempool' \subseteq Tx
           /\ mapTxLockVotes' \subseteq LockVote
           /\ resolve' \in {resolve, [tx |-> t, stage |-> "disconnect", undone |-> << >>]}
<1>1. mempool' \subseteq Tx
  BY DEF ResolveAndLock, TypeOK, Reaccepted
<1>2. mapTxLockVotes' \subseteq LockVote
  BY DEF ResolveAndLock, TypeOK, SeenAfter
<1>3. mapLockedOutpoints' \in [OutPoint -> Tx \cup {NoTx}]
  <2>1. LockTransactionInputs(t, votes) => mapLockedOutpoints' \in [OutPoint -> Tx \cup {NoTx}]
    BY DEF LockTransactionInputs, TypeOK
  <2> QED BY <2>1 DEF ResolveAndLock, TypeOK
<1>4. resolve' \in {resolve, [tx |-> t, stage |-> "disconnect", undone |-> << >>]}
  BY DEF ResolveAndLock
<1> QED BY <1>1, <1>2, <1>3, <1>4

\* A vote counted keeps the types of the maps.
LEMMA CountVoteType ==
    ASSUME TypeOK, NEW v \in LockVote, NEW seen \in SUBSET LockVote, CountVote(v, seen)
    PROVE  /\ mapVotedOutpoints' \in [OutPoint -> SUBSET Tx]
           /\ mapMasternodeVotes' \in [Tx -> [OutPoint -> SUBSET MN]]
           /\ UNCHANGED <<mapTxLockCandidates, candidateHeight>>
           /\ mapLockedOutpoints' \in [OutPoint -> Tx \cup {NoTx}]
           /\ mempool' \subseteq Tx
           /\ mapTxLockVotes' \subseteq LockVote
           /\ resolve' \in {resolve, [tx |-> v.tx, stage |-> "disconnect", undone |-> << >>]}
<1> DEFINE votes == [mapMasternodeVotes EXCEPT ![v.tx][v.outpoint] = @ \cup {v.mn}]
<1>1. v.tx \in Tx /\ v.outpoint \in OutPoint /\ v.mn \in MN BY VoteType
<1>2. mapVotedOutpoints' \in [OutPoint -> SUBSET Tx] BY <1>1 DEF CountVote, TypeOK
<1>3. mapMasternodeVotes' \in [Tx -> [OutPoint -> SUBSET MN]]
  BY <1>1 DEF CountVote, TypeOK
<1>4. UNCHANGED <<mapTxLockCandidates, candidateHeight>> BY DEF CountVote
<1>5. CASE VoteCounts(v) /\ IsAllOutPointsReady(v.tx, votes)
  <2>1. ResolveAndLock(v.tx, votes, seen) BY <1>5 DEF CountVote
  <2> HIDE DEF votes
  <2> QED BY <1>1, <1>2, <1>3, <1>4, <2>1, ResolveAndLockType
<1>6. CASE ~ (VoteCounts(v) /\ IsAllOutPointsReady(v.tx, votes))
  <2>1. mapTxLockVotes' = seen /\ UNCHANGED <<mapLockedOutpoints, mempool, resolve>>
    BY <1>6 DEF CountVote
  <2> QED BY <1>2, <1>3, <1>4, <2>1 DEF TypeOK
<1> QED BY <1>5, <1>6

\* A request that starts keeps the types of the maps.
LEMMA StartRequestType ==
    ASSUME TypeOK, NEW t \in LockRequests, NEW orphans \in SUBSET LockVote,
           NEW seen \in SUBSET LockVote, NEW origin \in {"message", "wallet", "vote"},
           StartRequest(t, orphans, seen, origin)
    PROVE  /\ mapTxLockCandidates' = mapTxLockCandidates \cup {t}
           /\ mapMasternodeVotes' \in [Tx -> [OutPoint -> SUBSET MN]]
           /\ mapVotedOutpoints' \in [OutPoint -> SUBSET Tx]
           /\ mapTxLockVotes' \subseteq LockVote
           /\ signed' \subseteq LockVote
           /\ request' = [tx |-> t, todo |-> orphans, origin |-> origin]
           /\ UNCHANGED <<candidateHeight, voteHeight>>
<1>1. t \in Tx /\ Inputs[t] \subseteq OutPoint BY TxAssumption
<1>2. \A o \in OutpointsToVote(t) : o \in Inputs[t] /\ SELF \in MN
  BY DEF OutpointsToVote, TypeOK
<1>3. {[tx |-> t, outpoint |-> o, mn |-> SELF] : o \in OutpointsToVote(t)} \subseteq LockVote
  BY <1>1, <1>2 DEF LockVote
<1>4. mapMasternodeVotes' \in [Tx -> [OutPoint -> SUBSET MN]]
  BY <1>1, <1>2 DEF StartRequest, TypeOK
<1>5. mapVotedOutpoints' \in [OutPoint -> SUBSET Tx]
  BY <1>1 DEF StartRequest, TypeOK
<1>6. mapTxLockVotes' \subseteq LockVote /\ signed' \subseteq LockVote
  BY <1>3 DEF StartRequest, TypeOK
<1> QED BY <1>4, <1>5, <1>6 DEF StartRequest

\* RefreshOrphanRate() keeps the times of mapMasternodeOrphanVotes within their bound.
LEMMA RefreshType ==
    ASSUME TypeOK, NEW m \in MN, RefreshOrphanRate(m)
    PROVE  mapMasternodeOrphanVotes' \in [MN -> 0..(MaxTime + OrphanRateSeconds)]
<1>1. now + OrphanRateSeconds \in 0..(MaxTime + OrphanRateSeconds)
  BY NumberAssumption DEF TypeOK
<1> QED BY <1>1 DEF RefreshOrphanRate, TypeOK

\* A resolve record that starts a replay.
LEMMA StartedReplay ==
    ASSUME TypeInv, NEW t \in Tx, UNCHANGED chain,
           resolve' \in {resolve, [tx |-> t, stage |-> "disconnect", undone |-> << >>]}
    PROVE  /\ resolve' \in [tx : Block, stage : {"none", "disconnect", "activate"},
                            undone : Seq(Block)]
           /\ Replay'
<1>1. CASE resolve' = resolve
  BY <1>1 DEF TypeInv, TypeOK, Replay, Block
<1>2. CASE resolve' = [tx |-> t, stage |-> "disconnect", undone |-> << >>]
  <2>1. << >> \in Seq(Block) /\ Len(<< >>) = 0 BY EmptySeq
  <2>2. chain \in Seq(Block) /\ resolve.undone \in Seq(Block) BY DEF TypeInv, TypeOK, Block
  <2>3. Len(chain) \in Nat /\ Len(resolve.undone) \in Nat BY <2>2, LenProperties
  <2>4. Len(chain) + 0 <= MaxHeight BY <2>3, NumberAssumption DEF TypeInv, Replay
  <2>5. /\ resolve'.tx = t /\ resolve'.stage = "disconnect" /\ resolve'.undone = << >>
        /\ resolve' \in [tx : Block, stage : {"none", "disconnect", "activate"},
                         undone : Seq(Block)]
    BY <1>2, <2>1 DEF Block
  <2>6. t # NoTx BY TxAssumption
  <2> QED BY <2>1, <2>4, <2>5, <2>6 DEF Replay
<1> QED BY <1>1, <1>2

-----------------------------------------------------------------------------
(* Every action preserves the types and the shape of a replay. *)

\* The initial state satisfies the invariant.
LEMMA InitIInv == Init => IInv
<1> SUFFICES ASSUME Init PROVE IInv OBVIOUS
<1> USE TxAssumption, MasternodeAssumption, NumberAssumption
<1>1. << >> \in Seq(Block) /\ Len(<< >>) = 0 BY EmptySeq
<1>2. TypeOK BY <1>1 DEF Init, TypeOK, Block, Heights, NoRequest, NoResolve
<1>3. Replay BY <1>1 DEF Init, Replay, NoResolve
<1>4. Handlers BY DEF Init, Handlers, NoResolve
<1>5. VotedSpend /\ VotesRanked BY DEF Init, VotedSpend, VotesRanked
<1>6. LocksBackedByQuorums /\ MempoolRespectsLocks
  BY DEF Init, LocksBackedByQuorums, MempoolRespectsLocks
<1> QED BY <1>2, <1>3, <1>4, <1>5, <1>6 DEF IInv, TypeInv

\* A request, from the network or the wallet.
LEMMA RequestType ==
    ASSUME TypeInv, NEW t \in Tx, TXLOCKREQUEST(t) \/ WalletRequest(t)
    PROVE  TypeInv'
<1> USE DEF TypeInv
<1> USE DEF candVars, orphanVars, reqVars, chainVars, tipVars, envVars
<1>1. CASE TXLOCKREQUEST(t)
  <2>1. t \in LockRequests BY <1>1 DEF TXLOCKREQUEST, RequestPasses, RequestIsValid
  <2>2. StartRequest(t, mapTxLockVotesOrphan, mapTxLockVotes, "message")
    BY <1>1 DEF TXLOCKREQUEST
  <2>3. mapTxLockVotesOrphan \in SUBSET LockVote /\ mapTxLockVotes \in SUBSET LockVote
    BY DEF TypeOK
  <2>4. /\ mapTxLockCandidates' = mapTxLockCandidates \cup {t}
        /\ mapMasternodeVotes' \in [Tx -> [OutPoint -> SUBSET MN]]
        /\ mapVotedOutpoints' \in [OutPoint -> SUBSET Tx]
        /\ mapTxLockVotes' \subseteq LockVote /\ signed' \subseteq LockVote
        /\ request' = [tx |-> t, todo |-> mapTxLockVotesOrphan, origin |-> "message"]
        /\ UNCHANGED <<candidateHeight, voteHeight>>
    BY <2>1, <2>2, <2>3, StartRequestType
  <2>5. TypeOK' BY <1>1, <2>3, <2>4 DEF TXLOCKREQUEST, TypeOK
  <2>6. Replay' BY <1>1 DEF TXLOCKREQUEST, Replay
  <2> QED BY <2>5, <2>6
<1>2. CASE WalletRequest(t)
  <2> DEFINE seen == SeenAfter(t, mapTxLockVotes, t \notin mempool)
  <2>1. seen \in SUBSET LockVote /\ mapTxLockVotesOrphan \in SUBSET LockVote
    BY DEF TypeOK, SeenAfter
  <2>2. /\ mempool' \subseteq Tx
        /\ UNCHANGED <<orphanVars, reqVars, chainVars, tipVars, envVars, mapLockedOutpoints,
                       resolve, accepting>>
    BY <1>2 DEF WalletRequest, TypeOK
  <2>3. Replay' BY <2>2 DEF Replay
  <2>4. CASE RequestPasses(t, mapTxLockVotesOrphan)
    <3>1. t \in LockRequests BY <2>4 DEF RequestPasses, RequestIsValid
    <3>2. StartRequest(t, mapTxLockVotesOrphan, seen, "wallet")
      BY <1>2, <2>4 DEF WalletRequest
    <3> HIDE DEF seen
    <3>3. /\ mapTxLockCandidates' = mapTxLockCandidates \cup {t}
          /\ mapMasternodeVotes' \in [Tx -> [OutPoint -> SUBSET MN]]
          /\ mapVotedOutpoints' \in [OutPoint -> SUBSET Tx]
          /\ mapTxLockVotes' \subseteq LockVote /\ signed' \subseteq LockVote
          /\ request' = [tx |-> t, todo |-> mapTxLockVotesOrphan, origin |-> "wallet"]
          /\ UNCHANGED <<candidateHeight, voteHeight>>
      BY <2>1, <3>1, <3>2, StartRequestType
    <3>4. TypeOK' BY <2>1, <2>2, <3>3 DEF TypeOK
    <3> QED BY <2>3, <3>4
  <2>5. CASE ~ RequestPasses(t, mapTxLockVotesOrphan)
    <3>1. /\ mapTxLockVotes' = seen
          /\ UNCHANGED <<candVars, voteHeight, mapVotedOutpoints, signed, request>>
      BY <1>2, <2>5 DEF WalletRequest
    <3> HIDE DEF seen
    <3>2. TypeOK' BY <2>1, <2>2, <3>1 DEF TypeOK
    <3> QED BY <2>3, <3>2
  <2> QED BY <2>4, <2>5
<1> QED BY <1>1, <1>2

\* One orphan vote, and the end of a request.
LEMMA HandlerType ==
    ASSUME TypeInv,
           (\E v \in LockVote : ProcessOrphanTxLockVote(v)) \/ FinishRequest
    PROVE  TypeInv'
<1> USE DEF TypeInv
<1> USE DEF candVars, orphanVars, reqVars, chainVars, tipVars, envVars
<1>1. ASSUME NEW v \in LockVote, ProcessOrphanTxLockVote(v) PROVE TypeInv'
  <2>0. v.tx \in Tx /\ v.mn \in MN BY VoteType
  <2>1. /\ request' \in [tx : Tx \cup {NoTx}, todo : SUBSET LockVote,
                         origin : {"none", "message", "wallet", "vote"}]
        /\ UNCHANGED <<voteHeight, reqVars, chainVars, tipVars, envVars, signed, accepting>>
    BY <1>1 DEF ProcessOrphanTxLockVote, TypeOK
  <2>2. mapTxLockVotesOrphan' \subseteq LockVote /\ voteTime' \in [LockVote -> 0..MaxTime]
    BY <1>1, NumberAssumption DEF ProcessOrphanTxLockVote, TypeOK
  <2>3. mapMasternodeOrphanVotes' \in [MN -> 0..(MaxTime + OrphanRateSeconds)]
    BY <1>1, <2>0, RefreshType DEF ProcessOrphanTxLockVote, TypeOK
  <2>4. CASE CountVote(v, mapTxLockVotes)
    <3>1. mapTxLockVotes \in SUBSET LockVote BY DEF TypeOK
    <3>2. /\ mapVotedOutpoints' \in [OutPoint -> SUBSET Tx]
          /\ mapMasternodeVotes' \in [Tx -> [OutPoint -> SUBSET MN]]
          /\ UNCHANGED <<mapTxLockCandidates, candidateHeight>>
          /\ mapLockedOutpoints' \in [OutPoint -> Tx \cup {NoTx}]
          /\ mempool' \subseteq Tx /\ mapTxLockVotes' \subseteq LockVote
          /\ resolve' \in {resolve, [tx |-> v.tx, stage |-> "disconnect", undone |-> << >>]}
      BY <2>4, <3>1, CountVoteType
    <3>3. /\ resolve' \in [tx : Block, stage : {"none", "disconnect", "activate"},
                           undone : Seq(Block)]
          /\ Replay'
      BY <2>0, <2>1, <3>2, StartedReplay
    <3>4. TypeOK' BY <2>1, <2>2, <2>3, <3>2, <3>3 DEF TypeOK, Block
    <3> QED BY <3>3, <3>4
  <2>5. CASE ~ CountVote(v, mapTxLockVotes)
    <3>1. UNCHANGED <<candVars, mapTxLockVotes, mapVotedOutpoints, mapLockedOutpoints, mempool,
                      resolve>>
      BY <1>1, <2>5 DEF ProcessOrphanTxLockVote
    <3>2. TypeOK' BY <2>1, <2>2, <2>3, <3>1 DEF TypeOK
    <3>3. Replay' BY <2>1, <3>1 DEF Replay
    <3> QED BY <3>2, <3>3
  <2> QED BY <2>4, <2>5
<1>2. ASSUME FinishRequest PROVE TypeInv'
  <2>1. /\ UNCHANGED <<candVars, voteHeight, orphanVars, reqVars, chainVars, tipVars, envVars,
                       mapVotedOutpoints, signed>>
        /\ request' = NoRequest /\ request.tx # NoTx
        /\ accepting' \in {accepting, request.tx}
    BY <1>2 DEF FinishRequest
  <2>2. request.tx \in Tx /\ mapTxLockVotes \in SUBSET LockVote BY <2>1 DEF TypeOK
  <2>3. /\ mapLockedOutpoints' \in [OutPoint -> Tx \cup {NoTx}]
        /\ mempool' \subseteq Tx /\ mapTxLockVotes' \subseteq LockVote
        /\ resolve' \in {resolve, [tx |-> request.tx, stage |-> "disconnect", undone |-> << >>]}
    <3>1. CASE IsInstantSendReadyToLock(request.tx)
      <4>1. ResolveAndLock(request.tx, mapMasternodeVotes, mapTxLockVotes)
        BY <1>2, <3>1 DEF FinishRequest
      <4> QED BY <2>2, <4>1, ResolveAndLockType
    <3>2. CASE ~ IsInstantSendReadyToLock(request.tx)
      BY <1>2, <3>2 DEF FinishRequest, TypeOK
    <3> QED BY <3>1, <3>2
  <2>4. /\ resolve' \in [tx : Block, stage : {"none", "disconnect", "activate"},
                         undone : Seq(Block)]
        /\ Replay'
    BY <2>1, <2>2, <2>3, StartedReplay
  <2>5. TypeOK' BY <2>1, <2>2, <2>3, <2>4 DEF TypeOK, Block, NoRequest
  <2> QED BY <2>4, <2>5
<1> QED BY <1>1, <1>2

\* The second half of TXLOCKREQUEST, other transactions, and votes.
LEMMA MessageType ==
    ASSUME TypeInv,
           \/ AcceptLockRequest
           \/ \E t \in Tx : AcceptTx(t)
           \/ \E v \in LockVote : TXLOCKVOTE(v)
    PROVE  TypeInv'
<1> USE DEF TypeInv
<1> USE DEF candVars, seenVars, orphanVars, reqVars, chainVars, tipVars, envVars
<1> DEFINE h == [x \in Tx |-> -1]
<1>0. h \in [Tx -> Heights] BY NumberAssumption DEF Heights
<1>1. ASSUME AcceptLockRequest PROVE TypeInv'
  <2>1. accepting \in Tx BY <1>1 DEF AcceptLockRequest, TypeOK
  <2>2. /\ UNCHANGED <<orphanVars, chainVars, tipVars, envVars, mapVotedOutpoints,
                       mapLockedOutpoints, signed, request, resolve>>
        /\ accepting' = NoTx
    BY <1>1 DEF AcceptLockRequest
  <2>3. /\ mempool' \subseteq Tx
        /\ mapLockRequestAccepted' \subseteq Tx /\ mapLockRequestRejected' \subseteq Tx
    BY <1>1, <2>1 DEF AcceptLockRequest, TypeOK
  <2>4. SyncTransaction({accepting}, h) \/ UNCHANGED <<candVars, seenVars>>
    BY <1>1 DEF AcceptLockRequest
  <2> HIDE DEF h
  <2>5. /\ candidateHeight' \in [Tx -> Heights]
        /\ voteHeight' \in [LockVote -> Heights]
        /\ mapTxLockVotes' \subseteq LockVote
        /\ UNCHANGED <<mapTxLockCandidates, mapMasternodeVotes>>
    <3>1. CASE SyncTransaction({accepting}, h) BY <1>0, <3>1, SyncType
    <3>2. CASE UNCHANGED <<candVars, seenVars>> BY <3>2 DEF TypeOK
    <3> QED BY <2>4, <3>1, <3>2
  <2>6. TypeOK' BY <2>2, <2>3, <2>5 DEF TypeOK
  <2>7. Replay' BY <2>2 DEF Replay
  <2> QED BY <2>6, <2>7
<1>2. ASSUME NEW t \in Tx, AcceptTx(t) PROVE TypeInv'
  <2>1. SyncTransaction({t}, h) BY <1>2 DEF AcceptTx
  <2> HIDE DEF h
  <2>2. /\ candidateHeight' \in [Tx -> Heights]
        /\ voteHeight' \in [LockVote -> Heights]
        /\ mapTxLockVotes' \subseteq LockVote
        /\ UNCHANGED <<mapTxLockCandidates, mapMasternodeVotes>>
    BY <1>0, <2>1, SyncType
  <2>3. TypeOK' BY <1>2, <2>2 DEF AcceptTx, TypeOK
  <2>4. Replay' BY <1>2 DEF AcceptTx, Replay
  <2> QED BY <2>3, <2>4
<1>3. ASSUME NEW v \in LockVote, TXLOCKVOTE(v) PROVE TypeInv'
  <2>0. v.tx \in Tx /\ v.mn \in MN /\ mapTxLockVotes \cup {v} \in SUBSET LockVote
    BY VoteType DEF TypeOK
  <2>1. UNCHANGED <<reqVars, chainVars, tipVars, envVars, accepting>> BY <1>3 DEF TXLOCKVOTE
  <2>2. CASE ~ VoteIsValid(v)
    <3>1. /\ mapTxLockVotes' = mapTxLockVotes \cup {v}
          /\ UNCHANGED <<candVars, voteHeight, orphanVars, mapVotedOutpoints,
                         mapLockedOutpoints, mempool, signed, request, resolve>>
      BY <1>3, <2>2 DEF TXLOCKVOTE, OrphanVote
    <3>2. TypeOK' BY <2>0, <2>1, <3>1 DEF TypeOK
    <3>3. Replay' BY <2>1, <3>1 DEF Replay
    <3> QED BY <3>2, <3>3
  <2>3. CASE VoteIsValid(v) /\ v.tx \in mapTxLockCandidates
    <3>1. CountVote(v, mapTxLockVotes \cup {v})
          /\ UNCHANGED <<voteHeight, orphanVars, signed, request>>
      BY <1>3, <2>3 DEF TXLOCKVOTE, OrphanVote
    <3>2. /\ mapVotedOutpoints' \in [OutPoint -> SUBSET Tx]
          /\ mapMasternodeVotes' \in [Tx -> [OutPoint -> SUBSET MN]]
          /\ UNCHANGED <<mapTxLockCandidates, candidateHeight>>
          /\ mapLockedOutpoints' \in [OutPoint -> Tx \cup {NoTx}]
          /\ mempool' \subseteq Tx /\ mapTxLockVotes' \subseteq LockVote
          /\ resolve' \in {resolve, [tx |-> v.tx, stage |-> "disconnect", undone |-> << >>]}
      BY <2>0, <3>1, CountVoteType
    <3>3. /\ resolve' \in [tx : Block, stage : {"none", "disconnect", "activate"},
                           undone : Seq(Block)]
          /\ Replay'
      BY <2>0, <2>1, <3>2, StartedReplay
    <3>4. TypeOK' BY <2>1, <3>1, <3>2, <3>3 DEF TypeOK, Block
    <3> QED BY <3>3, <3>4
  <2>4. CASE OrphanVote(v)
    <3> DEFINE orphans == mapTxLockVotesOrphan \cup {v}
    <3>1. /\ mapTxLockVotesOrphan' = orphans /\ orphans \in SUBSET LockVote
          /\ voteTime' \in [LockVote -> 0..MaxTime]
          /\ UNCHANGED <<mapLockedOutpoints, mempool, resolve>>
      BY <2>4 DEF OrphanVote, TypeOK
    <3>2. mapMasternodeOrphanVotes' \in [MN -> 0..(MaxTime + OrphanRateSeconds)]
      BY <2>0, <2>4, RefreshType DEF OrphanVote, TypeOK
    <3>3. Replay' BY <2>1, <3>1 DEF Replay
    <3>4. CASE RequestPasses(v.tx, orphans)
               /\ StartRequest(v.tx, orphans, mapTxLockVotes \cup {v}, "vote")
      <4>1. v.tx \in LockRequests BY <3>4 DEF RequestPasses, RequestIsValid
      <4> HIDE DEF orphans
      <4>2. /\ mapTxLockCandidates' = mapTxLockCandidates \cup {v.tx}
            /\ mapMasternodeVotes' \in [Tx -> [OutPoint -> SUBSET MN]]
            /\ mapVotedOutpoints' \in [OutPoint -> SUBSET Tx]
            /\ mapTxLockVotes' \subseteq LockVote /\ signed' \subseteq LockVote
            /\ request' = [tx |-> v.tx, todo |-> orphans, origin |-> "vote"]
            /\ UNCHANGED <<candidateHeight, voteHeight>>
        BY <2>0, <3>1, <3>4, <4>1, StartRequestType
      <4>3. TypeOK' BY <2>0, <2>1, <3>1, <3>2, <4>2 DEF TypeOK
      <4> QED BY <3>3, <4>3
    <3>5. CASE /\ mapTxLockVotes' = mapTxLockVotes \cup {v}
               /\ UNCHANGED <<candVars, voteHeight, mapVotedOutpoints, signed, request>>
      <4> HIDE DEF orphans
      <4>1. TypeOK' BY <2>0, <2>1, <3>1, <3>2, <3>5 DEF TypeOK
      <4> QED BY <3>3, <4>1
    <3> QED BY <2>4, <3>4, <3>5 DEF OrphanVote
  <2> QED BY <1>3, <2>2, <2>3, <2>4 DEF TXLOCKVOTE
<1> QED BY <1>1, <1>2, <1>3

\* The steps of a replay.
LEMMA ReplayType ==
    ASSUME TypeInv, ResolveDisconnect \/ ResolveRecheck \/ ResolveActivate \/ ResolveLock
    PROVE  TypeInv'
<1> USE DEF TypeInv
<1> USE DEF candVars, seenVars, orphanVars, reqVars, chainVars, tipVars, envVars
<1>0. /\ resolve.stage # "none" /\ resolve.tx \in Tx /\ resolve.tx # NoTx
      /\ chain \in Seq(Block) /\ resolve.undone \in Seq(Block)
      /\ Len(chain) \in Nat /\ Len(resolve.undone) \in Nat
  <2>1. resolve.stage # "none"
    BY DEF ResolveDisconnect, ResolveRecheck, ResolveActivate, ResolveLock
  <2>2. chain \in Seq(Block) /\ resolve.undone \in Seq(Block) BY DEF TypeOK, Block
  <2>3. resolve.tx \in Tx /\ resolve.tx # NoTx BY <2>1 DEF TypeOK, Replay
  <2> QED BY <2>1, <2>2, <2>3, LenProperties
<1>1. CASE ResolveDisconnect
  <2> DEFINE b == chain[Len(chain)]
             undone == <<b>> \o resolve.undone
  <2>1. chain # << >> BY <1>0, <1>1, ReplayHasBlocks DEF ResolveDisconnect
  <2>2. DisconnectTip BY <1>1 DEF ResolveDisconnect
  <2>3. /\ chain' \in Seq(Block) /\ Len(chain') = Len(chain) - 1 /\ b \in Block
        /\ mempool' \subseteq Tx
        /\ candidateHeight' \in [Tx -> Heights] /\ voteHeight' \in [LockVote -> Heights]
        /\ mapTxLockVotes' \subseteq LockVote
        /\ UNCHANGED <<mapTxLockCandidates, mapMasternodeVotes>>
    BY <2>1, <2>2, DisconnectTipType
  <2>4. <<b>> \in Seq(Block) /\ Len(<<b>>) = 1 BY <2>3
  <2>5. undone \in Seq(Block) /\ Len(undone) = Len(resolve.undone) + 1
    BY <1>0, <2>4, ConcatProperties
  <2>6. resolve' = [resolve EXCEPT !.undone = undone] BY <1>1 DEF ResolveDisconnect
  <2> HIDE DEF undone
  <2>7. /\ resolve' \in [tx : Block, stage : {"none", "disconnect", "activate"},
                         undone : Seq(Block)]
        /\ resolve'.tx = resolve.tx /\ resolve'.stage = resolve.stage /\ resolve'.undone = undone
    BY <2>5, <2>6 DEF TypeOK, Block
  <2>8. Replay' BY <1>0, <2>3, <2>5, <2>7, NumberAssumption DEF Replay
  <2>9. TypeOK' BY <1>1, <2>3, <2>7 DEF ResolveDisconnect, TypeOK, Block
  <2> QED BY <2>8, <2>9
<1>2. CASE ResolveRecheck
  <2>1. /\ resolve' \in [tx : Block, stage : {"none", "disconnect", "activate"},
                         undone : Seq(Block)]
        /\ resolve'.tx = resolve.tx /\ resolve'.stage = "activate"
        /\ resolve'.undone = resolve.undone
    BY <1>2 DEF ResolveRecheck, TypeOK, Block
  <2>2. mempool' \subseteq Tx BY <1>0, <1>2 DEF ResolveRecheck, Reaccepted, TypeOK
  <2>3. mapTxLockVotes' \subseteq LockVote BY <1>2 DEF ResolveRecheck, SeenAfter, TypeOK
  <2>4. UNCHANGED <<candVars, voteHeight, orphanVars, reqVars, chainVars, tipVars, envVars,
                    mapVotedOutpoints, mapLockedOutpoints, signed, request, accepting>>
    BY <1>2 DEF ResolveRecheck
  <2>5. Replay' BY <1>0, <2>1, <2>4 DEF Replay
  <2>6. TypeOK' BY <2>1, <2>2, <2>3, <2>4 DEF TypeOK, Block
  <2> QED BY <2>5, <2>6
<1>3. CASE ResolveActivate
  <2> DEFINE b == Head(resolve.undone)
             rest == Tail(resolve.undone)
  <2>0. UNCHANGED <<orphanVars, reqVars, notify, envVars, mapVotedOutpoints, peak,
                    mapLockedOutpoints, signed, request, accepting>>
    BY <1>3 DEF ResolveActivate
  <2>1. b \in Block /\ rest \in Seq(Block) /\ Len(rest) = Len(resolve.undone) - 1
        /\ Len(resolve.undone) \in Nat \ {0}
    BY <1>0, <1>3, HeadTailProperties, EmptySeq DEF ResolveActivate
  <2>2. Len(chain) < MaxHeight BY <1>0, <2>1, NumberAssumption DEF Replay
  <2>3. CASE /\ ConnectTip(b) /\ pCurrentBlockIndex' = Len(chain) + 1
             /\ resolve' = [resolve EXCEPT !.undone = rest]
    <3> HIDE DEF rest, b
    <3>1. /\ chain' \in Seq(Block) /\ Len(chain') = Len(chain) + 1
          /\ mempool' \subseteq mempool
          /\ candidateHeight' \in [Tx -> Heights] /\ voteHeight' \in [LockVote -> Heights]
          /\ mapTxLockVotes' \subseteq LockVote
          /\ UNCHANGED <<mapTxLockCandidates, mapMasternodeVotes>>
      BY <2>1, <2>2, <2>3, ConnectTipType
    <3>2. /\ resolve' \in [tx : Block, stage : {"none", "disconnect", "activate"},
                           undone : Seq(Block)]
          /\ resolve'.tx = resolve.tx /\ resolve'.stage = resolve.stage /\ resolve'.undone = rest
      BY <2>1, <2>3 DEF TypeOK, Block
    <3>3. pCurrentBlockIndex' \in 0..MaxHeight BY <1>0, <2>2, <2>3, NumberAssumption
    <3>4. Replay' BY <1>0, <2>1, <3>1, <3>2, NumberAssumption DEF Replay
    <3>5. TypeOK' BY <2>0, <3>1, <3>2, <3>3 DEF TypeOK, Block
    <3> QED BY <3>4, <3>5
  <2>4. CASE /\ resolve' = [resolve EXCEPT !.undone = << >>]
             /\ UNCHANGED <<candVars, seenVars, mempool, chain, pCurrentBlockIndex>>
    <3>1. << >> \in Seq(Block) /\ Len(<< >>) = 0 BY EmptySeq
    <3>2. /\ resolve' \in [tx : Block, stage : {"none", "disconnect", "activate"},
                           undone : Seq(Block)]
          /\ resolve'.tx = resolve.tx /\ resolve'.stage = resolve.stage
          /\ resolve'.undone = << >>
      BY <2>4, <3>1 DEF TypeOK, Block
    <3>3. Replay' BY <1>0, <2>2, <2>4, <3>1, <3>2, NumberAssumption DEF Replay
    <3>4. TypeOK' BY <2>0, <2>4, <3>2 DEF TypeOK, Block
    <3> QED BY <3>3, <3>4
  <2> QED BY <1>3, <2>3, <2>4 DEF ResolveActivate
<1>4. CASE ResolveLock
  <2>1. mapLockedOutpoints' \in [OutPoint -> Tx \cup {NoTx}]
    BY <1>0, <1>4 DEF ResolveLock, LockTransactionInputs, TypeOK
  <2>2. << >> \in Seq(Block) /\ Len(<< >>) = 0 BY EmptySeq
  <2>3. /\ resolve' \in [tx : Block, stage : {"none", "disconnect", "activate"},
                         undone : Seq(Block)]
        /\ resolve'.tx = NoTx /\ resolve'.stage = "none" /\ resolve'.undone = << >>
    BY <1>4, <2>2 DEF ResolveLock, NoResolve, Block
  <2>4. Replay' BY <1>0, <1>4, <2>2, <2>3, NumberAssumption DEF ResolveLock, Replay
  <2>5. TypeOK' BY <1>4, <2>1, <2>3 DEF ResolveLock, TypeOK, Block
  <2> QED BY <2>4, <2>5
<1> QED BY <1>1, <1>2, <1>3, <1>4

\* Maintenance, blocks, and what the rest of the node does.
LEMMA MaintenanceType ==
    ASSUME TypeInv,
           \/ CheckAndRemove
           \/ \E b \in Tx \cup {NoTx} : ConnectBlock(b)
           \/ DisconnectBlock
    PROVE  TypeInv'
<1> USE DEF TypeInv
<1> USE DEF candVars, seenVars, orphanVars, reqVars, chainVars, tipVars, envVars
<1>0. /\ chain \in Seq(Block) /\ resolve.undone \in Seq(Block)
      /\ Len(chain) \in Nat /\ Len(resolve.undone) \in Nat
  <2>1. chain \in Seq(Block) /\ resolve.undone \in Seq(Block) BY DEF TypeOK, Block
  <2> QED BY <2>1, LenProperties
<1>1. CASE CheckAndRemove
  <2>1. Replay' BY <1>1 DEF CheckAndRemove, Replay
  <2> DEFINE dead == {t \in mapTxLockCandidates : IsExpired(candidateHeight[t])}
             late == {v \in mapTxLockVotesOrphan : now - voteTime[v] > ORPHAN_VOTE_SECONDS}
             forgotten == late \cup {v \in mapTxLockVotes : IsExpired(voteHeight[v])}
             freed == FreedOutpoints(dead)
  <2>0. /\ mapMasternodeVotes' = [t \in Tx |-> IF t \in dead THEN [o \in OutPoint |-> {}]
                                               ELSE mapMasternodeVotes[t]]
        /\ candidateHeight' = [t \in Tx |-> IF t \in dead THEN -1 ELSE candidateHeight[t]]
        /\ mapLockedOutpoints' = [o \in OutPoint |-> IF o \in freed THEN NoTx
                                                     ELSE mapLockedOutpoints[o]]
        /\ mapVotedOutpoints' = [o \in OutPoint |-> IF o \in freed THEN {}
                                                    ELSE mapVotedOutpoints[o]]
        /\ voteHeight' = [v \in LockVote |-> IF v \in forgotten THEN -1 ELSE voteHeight[v]]
        /\ voteTime' = [v \in LockVote |-> IF v \in late THEN 0 ELSE voteTime[v]]
        /\ mapMasternodeOrphanVotes' = [m \in MN |-> IF mapMasternodeOrphanVotes[m] < now
                                                     THEN 0 ELSE mapMasternodeOrphanVotes[m]]
    BY <1>1, Zenon DEF CheckAndRemove
  <2> HIDE DEF dead, late, forgotten, freed
  <2>2. mapMasternodeVotes' \in [Tx -> [OutPoint -> SUBSET MN]] BY <2>0 DEF TypeOK
  <2>3. candidateHeight' \in [Tx -> Heights] /\ voteHeight' \in [LockVote -> Heights]
    <3>1. -1 \in Heights BY NumberAssumption DEF Heights
    <3> QED BY <2>0, <3>1 DEF TypeOK
  <2>4. /\ mapLockedOutpoints' \in [OutPoint -> Tx \cup {NoTx}]
        /\ mapVotedOutpoints' \in [OutPoint -> SUBSET Tx]
    BY <2>0 DEF TypeOK
  <2>5. /\ voteTime' \in [LockVote -> 0..MaxTime]
        /\ mapMasternodeOrphanVotes' \in [MN -> 0..(MaxTime + OrphanRateSeconds)]
    BY <2>0, NumberAssumption DEF TypeOK
  <2>6. /\ mapTxLockCandidates' \subseteq mapTxLockCandidates
        /\ mapTxLockVotes' \subseteq mapTxLockVotes
        /\ mapTxLockVotesOrphan' \subseteq mapTxLockVotesOrphan
        /\ mapLockRequestAccepted' \subseteq mapLockRequestAccepted
        /\ mapLockRequestRejected' \subseteq mapLockRequestRejected
        /\ UNCHANGED <<chainVars, tipVars, envVars, signed, request, resolve, accepting,
                       mempool>>
    BY <1>1 DEF CheckAndRemove
  <2>7. TypeOK' BY <2>2, <2>3, <2>4, <2>5, <2>6 DEF TypeOK
  <2> QED BY <2>1, <2>7
<1>2. ASSUME NEW b \in Tx \cup {NoTx}, ConnectBlock(b) PROVE TypeInv'
  <2>1. /\ Len(chain) < MaxHeight /\ ConnectTip(b) /\ notify' = Len(chain) + 1
        /\ peak' = Max({peak, Len(chain) + 1}) /\ resolve.tx = NoTx
        /\ UNCHANGED <<orphanVars, reqVars, envVars, mapVotedOutpoints, pCurrentBlockIndex,
                       mapLockedOutpoints, signed, request, resolve, accepting>>
    BY <1>2 DEF ConnectBlock, Busy
  <2>2. /\ chain' \in Seq(Block) /\ Len(chain') = Len(chain) + 1
        /\ mempool' \subseteq mempool
        /\ candidateHeight' \in [Tx -> Heights] /\ voteHeight' \in [LockVote -> Heights]
        /\ mapTxLockVotes' \subseteq LockVote
        /\ UNCHANGED <<mapTxLockCandidates, mapMasternodeVotes>>
    BY <2>1, ConnectTipType DEF Block
  <2>3. notify' \in Heights BY <1>0, <2>1, NumberAssumption DEF Heights
  <2>4. peak' \in 0..MaxHeight
    <3>1. peak \in Int /\ Len(chain) + 1 \in Int BY <1>0 DEF TypeOK
    <3>2. peak' \in {peak, Len(chain) + 1} BY <2>1, <3>1, MaxOfTwo
    <3> QED BY <1>0, <2>1, <3>2, NumberAssumption DEF TypeOK
  <2>5. Replay'
    <3>1. resolve.undone = << >> /\ resolve.stage = "none" BY <2>1 DEF Replay
    <3>2. Len(chain') + Len(<< >>) <= MaxHeight
      BY <1>0, <2>1, <2>2, EmptySeq, NumberAssumption
    <3> QED BY <2>1, <3>1, <3>2 DEF Replay
  <2>6. TypeOK' BY <2>1, <2>2, <2>3, <2>4 DEF TypeOK, Block
  <2> QED BY <2>5, <2>6
<1>3. CASE DisconnectBlock
  <2>1. /\ chain # << >> /\ DisconnectTip
        /\ UNCHANGED <<orphanVars, reqVars, tipVars, envVars, mapVotedOutpoints, peak,
                       mapLockedOutpoints, signed, request, resolve, accepting>>
    BY <1>3 DEF DisconnectBlock
  <2>2. /\ chain' \in Seq(Block) /\ Len(chain') = Len(chain) - 1
        /\ mempool' \subseteq Tx
        /\ candidateHeight' \in [Tx -> Heights] /\ voteHeight' \in [LockVote -> Heights]
        /\ mapTxLockVotes' \subseteq LockVote
        /\ UNCHANGED <<mapTxLockCandidates, mapMasternodeVotes>>
    BY <2>1, DisconnectTipType
  <2>3. Replay' BY <1>0, <2>1, <2>2, NumberAssumption DEF Replay
  <2>4. TypeOK' BY <2>1, <2>2 DEF TypeOK, Block
  <2> QED BY <2>3, <2>4
<1> QED BY <1>1, <1>2, <1>3

\* What the rest of the node does leaves CInstantSend, the chain and the mempool alone.
LEMMA EnvironmentType ==
    ASSUME TypeInv,
           \/ UpdatedBlockTip
           \/ \E m \in MN \ StableMN : UpdateMasternodeList(m)
           \/ \E f \in Toggles : Toggle(f)
           \/ Tick
           \/ UNCHANGED vars
    PROVE  /\ TypeInv'
           /\ UNCHANGED <<candVars, mapVotedOutpoints, mapLockedOutpoints, resolve, mempool>>
<1> USE DEF TypeInv
<1> USE DEF candVars, seenVars, orphanVars, reqVars, chainVars, tipVars, envVars
<1>1. CASE UpdatedBlockTip
  <2>1. pCurrentBlockIndex' \in 0..MaxHeight /\ notify' \in Heights
    BY <1>1, NumberAssumption DEF UpdatedBlockTip, TypeOK, Heights
  <2>2. TypeOK' BY <1>1, <2>1 DEF UpdatedBlockTip, TypeOK
  <2> QED BY <1>1, <2>2 DEF UpdatedBlockTip, Replay
<1>2. ASSUME NEW m \in MN \ StableMN, UpdateMasternodeList(m)
      PROVE  /\ TypeInv'
             /\ UNCHANGED <<candVars, mapVotedOutpoints, mapLockedOutpoints, resolve, mempool>>
  <2>1. knownMN' \subseteq MN BY <1>2 DEF UpdateMasternodeList, TypeOK
  <2>2. UNCHANGED <<flags, now>> /\ UNCHANGED_CInstantSend BY <1>2 DEF UpdateMasternodeList
  <2>3. TypeOK' BY <2>1, <2>2 DEF UNCHANGED_CInstantSend, TypeOK
  <2> QED BY <2>2, <2>3 DEF UNCHANGED_CInstantSend, Replay
<1>3. ASSUME NEW f \in Toggles, Toggle(f)
      PROVE  /\ TypeInv'
             /\ UNCHANGED <<candVars, mapVotedOutpoints, mapLockedOutpoints, resolve, mempool>>
  <2>1. flags' \subseteq {"spork2", "largework"}
    BY <1>3, NumberAssumption DEF Toggle, TypeOK
  <2>2. UNCHANGED <<knownMN, now>> /\ UNCHANGED_CInstantSend BY <1>3 DEF Toggle
  <2>3. TypeOK' BY <2>1, <2>2 DEF UNCHANGED_CInstantSend, TypeOK
  <2> QED BY <2>2, <2>3 DEF UNCHANGED_CInstantSend, Replay
<1>4. CASE Tick
  <2>1. now' \in 0..MaxTime BY <1>4, NumberAssumption DEF Tick, TypeOK
  <2>2. UNCHANGED <<knownMN, flags>> /\ UNCHANGED_CInstantSend BY <1>4 DEF Tick
  <2>3. TypeOK' BY <2>1, <2>2 DEF UNCHANGED_CInstantSend, TypeOK
  <2> QED BY <2>2, <2>3 DEF UNCHANGED_CInstantSend, Replay
<1>5. CASE UNCHANGED vars
  BY <1>5 DEF vars, TypeOK, Replay
<1> QED BY <1>1, <1>2, <1>3, <1>4, <1>5

\* Every step keeps the types and the shape of a replay.
LEMMA TypeStep == TypeInv /\ [Next]_vars => TypeInv'
BY RequestType, HandlerType, MessageType, ReplayType, MaintenanceType, EnvironmentType
   DEF Next, HandlerStep

\* CInstantSend's maps, the handlers under way, the chain and the mempool have their types in
\* every reachable state (TypeOK), for any transactions, masternodes and bounds.
THEOREM TypeCorrect == Spec => []TypeOK
<1>1. Init => TypeInv BY InitIInv DEF IInv
<1>2. TypeInv => TypeOK BY DEF TypeInv
<1> QED BY <1>1, <1>2, TypeStep, PTL DEF Spec

-----------------------------------------------------------------------------
(* What a step other than CheckAndRemove does to candidates, votes, locks and mempool. *)

Gains ==
    /\ mapTxLockCandidates \subseteq mapTxLockCandidates'
    /\ \A t \in Tx, o \in OutPoint : mapMasternodeVotes[t][o] \subseteq mapMasternodeVotes'[t][o]

\* The inputs of t are locked if it has all its votes; nothing in the mempool conflicts.
Acquires(t) ==
    /\ t \in mapTxLockCandidates /\ RespectsLocks(t)
    /\ LockTransactionInputs(t, mapMasternodeVotes')
    /\ Conflicts(t, mempool') = {}

Locks == UNCHANGED mapLockedOutpoints \/ \E t \in Tx : Acquires(t)

Admits == \A x \in mempool' \ mempool : RespectsLocks(x)

Growing == Gains /\ Locks /\ Admits /\ Handlers' /\ VotedSpend' /\ VotesRanked'

\* Without a replay under way nothing is claimed of it.
LEMMA NoReplayHandlers ==
    ASSUME Replay, resolve.tx = NoTx, UNCHANGED resolve
    PROVE  Handlers'
BY DEF Replay, Handlers

\* ResolveConflicts() for a candidate: its inputs are locked with no conflict left in the
\* mempool, or a replay starts.
LEMMA ResolveAndLockStep ==
    ASSUME TypeInv, NEW t \in Tx, NEW votes, NEW seen, t \in mapTxLockCandidates, resolve.tx = NoTx,
           votes = mapMasternodeVotes', UNCHANGED mapTxLockCandidates,
           ResolveAndLock(t, votes, seen)
    PROVE  Locks /\ Admits /\ Handlers'
<1> USE DEF TypeInv
<1>1. CASE ~ RespectsLocks(t)
  BY <1>1, NoReplayHandlers DEF ResolveAndLock, Locks, Admits, NeedsReplay
<1>2. CASE RespectsLocks(t) /\ MempoolSpends(t) # {}
  <2>1. /\ mempool' = Reaccepted(t) /\ UNCHANGED resolve
        /\ IF t \in mempool' \ mempool THEN LockTransactionInputs(t, votes)
                                       ELSE UNCHANGED mapLockedOutpoints
    BY <1>2 DEF ResolveAndLock, NeedsReplay
  <2>2. Conflicts(t, mempool') = {} /\ mempool' \ mempool \subseteq {t}
    BY <2>1 DEF Reaccepted, Conflicts
  <2>3. Locks BY <1>2, <2>1, <2>2 DEF Locks, Acquires
  <2>4. Admits BY <1>2, <2>2 DEF Admits
  <2> QED BY <2>1, <2>3, <2>4, NoReplayHandlers
<1>3. CASE RespectsLocks(t) /\ MempoolSpends(t) = {} /\ ~ NeedsReplay(t)
  <2>1. LockTransactionInputs(t, votes) /\ UNCHANGED <<mempool, resolve>>
    BY <1>3 DEF ResolveAndLock
  <2>2. Conflicts(t, mempool') = {} BY <1>3, <2>1 DEF Conflicts, MempoolSpends
  <2>3. Locks /\ Admits BY <1>3, <2>1, <2>2 DEF Locks, Acquires, Admits
  <2> QED BY <2>1, <2>3, NoReplayHandlers
<1>4. CASE NeedsReplay(t)
  <2>1. /\ resolve' = [tx |-> t, stage |-> "disconnect", undone |-> << >>]
        /\ UNCHANGED <<mapLockedOutpoints, mempool>>
    BY <1>4 DEF ResolveAndLock, NeedsReplay
  <2>2. Locks /\ Admits BY <2>1 DEF Locks, Admits
  <2>3. RespectsLocks(t)' BY <1>4, <2>1 DEF NeedsReplay, RespectsLocks
  <2>4. resolve'.tx = t /\ resolve'.stage # "activate" BY <2>1
  <2> QED BY <2>2, <2>3, <2>4 DEF Handlers
<1> QED BY <1>1, <1>2, <1>3, <1>4

\* A valid vote of a candidate.
LEMMA CountVoteStep ==
    ASSUME IInv, NEW v \in LockVote, NEW seen, VoteIsValid(v), v.tx \in mapTxLockCandidates,
           resolve.tx = NoTx, CountVote(v, seen)
    PROVE  Growing
<1> USE DEF IInv, TypeInv
<1> DEFINE votes == [mapMasternodeVotes EXCEPT ![v.tx][v.outpoint] = @ \cup {v.mn}]
<1>1. v.tx \in Tx /\ v.outpoint \in OutPoint /\ v.mn \in MN /\ v.outpoint \in Inputs[v.tx]
  BY VoteType
<1>2. UNCHANGED mapTxLockCandidates /\ mapMasternodeVotes' \in {votes, mapMasternodeVotes}
  BY DEF CountVote
<1>0. mapMasternodeVotes \in [Tx -> [OutPoint -> SUBSET MN]] BY DEF TypeOK
<1>3. ASSUME NEW u \in Tx, NEW o \in OutPoint
      PROVE  \/ mapMasternodeVotes'[u][o] = mapMasternodeVotes[u][o]
             \/ /\ u = v.tx /\ o = v.outpoint
                /\ mapMasternodeVotes'[u][o] = mapMasternodeVotes[u][o] \cup {v.mn}
  <2>1. CASE mapMasternodeVotes' = mapMasternodeVotes BY <2>1
  <2>2. CASE mapMasternodeVotes' = votes
    <3>1. mapMasternodeVotes'[u] = IF u = v.tx
              THEN [mapMasternodeVotes[u] EXCEPT ![v.outpoint] = @ \cup {v.mn}]
              ELSE mapMasternodeVotes[u]
      BY <1>0, <1>1, <2>2
    <3>2. mapMasternodeVotes[u] \in [OutPoint -> SUBSET MN] BY <1>0
    <3> QED BY <1>1, <3>1, <3>2
  <2> QED BY <1>2, <2>1, <2>2
<1>7. Gains BY <1>2, <1>3 DEF Gains
<1>4. VotesRanked'
  <2>1. v.mn \in Ranked[v.outpoint] BY DEF VoteIsValid
  <2>2. ASSUME NEW u \in Tx, NEW o \in OutPoint PROVE mapMasternodeVotes'[u][o] \subseteq Ranked[o]
    <3>1. mapMasternodeVotes[u][o] \subseteq Ranked[o] BY DEF VotesRanked
    <3> QED BY <1>3, <2>1, <3>1
  <2> QED BY <2>2 DEF VotesRanked
<1>5. VotedSpend' BY <1>1, <1>2 DEF CountVote, VotedSpend, TypeOK
<1>6. Locks /\ Admits /\ Handlers'
  <2>1. CASE VoteCounts(v) /\ IsAllOutPointsReady(v.tx, votes)
    <3>1. ResolveAndLock(v.tx, votes, seen) /\ votes = mapMasternodeVotes'
      BY <2>1 DEF CountVote
    <3> HIDE DEF votes
    <3> QED BY <1>1, <1>2, <3>1, ResolveAndLockStep
  <2>2. CASE ~ (VoteCounts(v) /\ IsAllOutPointsReady(v.tx, votes))
    <3>1. UNCHANGED <<mapLockedOutpoints, mempool, resolve>> BY <2>2 DEF CountVote
    <3> QED BY <3>1, NoReplayHandlers DEF Locks, Admits
  <2> QED BY <2>1, <2>2
<1> QED BY <1>4, <1>5, <1>6, <1>7 DEF Growing

\* A request that starts: the candidate is created and this masternode votes.
LEMMA StartRequestStep ==
    ASSUME IInv, NEW t \in LockRequests, NEW orphans, NEW seen, NEW origin,
           StartRequest(t, orphans, seen, origin)
    PROVE  Gains /\ VotedSpend' /\ VotesRanked'
<1> USE DEF IInv, TypeInv
<1>1. t \in Tx /\ Inputs[t] \subseteq OutPoint BY TxAssumption
<1>2. \A o \in OutpointsToVote(t) : o \in Inputs[t] /\ SELF \in Ranked[o]
  BY DEF OutpointsToVote
<1>3. mapMasternodeVotes' = [mapMasternodeVotes EXCEPT ![t] =
          [o \in OutPoint |-> IF o \in OutpointsToVote(t) THEN @[o] \cup {SELF} ELSE @[o]]]
  BY DEF StartRequest
<1>4. mapTxLockCandidates' = mapTxLockCandidates \cup {t} BY DEF StartRequest
<1>5. Gains BY <1>1, <1>3, <1>4 DEF Gains, TypeOK
<1>6. VotesRanked' BY <1>1, <1>2, <1>3 DEF VotesRanked, TypeOK
<1>7. VotedSpend' BY <1>1, <1>2, <1>4 DEF VotedSpend, StartRequest, TypeOK
<1> QED BY <1>5, <1>6, <1>7

\* A step that leaves candidates, votes and locks alone.
LEMMA QuietStep ==
    ASSUME IInv, Admits, Handlers',
           UNCHANGED <<mapTxLockCandidates, mapMasternodeVotes, mapVotedOutpoints,
                       mapLockedOutpoints>>
    PROVE  Growing
BY DEF IInv, Growing, Gains, Locks, VotedSpend, VotesRanked

\* SyncTransaction() is such a step for candidates and votes.
LEMMA SyncQuiet ==
    ASSUME NEW T, NEW h, SyncTransaction(T, h)
    PROVE  UNCHANGED <<mapTxLockCandidates, mapMasternodeVotes>>
BY DEF SyncTransaction

\* Requests only add a candidate and this masternode's votes.
LEMMA RequestStep ==
    ASSUME IInv, NEW t \in Tx, TXLOCKREQUEST(t) \/ WalletRequest(t)
    PROVE  Growing
<1> USE DEF IInv, TypeInv
<1> USE DEF candVars, orphanVars, reqVars, chainVars, tipVars, envVars
<1>1. resolve.tx = NoTx BY DEF TXLOCKREQUEST, WalletRequest, Busy
<1>2. UNCHANGED <<resolve, mapLockedOutpoints>> BY DEF TXLOCKREQUEST, WalletRequest
<1>3. Handlers' BY <1>1, <1>2, NoReplayHandlers
<1>4. CASE TXLOCKREQUEST(t)
  <2>1. t \in LockRequests BY <1>4 DEF TXLOCKREQUEST, RequestPasses, RequestIsValid
  <2>2. StartRequest(t, mapTxLockVotesOrphan, mapTxLockVotes, "message") /\ UNCHANGED mempool
    BY <1>4 DEF TXLOCKREQUEST
  <2>3. Gains /\ VotedSpend' /\ VotesRanked' BY <2>1, <2>2, StartRequestStep
  <2> QED BY <1>2, <1>3, <2>2, <2>3 DEF Growing, Locks, Admits
<1>5. CASE WalletRequest(t)
  <2>1. Admits BY <1>5 DEF WalletRequest, Admits, AcceptToMemoryPool
  <2>2. CASE RequestPasses(t, mapTxLockVotesOrphan)
    <3> DEFINE seen == SeenAfter(t, mapTxLockVotes, t \notin mempool)
    <3>1. t \in LockRequests BY <2>2 DEF RequestPasses, RequestIsValid
    <3>2. StartRequest(t, mapTxLockVotesOrphan, seen, "wallet") BY <1>5, <2>2 DEF WalletRequest
    <3> HIDE DEF seen
    <3>3. Gains /\ VotedSpend' /\ VotesRanked' BY <3>1, <3>2, StartRequestStep
    <3> QED BY <1>2, <1>3, <2>1, <3>3 DEF Growing, Locks
  <2>3. CASE ~ RequestPasses(t, mapTxLockVotesOrphan)
    <3>1. UNCHANGED <<mapTxLockCandidates, mapMasternodeVotes, mapVotedOutpoints>>
      BY <1>5, <2>3 DEF WalletRequest
    <3> QED BY <1>2, <1>3, <2>1, <3>1, QuietStep
  <2> QED BY <2>2, <2>3
<1> QED BY <1>4, <1>5

\* Votes, orphans that are processed, and the end of a request.
LEMMA VoteStep ==
    ASSUME IInv,
           \/ \E v \in LockVote : TXLOCKVOTE(v) \/ ProcessOrphanTxLockVote(v)
           \/ FinishRequest
    PROVE  Growing
<1> USE DEF IInv, TypeInv
<1> USE DEF candVars, orphanVars, reqVars, chainVars, tipVars, envVars
<1>1. resolve.tx = NoTx BY DEF TXLOCKVOTE, ProcessOrphanTxLockVote, FinishRequest, Busy
<1>2. ASSUME NEW v \in LockVote, TXLOCKVOTE(v) PROVE Growing
  <2>1. CASE CountVote(v, mapTxLockVotes \cup {v}) /\ VoteIsValid(v) /\ v.tx \in mapTxLockCandidates
    BY <1>1, <2>1, CountVoteStep
  <2>2. CASE OrphanVote(v)
    <3> DEFINE orphans == mapTxLockVotesOrphan \cup {v}
    <3>1. UNCHANGED <<mapLockedOutpoints, mempool, resolve>> BY <2>2 DEF OrphanVote
    <3>2. Handlers' /\ Admits /\ Locks BY <1>1, <3>1, NoReplayHandlers DEF Admits, Locks
    <3>3. CASE RequestPasses(v.tx, orphans)
               /\ StartRequest(v.tx, orphans, mapTxLockVotes \cup {v}, "vote")
      <4>1. v.tx \in LockRequests BY <3>3 DEF RequestPasses, RequestIsValid
      <4> HIDE DEF orphans
      <4>2. Gains /\ VotedSpend' /\ VotesRanked' BY <3>3, <4>1, StartRequestStep
      <4> QED BY <3>2, <4>2 DEF Growing
    <3>4. CASE UNCHANGED <<candVars, mapVotedOutpoints>>
      BY <3>1, <3>2, <3>4, QuietStep
    <3> QED BY <2>2, <3>3, <3>4 DEF OrphanVote
  <2>3. CASE UNCHANGED <<candVars, mapVotedOutpoints, mapLockedOutpoints, mempool, resolve>>
    BY <1>1, <2>3, NoReplayHandlers, QuietStep DEF Admits
  <2> QED BY <1>2, <2>1, <2>2, <2>3 DEF TXLOCKVOTE
<1>3. ASSUME NEW v \in LockVote, ProcessOrphanTxLockVote(v) PROVE Growing
  <2>1. CASE CountVote(v, mapTxLockVotes) /\ VoteIsValid(v) /\ v.tx \in mapTxLockCandidates
    BY <1>1, <2>1, CountVoteStep
  <2>2. CASE UNCHANGED <<candVars, mapVotedOutpoints, mapLockedOutpoints, mempool, resolve>>
    BY <1>1, <2>2, NoReplayHandlers, QuietStep DEF Admits
  <2> QED BY <1>3, <2>1, <2>2 DEF ProcessOrphanTxLockVote
<1>4. ASSUME FinishRequest PROVE Growing
  <2>1. UNCHANGED <<candVars, mapVotedOutpoints>> /\ request.tx \in Tx
    BY <1>4 DEF FinishRequest, TypeOK
  <2>2. Locks /\ Admits /\ Handlers'
    <3>1. CASE IsInstantSendReadyToLock(request.tx)
      <4>1. /\ ResolveAndLock(request.tx, mapMasternodeVotes, mapTxLockVotes)
            /\ request.tx \in mapTxLockCandidates
        BY <1>4, <3>1 DEF FinishRequest, IsInstantSendReadyToLock
      <4> QED BY <1>1, <2>1, <4>1, ResolveAndLockStep
    <3>2. CASE ~ IsInstantSendReadyToLock(request.tx)
      <4>1. UNCHANGED <<mapLockedOutpoints, mempool, resolve>> BY <1>4, <3>2 DEF FinishRequest
      <4> QED BY <1>1, <4>1, NoReplayHandlers DEF Locks, Admits
    <3> QED BY <3>1, <3>2
  <2>3. Gains /\ VotedSpend' /\ VotesRanked' BY <2>1 DEF Gains, VotedSpend, VotesRanked
  <2> QED BY <2>2, <2>3 DEF Growing
<1> QED BY <1>2, <1>3, <1>4

\* Transactions and blocks outside a replay.
LEMMA ChainStep ==
    ASSUME IInv,
           \/ AcceptLockRequest
           \/ \E t \in Tx : AcceptTx(t)
           \/ \E b \in Tx \cup {NoTx} : ConnectBlock(b)
           \/ DisconnectBlock
    PROVE  Growing
<1> USE DEF IInv, TypeInv
<1> USE DEF candVars, seenVars, orphanVars, reqVars, chainVars, tipVars, envVars
<1>1. resolve.tx = NoTx /\ UNCHANGED <<resolve, mapVotedOutpoints, mapLockedOutpoints>>
  BY DEF AcceptLockRequest, AcceptTx, ConnectBlock, DisconnectBlock, Busy
<1>2. Handlers' BY <1>1, NoReplayHandlers
<1>3. CASE AcceptLockRequest
  <2>1. Admits BY <1>3 DEF AcceptLockRequest, Admits, AcceptToMemoryPool
  <2>2. UNCHANGED <<mapTxLockCandidates, mapMasternodeVotes>>
    BY <1>3, SyncQuiet DEF AcceptLockRequest
  <2> QED BY <1>1, <1>2, <2>1, <2>2, QuietStep
<1>4. ASSUME NEW t \in Tx, AcceptTx(t) PROVE Growing
  <2>1. Admits BY <1>4 DEF AcceptTx, Admits, AcceptToMemoryPool
  <2>2. UNCHANGED <<mapTxLockCandidates, mapMasternodeVotes>> BY <1>4, SyncQuiet DEF AcceptTx
  <2> QED BY <1>1, <1>2, <2>1, <2>2, QuietStep
<1>5. ASSUME NEW b \in Tx \cup {NoTx}, ConnectBlock(b) PROVE Growing
  <2>1. Len(chain) < MaxHeight /\ ConnectTip(b) BY <1>5 DEF ConnectBlock
  <2>2. mempool' \subseteq mempool /\ UNCHANGED <<mapTxLockCandidates, mapMasternodeVotes>>
    BY <2>1, ConnectTipType DEF Block
  <2> QED BY <1>1, <1>2, <2>2, QuietStep DEF Admits
<1>6. CASE DisconnectBlock
  <2>1. chain # << >> /\ DisconnectTip BY <1>6 DEF DisconnectBlock
  <2>2. /\ \A x \in mempool' \ mempool : RespectsLocks(x)
        /\ UNCHANGED <<mapTxLockCandidates, mapMasternodeVotes>>
    BY <2>1, DisconnectTipType
  <2> QED BY <1>1, <1>2, <2>2, QuietStep DEF Admits
<1> QED BY <1>3, <1>4, <1>5, <1>6

\* The steps of a replay: the conflicts are out of the mempool before blocks are connected
\* again, and connecting blocks adds nothing to it.
LEMMA ReplayStep ==
    ASSUME IInv, ResolveDisconnect \/ ResolveRecheck \/ ResolveActivate \/ ResolveLock
    PROVE  Growing
<1> USE DEF IInv, TypeInv
<1> USE DEF candVars, seenVars, orphanVars, reqVars, chainVars, tipVars, envVars
<1>0. /\ resolve.tx \in Tx /\ resolve.tx # NoTx /\ resolve.tx \in mapTxLockCandidates
      /\ RespectsLocks(resolve.tx) /\ UNCHANGED mapVotedOutpoints
  <2>1. resolve.stage # "none" /\ UNCHANGED mapVotedOutpoints
    BY DEF ResolveDisconnect, ResolveRecheck, ResolveActivate, ResolveLock
  <2>2. resolve.tx \in Tx /\ resolve.tx # NoTx BY <2>1 DEF TypeOK, Replay
  <2> QED BY <2>1, <2>2 DEF Handlers
<1>1. CASE ResolveDisconnect
  <2>1. chain # << >> BY <1>0, <1>1, ReplayHasBlocks DEF ResolveDisconnect
  <2>2. DisconnectTip /\ UNCHANGED mapLockedOutpoints BY <1>1 DEF ResolveDisconnect
  <2>3. /\ \A x \in mempool' \ mempool : RespectsLocks(x)
        /\ UNCHANGED <<mapTxLockCandidates, mapMasternodeVotes>>
    BY <2>1, <2>2, DisconnectTipType
  <2>4. resolve'.tx = resolve.tx /\ resolve'.stage = "disconnect"
    BY <1>1 DEF ResolveDisconnect, TypeOK
  <2>5. RespectsLocks(resolve.tx)' BY <1>0, <2>2, <2>4 DEF RespectsLocks
  <2>6. Handlers' BY <1>0, <2>3, <2>4, <2>5 DEF Handlers
  <2> QED BY <1>0, <2>2, <2>3, <2>6, QuietStep DEF Admits
<1>2. CASE ResolveRecheck
  <2> DEFINE t == resolve.tx
  <2>1. UNCHANGED <<mapTxLockCandidates, mapMasternodeVotes, mapLockedOutpoints>>
    BY <1>2 DEF ResolveRecheck
  <2>2. resolve'.tx = t BY <1>2 DEF ResolveRecheck, TypeOK
  <2>3. Admits /\ Conflicts(t, mempool') = {}
    <3>1. CASE MempoolSpends(t) # {}
      <4>1. mempool' = Reaccepted(t) BY <1>0, <1>2, <3>1 DEF ResolveRecheck
      <4> QED BY <1>0, <4>1 DEF Reaccepted, Conflicts, Admits
    <3>2. CASE MempoolSpends(t) = {}
      <4>1. mempool' = mempool BY <1>2, <3>2 DEF ResolveRecheck
      <4> QED BY <3>2, <4>1 DEF MempoolSpends, Conflicts, Admits
    <3> QED BY <3>1, <3>2
  <2>4. Conflicts(resolve.tx, mempool)' = {} BY <2>2, <2>3 DEF Conflicts
  <2>5. RespectsLocks(resolve.tx)' BY <1>0, <2>1, <2>2 DEF RespectsLocks
  <2>6. Handlers' BY <1>0, <2>1, <2>2, <2>4, <2>5 DEF Handlers
  <2> QED BY <1>0, <2>1, <2>3, <2>6, QuietStep
<1>3. CASE ResolveActivate
  <2>1. /\ resolve.stage = "activate" /\ resolve'.tx = resolve.tx /\ resolve'.stage = "activate"
        /\ UNCHANGED mapLockedOutpoints
    BY <1>3 DEF ResolveActivate, TypeOK
  <2>2. mempool' \subseteq mempool /\ UNCHANGED <<mapTxLockCandidates, mapMasternodeVotes>>
    BY <1>3, SyncQuiet DEF ResolveActivate, ConnectTip
  <2>3. Conflicts(resolve.tx, mempool)' = {}
    BY <2>1, <2>2 DEF Handlers, Conflicts
  <2>4. RespectsLocks(resolve.tx)' BY <1>0, <2>1 DEF RespectsLocks
  <2>5. Handlers' BY <1>0, <2>1, <2>2, <2>3, <2>4 DEF Handlers
  <2> QED BY <1>0, <2>1, <2>2, <2>5, QuietStep DEF Admits
<1>4. CASE ResolveLock
  <2>1. /\ LockTransactionInputs(resolve.tx, mapMasternodeVotes)
        /\ resolve' = NoResolve /\ resolve.stage = "activate"
        /\ UNCHANGED <<mapTxLockCandidates, mapMasternodeVotes, mempool>>
    BY <1>4 DEF ResolveLock
  <2>2. Conflicts(resolve.tx, mempool') = {} BY <2>1 DEF Handlers, Conflicts
  <2>3. Locks BY <1>0, <2>1, <2>2 DEF Locks, Acquires
  <2>4. Handlers' BY <2>1 DEF Handlers, NoResolve
  <2>5. Gains /\ VotedSpend' /\ VotesRanked' /\ Admits
    BY <1>0, <2>1 DEF Gains, VotedSpend, VotesRanked, Admits
  <2> QED BY <2>3, <2>4, <2>5 DEF Growing
<1> QED BY <1>1, <1>2, <1>3, <1>4

\* Every step but CheckAndRemove.
LEMMA GrowingStep == IInv /\ [Next]_vars => CheckAndRemove \/ Growing
<1> SUFFICES ASSUME IInv, [Next]_vars, ~ CheckAndRemove PROVE Growing OBVIOUS
<1>1. CASE \/ UpdatedBlockTip
           \/ \E m \in MN \ StableMN : UpdateMasternodeList(m)
           \/ \E f \in Toggles : Toggle(f)
           \/ Tick
           \/ UNCHANGED vars
  <2>1. UNCHANGED <<candVars, mapVotedOutpoints, mapLockedOutpoints, resolve, mempool>>
    BY <1>1, EnvironmentType DEF IInv
  <2>2. Handlers' BY <2>1 DEF IInv, Handlers, RespectsLocks, Conflicts, candVars
  <2> QED BY <2>1, <2>2, QuietStep DEF Admits, candVars
<1> QED BY <1>1, RequestStep, VoteStep, ChainStep, ReplayStep DEF Next, HandlerStep

-----------------------------------------------------------------------------
(* The invariant is inductive. *)

\* A larger set of masternodes is still a quorum.
LEMMA QuorumGrows ==
    ASSUME NEW S \in SUBSET MN, NEW T \in SUBSET MN, S \subseteq T,
           Cardinality(S) >= SIGNATURES_REQUIRED
    PROVE  Cardinality(T) >= SIGNATURES_REQUIRED
<1>1. IsFiniteSet(T) /\ IsFiniteSet(S) BY MasternodeAssumption, FS_Subset
<1>2. Cardinality(S) <= Cardinality(T) BY <1>1, FS_Subset
<1>3. Cardinality(S) \in Nat /\ Cardinality(T) \in Nat BY <1>1, FS_CardinalityType
<1> QED BY <1>2, <1>3, NumberAssumption

\* Votes that grow keep a candidate ready.
LEMMA ReadyStays ==
    ASSUME TypeOK, TypeOK', Gains, NEW t \in Tx, NEW o \in OutPoint,
           IsReady(mapMasternodeVotes[t][o])
    PROVE  IsReady(mapMasternodeVotes'[t][o])
<1>1. mapMasternodeVotes[t][o] \in SUBSET MN /\ mapMasternodeVotes'[t][o] \in SUBSET MN
  BY DEF TypeOK
<1>2. mapMasternodeVotes[t][o] \subseteq mapMasternodeVotes'[t][o] BY DEF Gains
<1> QED BY <1>1, <1>2, QuorumGrows DEF IsReady

\* A growing step keeps every lock backed by its votes.
LEMMA GrowingBacked ==
    ASSUME IInv, TypeOK', Growing
    PROVE  LocksBackedByQuorums'
<1> USE DEF IInv, TypeInv
<1> SUFFICES ASSUME NEW o \in OutPoint, mapLockedOutpoints'[o] # NoTx
             PROVE  LET t == mapLockedOutpoints'[o]
                    IN /\ t \in mapTxLockCandidates' /\ o \in Inputs[t]
                       /\ \A p \in Inputs[t] :
                            Cardinality(mapMasternodeVotes'[t][p] \cap Ranked[p])
                                >= SIGNATURES_REQUIRED
  BY DEF LocksBackedByQuorums
<1> DEFINE t == mapLockedOutpoints'[o]
<1>1. t \in Tx BY DEF TypeOK
<1>2. Inputs[t] \subseteq OutPoint BY <1>1, TxAssumption
<1>3. mapTxLockCandidates \subseteq mapTxLockCandidates' BY DEF Growing, Gains
<1>4. ASSUME NEW p \in Inputs[t], IsReady(mapMasternodeVotes'[t][p])
      PROVE  Cardinality(mapMasternodeVotes'[t][p] \cap Ranked[p]) >= SIGNATURES_REQUIRED
  <2>1. mapMasternodeVotes'[t][p] \subseteq Ranked[p] BY <1>1, <1>2 DEF Growing, VotesRanked
  <2>2. mapMasternodeVotes'[t][p] \cap Ranked[p] = mapMasternodeVotes'[t][p] BY <2>1
  <2> QED BY <1>4, <2>2 DEF IsReady
<1>5. CASE mapLockedOutpoints[o] = t
  <2>1. /\ t \in mapTxLockCandidates /\ o \in Inputs[t]
        /\ \A p \in Inputs[t] :
              Cardinality(mapMasternodeVotes[t][p] \cap Ranked[p]) >= SIGNATURES_REQUIRED
    BY <1>5 DEF LocksBackedByQuorums
  <2>2. ASSUME NEW p \in Inputs[t] PROVE IsReady(mapMasternodeVotes'[t][p])
    <3>1. mapMasternodeVotes[t][p] \cap Ranked[p] = mapMasternodeVotes[t][p]
      BY <1>1, <1>2 DEF VotesRanked
    <3>2. IsReady(mapMasternodeVotes[t][p]) BY <2>1, <3>1 DEF IsReady
    <3> QED BY <1>1, <1>2, <3>2, ReadyStays DEF Growing
  <2> QED BY <1>3, <1>4, <2>1, <2>2
<1>6. CASE mapLockedOutpoints[o] # t
  <2>1. PICK u \in Tx : Acquires(u) BY <1>6 DEF Growing, Locks
  <2>2. mapLockedOutpoints'[o] =
          IF /\ IsAllOutPointsReady(u, mapMasternodeVotes')
             /\ o \in Inputs[u] /\ mapLockedOutpoints[o] = NoTx
          THEN u ELSE mapLockedOutpoints[o]
    BY <2>1 DEF Acquires, LockTransactionInputs
  <2>3. u = t /\ IsAllOutPointsReady(t, mapMasternodeVotes') /\ o \in Inputs[t]
    BY <1>6, <2>2
  <2>4. t \in mapTxLockCandidates BY <2>1, <2>3 DEF Acquires
  <2> QED BY <1>3, <1>4, <2>3, <2>4 DEF IsAllOutPointsReady
<1> QED BY <1>5, <1>6

\* A growing step keeps the mempool clear of what is locked by others.
LEMMA GrowingMempool ==
    ASSUME IInv, TypeOK', Growing
    PROVE  MempoolRespectsLocks'
<1> USE DEF IInv, TypeInv
<1> SUFFICES ASSUME NEW x \in mempool', NEW o \in Inputs[x]
             PROVE  mapLockedOutpoints'[o] \in {NoTx, x}
  BY DEF MempoolRespectsLocks, RespectsLocks
<1>1. x \in Tx /\ o \in OutPoint BY TxAssumption DEF TypeOK
<1>2. mapLockedOutpoints[o] \in {NoTx, x}
  BY DEF Growing, Admits, MempoolRespectsLocks, RespectsLocks
<1>3. CASE UNCHANGED mapLockedOutpoints BY <1>2, <1>3
<1>4. ASSUME NEW u \in Tx, Acquires(u) PROVE mapLockedOutpoints'[o] \in {NoTx, x}
  <2>1. mapLockedOutpoints'[o] =
          IF /\ IsAllOutPointsReady(u, mapMasternodeVotes')
             /\ o \in Inputs[u] /\ mapLockedOutpoints[o] = NoTx
          THEN u ELSE mapLockedOutpoints[o]
    BY <1>1, <1>4 DEF Acquires, LockTransactionInputs
  <2>2. o \in Inputs[u] => x = u BY <1>4 DEF Acquires, Conflicts
  <2> QED BY <1>2, <2>1, <2>2
<1> QED BY <1>3, <1>4 DEF Growing, Locks

\* The candidates CheckAndRemove() erases.
Dead == {t \in mapTxLockCandidates : IsExpired(candidateHeight[t])}

\* CheckAndRemove() erases candidates together with every entry for their outpoints.
LEMMA RemovalEffect ==
    ASSUME TypeOK, CheckAndRemove
    PROVE  /\ mapTxLockCandidates' = mapTxLockCandidates \ Dead
           /\ \A t \in Tx \ Dead : mapMasternodeVotes'[t] = mapMasternodeVotes[t]
           /\ \A t \in Dead, o \in OutPoint : mapMasternodeVotes'[t][o] = {}
           /\ mapLockedOutpoints' = [o \in OutPoint |-> IF \E t \in Dead : o \in Inputs[t] THEN NoTx
                                                        ELSE mapLockedOutpoints[o]]
           /\ \A o \in OutPoint : mapVotedOutpoints'[o] =
                  IF \E t \in Dead : o \in Inputs[t] THEN {} ELSE mapVotedOutpoints[o]
           /\ UNCHANGED <<resolve, mempool>> /\ resolve.tx = NoTx
<1>1. Dead \subseteq Tx BY DEF Dead, TypeOK
<1>2. /\ mapTxLockCandidates' = mapTxLockCandidates \ Dead
      /\ mapMasternodeVotes' = [t \in Tx |-> IF t \in Dead THEN [o \in OutPoint |-> {}]
                                             ELSE mapMasternodeVotes[t]]
      /\ mapLockedOutpoints' = [o \in OutPoint |-> IF o \in FreedOutpoints(Dead) THEN NoTx
                                                   ELSE mapLockedOutpoints[o]]
      /\ mapVotedOutpoints' = [o \in OutPoint |-> IF o \in FreedOutpoints(Dead) THEN {}
                                                  ELSE mapVotedOutpoints[o]]
      /\ UNCHANGED <<resolve, mempool>> /\ resolve.tx = NoTx
  BY Zenon DEF CheckAndRemove, Dead, Busy
<1>3. \A o : o \in FreedOutpoints(Dead) <=> \E t \in Dead : o \in Inputs[t]
  BY Zenon DEF FreedOutpoints
<1>4. /\ \A t \in Tx \ Dead : mapMasternodeVotes'[t] = mapMasternodeVotes[t]
      /\ \A t \in Dead, o \in OutPoint : mapMasternodeVotes'[t][o] = {}
  BY <1>1, <1>2
<1>5. mapLockedOutpoints' = [o \in OutPoint |-> IF \E t \in Dead : o \in Inputs[t] THEN NoTx
                                                ELSE mapLockedOutpoints[o]]
  BY <1>2, <1>3
<1>6. \A o \in OutPoint : mapVotedOutpoints'[o] =
          IF \E t \in Dead : o \in Inputs[t] THEN {} ELSE mapVotedOutpoints[o]
  BY <1>2, <1>3
<1> QED BY <1>2, <1>4, <1>5, <1>6

\* CheckAndRemove() keeps the invariant: what it erases, it erases everywhere.
LEMMA RemovalStep ==
    ASSUME IInv, TypeInv', CheckAndRemove
    PROVE  IInv'
<1> USE DEF IInv, TypeInv
<1>1. /\ mapTxLockCandidates' = mapTxLockCandidates \ Dead
      /\ \A t \in Tx \ Dead : mapMasternodeVotes'[t] = mapMasternodeVotes[t]
      /\ \A t \in Dead, o \in OutPoint : mapMasternodeVotes'[t][o] = {}
      /\ \A o \in OutPoint : mapVotedOutpoints'[o] =
            IF \E t \in Dead : o \in Inputs[t] THEN {} ELSE mapVotedOutpoints[o]
      /\ UNCHANGED <<resolve, mempool>> /\ resolve.tx = NoTx
  BY RemovalEffect
<1>2. \A o \in OutPoint : mapLockedOutpoints'[o] =
          IF \E t \in Dead : o \in Inputs[t] THEN NoTx ELSE mapLockedOutpoints[o]
  BY RemovalEffect
<1>3. Handlers' BY <1>1, NoReplayHandlers
<1>4. VotedSpend'
  <2>1. ASSUME NEW o \in OutPoint, NEW t \in mapVotedOutpoints'[o]
        PROVE  t \in mapTxLockCandidates' /\ o \in Inputs[t]
    <3>1. (~ \E u \in Dead : o \in Inputs[u]) /\ t \in mapVotedOutpoints[o] BY <1>1, <2>1
    <3>2. t \in mapTxLockCandidates /\ o \in Inputs[t] BY <3>1 DEF VotedSpend
    <3> QED BY <1>1, <3>1, <3>2
  <2> QED BY <2>1 DEF VotedSpend
<1>5. VotesRanked'
  <2>1. ASSUME NEW t \in Tx, NEW o \in OutPoint PROVE mapMasternodeVotes'[t][o] \subseteq Ranked[o]
    <3>1. CASE t \in Dead BY <1>1, <3>1
    <3>2. CASE t \notin Dead
      <4>1. mapMasternodeVotes'[t] = mapMasternodeVotes[t] BY <1>1, <3>2
      <4> QED BY <4>1 DEF VotesRanked
    <3> QED BY <3>1, <3>2
  <2> QED BY <2>1 DEF VotesRanked
<1>6. LocksBackedByQuorums'
  <2> SUFFICES ASSUME NEW o \in OutPoint, mapLockedOutpoints'[o] # NoTx
               PROVE  LET t == mapLockedOutpoints'[o]
                      IN /\ t \in mapTxLockCandidates' /\ o \in Inputs[t]
                         /\ \A p \in Inputs[t] :
                              Cardinality(mapMasternodeVotes'[t][p] \cap Ranked[p])
                                  >= SIGNATURES_REQUIRED
    BY DEF LocksBackedByQuorums
  <2> DEFINE t == mapLockedOutpoints[o]
  <2>1. mapLockedOutpoints'[o] = t /\ t # NoTx /\ ~ \E u \in Dead : o \in Inputs[u] BY <1>2
  <2>2. /\ t \in mapTxLockCandidates /\ o \in Inputs[t]
        /\ \A p \in Inputs[t] :
              Cardinality(mapMasternodeVotes[t][p] \cap Ranked[p]) >= SIGNATURES_REQUIRED
    BY <2>1 DEF LocksBackedByQuorums
  <2>3. t \in Tx \ Dead BY <2>1, <2>2 DEF TypeOK
  <2>4. mapMasternodeVotes'[t] = mapMasternodeVotes[t] BY <1>1, <2>3
  <2> HIDE DEF t
  <2> QED BY <1>1, <2>1, <2>2, <2>3, <2>4
<1>7. MempoolRespectsLocks'
  <2> SUFFICES ASSUME NEW x \in mempool, NEW o \in Inputs[x]
               PROVE  mapLockedOutpoints'[o] \in {NoTx, x}
    BY <1>1 DEF MempoolRespectsLocks, RespectsLocks
  <2>1. o \in OutPoint /\ mapLockedOutpoints[o] \in {NoTx, x}
    BY TxAssumption DEF TypeOK, MempoolRespectsLocks, RespectsLocks
  <2> QED BY <1>2, <2>1
<1> QED BY <1>3, <1>4, <1>5, <1>6, <1>7

\* Every step keeps the invariant.
LEMMA IInvStep == IInv /\ [Next]_vars => IInv'
<1> SUFFICES ASSUME IInv, [Next]_vars PROVE IInv' OBVIOUS
<1>1. TypeInv' BY TypeStep DEF IInv
<1>2. CASE CheckAndRemove BY <1>1, <1>2, RemovalStep
<1>3. CASE Growing
  BY <1>1, <1>3, GrowingBacked, GrowingMempool DEF IInv, TypeInv, Growing
<1> QED BY <1>2, <1>3, GrowingStep

\* The invariant holds in every reachable state.
THEOREM Invariance == Spec => []IInv
BY InitIInv, IInvStep, PTL DEF Spec

\* The lookups of Vote() and ProcessTxLockVote() in mapTxLockCandidates never miss: every
\* transaction of mapVotedOutpoints is a candidate (VotedTxsAreCandidates), however
\* CheckAndRemove() is interleaved with requests, votes and blocks.
THEOREM LookupsNeverMiss == Spec => []VotedTxsAreCandidates
<1>1. IInv => VotedTxsAreCandidates BY DEF IInv, VotedSpend, VotedTxsAreCandidates
<1> QED BY <1>1, Invariance, PTL

\* A lock is held by a candidate with SIGNATURES_REQUIRED votes of ranked masternodes on each
\* input, for as long as it is held (LocksBackedByQuorums).
THEOREM LocksHaveQuorums == Spec => []LocksBackedByQuorums
<1>1. IInv => LocksBackedByQuorums BY DEF IInv
<1> QED BY <1>1, Invariance, PTL

\* The mempool never holds a transaction that spends an outpoint another one has locked
\* (MempoolRespectsLocks), also while blocks are disconnected, replayed and connected.
THEOREM MempoolFollowsLocks == Spec => []MempoolRespectsLocks
<1>1. IInv => MempoolRespectsLocks BY DEF IInv
<1> QED BY <1>1, Invariance, PTL

-----------------------------------------------------------------------------
(* InstantSend implements OutpointLocks. *)

\* A growing step is Count or Acquire.
LEMMA GrowingRefines ==
    ASSUME IInv, TypeOK', Growing
    PROVE  Abstract!Next
<1> USE DEF IInv, TypeInv
<1>1. Complete' \subseteq Tx BY DEF Complete, TypeOK
<1>2. Complete \subseteq Complete'
  <2> SUFFICES ASSUME NEW t \in Complete PROVE t \in Complete' OBVIOUS
  <2>1. t \in Tx /\ t \in mapTxLockCandidates' BY DEF Complete, TypeOK, Growing, Gains
  <2>2. ASSUME NEW o \in Inputs[t] PROVE IsReady(mapMasternodeVotes'[t][o])
    <3>1. o \in OutPoint BY <2>1, TxAssumption
    <3>2. IsReady(mapMasternodeVotes[t][o]) BY DEF Complete, IsAllOutPointsReady
    <3> QED BY <2>1, <3>1, <3>2, ReadyStays DEF Growing
  <2> QED BY <2>1, <2>2 DEF Complete, IsAllOutPointsReady, IsReady
<1>3. CASE UNCHANGED mapLockedOutpoints
  <2>1. Abstract!Count BY <1>1, <1>2, <1>3 DEF Abstract!Count
  <2> QED BY <2>1 DEF Abstract!Next
<1>4. ASSUME NEW t \in Tx, Acquires(t), ~ UNCHANGED mapLockedOutpoints PROVE Abstract!Next
  <2>1. mapLockedOutpoints' = [o \in OutPoint |->
          IF /\ IsAllOutPointsReady(t, mapMasternodeVotes')
             /\ o \in Inputs[t] /\ mapLockedOutpoints[o] = NoTx
          THEN t ELSE mapLockedOutpoints[o]]
    BY <1>4 DEF Acquires, LockTransactionInputs
  <2>2. IsAllOutPointsReady(t, mapMasternodeVotes') BY <1>4, <2>1 DEF TypeOK
  <2>3. t \in Complete'
    BY <1>4, <2>2 DEF Complete, Acquires, Growing, Gains, IsAllOutPointsReady, IsReady
  <2>4. \A o \in Inputs[t] : mapLockedOutpoints[o] \in {NoTx, t}
    BY <1>4 DEF Acquires, RespectsLocks
  <2>5. mapLockedOutpoints' =
          [o \in OutPoint |-> IF o \in Inputs[t] THEN t ELSE mapLockedOutpoints[o]]
    BY <2>1, <2>2, <2>4
  <2>6. Abstract!Acquire(t) BY <1>1, <1>2, <2>3, <2>4, <2>5 DEF Abstract!Acquire
  <2> QED BY <2>6 DEF Abstract!Next
<1> QED BY <1>3, <1>4 DEF Growing, Locks

\* CheckAndRemove() is Release of the candidates it erases.
LEMMA RemovalRefines ==
    ASSUME IInv, TypeOK', CheckAndRemove
    PROVE  Abstract!Next
<1> USE DEF IInv, TypeInv
<1>1. /\ mapTxLockCandidates' = mapTxLockCandidates \ Dead
      /\ \A t \in Tx \ Dead : mapMasternodeVotes'[t] = mapMasternodeVotes[t]
      /\ mapLockedOutpoints' = [o \in OutPoint |-> IF \E t \in Dead : o \in Inputs[t] THEN NoTx
                                                   ELSE mapLockedOutpoints[o]]
  BY RemovalEffect
<1>2. mapTxLockCandidates \subseteq Tx /\ Dead \in SUBSET Tx BY DEF Dead, TypeOK
<1>3. \A t \in mapTxLockCandidates \ Dead :
          IsAllOutPointsReady(t, mapMasternodeVotes') <=> IsAllOutPointsReady(t, mapMasternodeVotes)
  BY <1>1, <1>2 DEF IsAllOutPointsReady
<1>4. Complete' = Complete \ Dead
  <2>1. Complete' = {t \in mapTxLockCandidates' : IsAllOutPointsReady(t, mapMasternodeVotes')}
    BY DEF Complete, IsAllOutPointsReady, IsReady
  <2> QED BY <1>1, <1>3, <2>1 DEF Complete
<1>5. Abstract!Release(Dead) BY <1>1, <1>4 DEF Abstract!Release
<1> QED BY <1>2, <1>5 DEF Abstract!Next

\* The votes, orphans, replays and expiry of CInstantSend implement OutpointLocks
\* (ImplementsOutpointLocks): all inputs are locked in one step by a transaction with all its
\* votes, and no lock passes from one transaction to another.
THEOREM Refinement == Spec => ImplementsOutpointLocks
<1>1. Init => Abstract!Init BY DEF Init, Abstract!Init, Complete
<1>2. IInv /\ IInv' /\ [Next]_vars => [Abstract!Next]_<<mapLockedOutpoints, Complete>>
  BY GrowingStep, GrowingRefines, RemovalRefines DEF IInv, TypeInv
<1> QED BY <1>1, <1>2, Invariance, PTL DEF Spec, ImplementsOutpointLocks, Abstract!Spec
-----------------------------------------------------------------------------
(* The heights by which candidates expire. *)

InChain(t, h) == h = -1 \/ (h \in 1..Len(chain) /\ chain[h] = t)

\* A candidate's height is where its transaction is in the chain; what is no candidate has
\* no height, so that a new candidate starts without one.
HeightsInChain ==
    \A t \in Tx : /\ InChain(t, candidateHeight[t])
                  /\ t \notin mapTxLockCandidates => candidateHeight[t] = -1

\* The chain stays, and heights stay or are reset.
LEMMA HeightsStay ==
    ASSUME HeightsInChain, UNCHANGED chain, mapTxLockCandidates \subseteq mapTxLockCandidates',
           \A t \in Tx : candidateHeight'[t] \in {candidateHeight[t], -1}
    PROVE  HeightsInChain'
BY DEF HeightsInChain, InChain

\* What SyncTransaction() does to the heights of candidates.
LEMMA SyncHeights ==
    ASSUME NEW T, NEW h, SyncTransaction(T, h)
    PROVE  /\ UNCHANGED mapTxLockCandidates
           /\ \A t \in Tx : candidateHeight'[t] = IF t \in T \cap mapTxLockCandidates
                                                  THEN h[t] ELSE candidateHeight[t]
BY DEF SyncTransaction

\* A block on top leaves the others where they are.
LEMMA ChainWithTip ==
    ASSUME TypeOK, NEW b \in Block, ConnectTip(b)
    PROVE  /\ Len(chain) \in Nat /\ Len(chain') = Len(chain) + 1 /\ chain'[Len(chain) + 1] = b
           /\ \A i \in 1..Len(chain) : i \in 1..Len(chain') /\ chain'[i] = chain[i]
<1>1. chain \in Seq(Block) BY DEF TypeOK, Block
<1>2. chain' = Append(chain, b) BY DEF ConnectTip
<1>3. /\ Len(chain) \in Nat /\ Len(chain') = Len(chain) + 1 /\ chain'[Len(chain) + 1] = b
      /\ \A i \in 1..Len(chain) : chain'[i] = chain[i]
  BY <1>1, <1>2, AppendProperties
<1> QED BY <1>3

\* So does a chain without its tip.
LEMMA ChainWithoutTip ==
    ASSUME TypeOK, chain # << >>, DisconnectTip
    PROVE  /\ Len(chain) \in Nat \ {0} /\ Len(chain') = Len(chain) - 1
           /\ \A i \in 1..(Len(chain) - 1) : i \in 1..Len(chain') /\ chain'[i] = chain[i]
<1> DEFINE n == Len(chain)
<1>1. chain \in Seq(Block) BY DEF TypeOK, Block
<1>2. chain' = SubSeq(chain, 1, n - 1) BY DEF DisconnectTip
<1>3. n \in Nat \ {0} BY <1>1, EmptySeq
<1>4. Len(chain') = n - 1 BY <1>1, <1>2, WithoutLast
<1>5. chain' = [i \in 1..(n - 1) |-> chain[i]]
  <2>1. SubSeq(chain, 1, n - 1) = [i \in 1..((n - 1) - 1 + 1) |-> chain[1 + i - 1]] OBVIOUS
  <2>2. (n - 1) - 1 + 1 = n - 1 /\ \A i \in 1..(n - 1) : 1 + i - 1 = i BY <1>3
  <2> HIDE DEF n
  <2> QED BY <1>2, <2>1, <2>2
<1> HIDE DEF n
<1>6. \A i \in 1..(n - 1) : i \in 1..Len(chain') /\ chain'[i] = chain[i] BY <1>4, <1>5
<1> QED BY <1>3, <1>4, <1>6 DEF n

\* A block on top leaves the others where they are, and is where its transaction is.
LEMMA ConnectHeights ==
    ASSUME TypeOK, HeightsInChain, NEW b \in Block, ConnectTip(b)
    PROVE  HeightsInChain'
<1> DEFINE gone == IF b = NoTx THEN {} ELSE Conflicts(b, mempool)
           h == [t \in Tx |-> IF t = b THEN Len(chain) + 1 ELSE -1]
           T == (gone \cup {b}) \ {NoTx}
<1>2. SyncTransaction(T, h) BY DEF ConnectTip
<1>3. /\ Len(chain) \in Nat /\ Len(chain') = Len(chain) + 1 /\ chain'[Len(chain) + 1] = b
      /\ \A i \in 1..Len(chain) : chain'[i] = chain[i]
  BY ChainWithTip
<1>4. \A t \in Tx : h[t] = IF t = b THEN Len(chain) + 1 ELSE -1 OBVIOUS
<1> HIDE DEF h, T
<1>5. /\ UNCHANGED mapTxLockCandidates
      /\ \A t \in Tx : candidateHeight'[t] = IF t \in T \cap mapTxLockCandidates
                                             THEN h[t] ELSE candidateHeight[t]
  BY <1>2, SyncHeights
<1> SUFFICES ASSUME NEW t \in Tx
             PROVE  /\ InChain(t, candidateHeight[t])'
                    /\ t \notin mapTxLockCandidates' => candidateHeight'[t] = -1
  BY DEF HeightsInChain
<1>6. InChain(t, candidateHeight[t]) /\ (t \notin mapTxLockCandidates => candidateHeight[t] = -1)
  BY DEF HeightsInChain
<1>7. CASE candidateHeight'[t] = candidateHeight[t]
  <2>1. candidateHeight[t] \in 1..Len(chain) => candidateHeight[t] \in 1..Len(chain') BY <1>3
  <2> QED BY <1>3, <1>5, <1>6, <1>7, <2>1 DEF InChain
<1>8. CASE t \in mapTxLockCandidates /\ candidateHeight'[t] = h[t]
  <2>1. Len(chain) + 1 \in 1..Len(chain') BY <1>3
  <2> QED BY <1>3, <1>4, <1>5, <1>8, <2>1 DEF InChain
<1> QED BY <1>5, <1>7, <1>8

\* Without the tip only the tip's transaction is out, and its height is reset.
LEMMA DisconnectHeights ==
    ASSUME TypeOK, HeightsInChain, chain # << >>, DisconnectTip
    PROVE  HeightsInChain'
<1> DEFINE n == Len(chain)
           b == chain[n]
           h == [t \in Tx |-> -1]
<1>2. SyncTransaction({b} \ {NoTx}, h) BY DEF DisconnectTip
<1>3. n \in Nat \ {0} /\ Len(chain') = n - 1 /\ \A i \in 1..(n - 1) : chain'[i] = chain[i]
  BY ChainWithoutTip
<1>4. Len(chain') = n - 1 /\ \A i \in 1..(n - 1) : chain'[i] = chain[i] BY <1>3
<1>5. \A t \in Tx : h[t] = -1 OBVIOUS
<1>6. NoTx \notin Tx BY TxAssumption
<1> HIDE DEF h
<1>7. /\ UNCHANGED mapTxLockCandidates
      /\ \A t \in Tx : candidateHeight'[t] = IF t \in ({b} \ {NoTx}) \cap mapTxLockCandidates
                                             THEN h[t] ELSE candidateHeight[t]
  BY <1>2, SyncHeights
<1> HIDE DEF n
<1> SUFFICES ASSUME NEW t \in Tx
             PROVE  /\ InChain(t, candidateHeight[t])'
                    /\ t \notin mapTxLockCandidates' => candidateHeight'[t] = -1
  BY DEF HeightsInChain
<1>8. InChain(t, candidateHeight[t]) /\ (t \notin mapTxLockCandidates => candidateHeight[t] = -1)
  BY DEF HeightsInChain
<1>9. CASE candidateHeight'[t] = -1 BY <1>9 DEF InChain
<1>10. CASE t # b \/ candidateHeight[t] = -1
  <2>1. candidateHeight'[t] = candidateHeight[t] \/ candidateHeight'[t] = -1
    BY <1>5, <1>7
  <2>2. CASE candidateHeight[t] \in 1..n /\ chain[candidateHeight[t]] = t /\ t # b
    <3>1. candidateHeight[t] # n BY <2>2
    <3>2. candidateHeight[t] \in 1..(n - 1) BY <1>3, <2>2, <3>1
    <3> QED BY <1>4, <1>7, <1>8, <2>1, <2>2, <3>2 DEF InChain
  <2> QED BY <1>8, <1>9, <1>10, <2>1, <2>2 DEF InChain, n
<1>11. CASE t = b /\ candidateHeight[t] # -1
  BY <1>5, <1>6, <1>7, <1>8, <1>9, <1>11
<1> QED BY <1>10, <1>11

\* Requests and votes leave the chain and the heights alone.
LEMMA VotesKeepHeights ==
    ASSUME \/ \E t \in Tx : TXLOCKREQUEST(t) \/ WalletRequest(t)
           \/ \E v \in LockVote : TXLOCKVOTE(v) \/ ProcessOrphanTxLockVote(v)
           \/ FinishRequest \/ ResolveRecheck \/ ResolveLock
    PROVE  UNCHANGED <<chain, candidateHeight>> /\ mapTxLockCandidates \subseteq mapTxLockCandidates'
<1> USE DEF candVars, chainVars
<1>1. ASSUME NEW t \in Tx, TXLOCKREQUEST(t) \/ WalletRequest(t)
      PROVE  UNCHANGED <<chain, candidateHeight>> /\ mapTxLockCandidates \subseteq mapTxLockCandidates'
  BY <1>1 DEF TXLOCKREQUEST, WalletRequest, StartRequest
<1>2. ASSUME NEW v \in LockVote, TXLOCKVOTE(v)
      PROVE  UNCHANGED <<chain, candidateHeight>> /\ mapTxLockCandidates \subseteq mapTxLockCandidates'
  BY <1>2 DEF TXLOCKVOTE, CountVote, OrphanVote, StartRequest
<1>3. ASSUME NEW v \in LockVote, ProcessOrphanTxLockVote(v)
      PROVE  UNCHANGED <<chain, candidateHeight>> /\ mapTxLockCandidates \subseteq mapTxLockCandidates'
  BY <1>3 DEF ProcessOrphanTxLockVote, CountVote
<1>4. ASSUME FinishRequest \/ ResolveRecheck \/ ResolveLock
      PROVE  UNCHANGED <<chain, candidateHeight>> /\ mapTxLockCandidates \subseteq mapTxLockCandidates'
  BY <1>4 DEF FinishRequest, ResolveRecheck, ResolveLock
<1> QED BY <1>1, <1>2, <1>3, <1>4

\* A transaction that comes to the mempool has no height, and is given none.
LEMMA AcceptedHeights ==
    ASSUME HeightsInChain, AcceptLockRequest \/ \E t \in Tx : AcceptTx(t)
    PROVE  HeightsInChain'
<1> DEFINE h == [x \in Tx |-> -1]
<1>1. UNCHANGED chain BY DEF AcceptLockRequest, AcceptTx, chainVars
<1>2. (\E T : SyncTransaction(T, h)) \/ UNCHANGED <<mapTxLockCandidates, candidateHeight>>
  BY DEF AcceptLockRequest, AcceptTx, candVars
<1>3. \A t \in Tx : h[t] = -1 OBVIOUS
<1> HIDE DEF h
<1>4. CASE \E T : SyncTransaction(T, h)
  <2>1. PICK T : SyncTransaction(T, h) BY <1>4
  <2>2. /\ UNCHANGED mapTxLockCandidates
        /\ \A t \in Tx : candidateHeight'[t] = IF t \in T \cap mapTxLockCandidates
                                               THEN h[t] ELSE candidateHeight[t]
    BY <2>1, SyncHeights
  <2> QED BY <1>1, <1>3, <2>2, HeightsStay
<1>5. CASE UNCHANGED <<mapTxLockCandidates, candidateHeight>> BY <1>1, <1>5, HeightsStay
<1> QED BY <1>2, <1>4, <1>5

\* Every step keeps the candidates' heights in the chain.
LEMMA HeightsStep == IInv /\ HeightsInChain /\ [Next]_vars => HeightsInChain'
<1> SUFFICES ASSUME IInv, HeightsInChain, [Next]_vars PROVE HeightsInChain' OBVIOUS
<1> USE DEF IInv, TypeInv
<1>1. CASE \/ \E t \in Tx : TXLOCKREQUEST(t) \/ WalletRequest(t)
           \/ \E v \in LockVote : TXLOCKVOTE(v) \/ ProcessOrphanTxLockVote(v)
           \/ FinishRequest \/ ResolveRecheck \/ ResolveLock
  BY <1>1, VotesKeepHeights, HeightsStay
<1>2. CASE AcceptLockRequest \/ \E t \in Tx : AcceptTx(t) BY <1>2, AcceptedHeights
<1>3. ASSUME NEW b \in Tx \cup {NoTx}, ConnectBlock(b) PROVE HeightsInChain'
  BY <1>3, ConnectHeights DEF ConnectBlock, Block
<1>4. CASE DisconnectBlock BY <1>4, DisconnectHeights DEF DisconnectBlock
<1>5. CASE ResolveDisconnect
  <2>1. resolve.tx \in Tx /\ NeedsReplay(resolve.tx) /\ DisconnectTip
    BY <1>5 DEF ResolveDisconnect, Replay, TypeOK
  <2> QED BY <2>1, ReplayHasBlocks, DisconnectHeights
<1>6. CASE ResolveActivate
  <2>1. CASE ConnectTip(Head(resolve.undone)) /\ resolve.undone # << >>
    <3>1. Head(resolve.undone) \in Block BY <2>1 DEF TypeOK, Block
    <3> QED BY <2>1, <3>1, ConnectHeights
  <2>2. CASE UNCHANGED <<candVars, chain>> BY <2>2, HeightsStay DEF candVars
  <2> QED BY <1>6, <2>1, <2>2 DEF ResolveActivate
<1>7. CASE CheckAndRemove
  <2>1. /\ UNCHANGED chain /\ mapTxLockCandidates' = mapTxLockCandidates \ Dead
        /\ candidateHeight' = [t \in Tx |-> IF t \in Dead THEN -1 ELSE candidateHeight[t]]
    BY <1>7, Zenon DEF CheckAndRemove, Dead, chainVars
  <2> QED BY <2>1 DEF HeightsInChain, InChain
<1>8. CASE \/ UpdatedBlockTip \/ (\E m \in MN \ StableMN : UpdateMasternodeList(m))
           \/ (\E f \in Toggles : Toggle(f)) \/ Tick \/ UNCHANGED vars
  <2>1. UNCHANGED <<chain, candidateHeight, mapTxLockCandidates>>
    BY <1>8 DEF UpdatedBlockTip, UpdateMasternodeList, Toggle, Tick, UNCHANGED_CInstantSend,
       vars, candVars, chainVars
  <2> QED BY <2>1, HeightsStay
<1> QED BY <1>1, <1>2, <1>3, <1>4, <1>5, <1>6, <1>7, <1>8 DEF Next, HandlerStep

\* The height by which CheckAndRemove() expires a candidate is one at which its transaction
\* is in the active chain, also after reorganisations and replays (SyncTransaction()).
THEOREM ExpiryFollowsChain == Spec => []HeightsInChain
<1>1. Init => HeightsInChain BY DEF Init, HeightsInChain, InChain
<1> QED BY <1>1, HeightsStep, Invariance, PTL DEF Spec

\* What becomes of the lock on o in one step.
LockKept(o) ==
    (mapLockedOutpoints[o] # NoTx /\ mapLockedOutpoints'[o] # mapLockedOutpoints[o]) =>
       /\ mapLockedOutpoints'[o] = NoTx
       /\ \E i \in 1..Len(chain) :
             /\ chain[i] # NoTx /\ o \in Inputs[chain[i]]
             /\ pCurrentBlockIndex - i > nInstantSendKeepLock

LEMMA LockStep ==
    ASSUME IInv, HeightsInChain, [Next]_vars, NEW o \in OutPoint
    PROVE  LockKept(o)
<1> USE DEF IInv, TypeInv
<1>1. CASE Growing
  BY <1>1 DEF LockKept, Growing, Locks, Acquires, LockTransactionInputs
<1>2. CASE CheckAndRemove
  <2>1. mapLockedOutpoints'[o] = IF \E t \in Dead : o \in Inputs[t] THEN NoTx
                                 ELSE mapLockedOutpoints[o]
    BY <1>2, RemovalEffect
  <2>2. ASSUME NEW t \in Dead, o \in Inputs[t]
        PROVE  \E i \in 1..Len(chain) : /\ chain[i] # NoTx /\ o \in Inputs[chain[i]]
                                        /\ pCurrentBlockIndex - i > nInstantSendKeepLock
    <3>1. /\ t \in Tx /\ candidateHeight[t] # -1
          /\ pCurrentBlockIndex - candidateHeight[t] > nInstantSendKeepLock
      BY <2>2 DEF Dead, IsExpired, TypeOK
    <3>2. candidateHeight[t] \in 1..Len(chain) /\ chain[candidateHeight[t]] = t
      BY <3>1 DEF HeightsInChain, InChain
    <3> QED BY <2>2, <3>1, <3>2, TxAssumption
  <2> QED BY <2>1, <2>2 DEF LockKept
<1> QED BY <1>1, <1>2, GrowingStep

\* A lock ends only when a transaction that spends the outpoint is in the chain more than
\* nInstantSendKeepLock blocks below the tip last notified, and never passes to another
\* transaction (LockKeptUntilBuried; CheckAndRemove(), LockTransactionInputs()).
THEOREM LocksLast == Spec => LockKeptUntilBuried
<1>1. IInv /\ HeightsInChain /\ [Next]_vars => [\A o \in OutPoint : LockKept(o)]_vars
  BY LockStep
<1>2. [\A o \in OutPoint : LockKept(o)]_vars =>
        [\A o \in OutPoint :
         (mapLockedOutpoints[o] # NoTx /\ mapLockedOutpoints'[o] # mapLockedOutpoints[o]) =>
            /\ mapLockedOutpoints'[o] = NoTx
            /\ \E i \in 1..Len(chain) :
                  /\ chain[i] # NoTx /\ o \in Inputs[chain[i]]
                  /\ pCurrentBlockIndex - i > nInstantSendKeepLock]_vars
  BY DEF LockKept
<1> QED BY <1>1, <1>2, Invariance, ExpiryFollowsChain, PTL DEF Spec, LockKeptUntilBuried
-----------------------------------------------------------------------------
(* The heights by which votes expire. *)

\* The votes whose height SyncTransaction() keeps up to date: orphans, and votes of other
\* masternodes that were counted.
Tracked(v) == \/ v \in mapTxLockVotesOrphan
              \/ v.mn # SELF /\ v.mn \in mapMasternodeVotes[v.tx][v.outpoint]

\* ProcessOrphanTxLockVotes() goes through orphans only.
TodoIsOrphan == /\ request.todo \subseteq mapTxLockVotesOrphan
                /\ request.tx = NoTx => request.todo = {}

\* Height k is "none", or where t is in the chain ch.
PlacedIn(ch, t, k) == k = -1 \/ (k \in 1..Len(ch) /\ ch[k] = t)

VotesInChain ==
    /\ \A v \in LockVote : /\ v \notin mapTxLockVotes => voteHeight[v] = -1
                           /\ Tracked(v) => PlacedIn(chain, v.tx, voteHeight[v])
    /\ TodoIsOrphan

\* The chain and the heights stay, and only a vote not seen before is newly tracked.
LEMMA VotesKept ==
    ASSUME VotesInChain, UNCHANGED <<chain, voteHeight>>, mapTxLockVotes \subseteq mapTxLockVotes',
           \A v \in LockVote : Tracked(v)' => Tracked(v) \/ v \notin mapTxLockVotes,
           TodoIsOrphan'
    PROVE  VotesInChain'
<1> SUFFICES ASSUME NEW v \in LockVote
             PROVE  /\ v \notin mapTxLockVotes' => voteHeight'[v] = -1
                    /\ Tracked(v)' => PlacedIn(chain', v.tx, voteHeight'[v])
  BY DEF VotesInChain
<1>1. voteHeight'[v] = voteHeight[v] /\ (v \notin mapTxLockVotes => voteHeight[v] = -1)
  BY DEF VotesInChain
<1>2. Tracked(v) => PlacedIn(chain, v.tx, voteHeight[v]) BY DEF VotesInChain
<1>3. PlacedIn(chain', v.tx, voteHeight'[v]) <=> PlacedIn(chain, v.tx, voteHeight[v]) BY DEF PlacedIn
<1>4. voteHeight[v] = -1 => PlacedIn(chain, v.tx, voteHeight[v]) BY DEF PlacedIn
<1> QED BY <1>1, <1>2, <1>3, <1>4

\* Votes that are not those of candidates or orphans do not become tracked.
LEMMA TrackedStays ==
    ASSUME UNCHANGED <<mapMasternodeVotes, mapTxLockVotesOrphan>>, NEW v \in LockVote
    PROVE  Tracked(v)' <=> Tracked(v)
BY DEF Tracked

\* SyncTransaction() gives the transactions of T their heights in the new chain; the others
\* have the heights they had.
LEMMA SyncVotes ==
    ASSUME VotesInChain, NEW T, NEW h, SyncTransaction(T, h),
           UNCHANGED <<mapTxLockVotesOrphan, request>>,
           \A t \in Tx \cap T : PlacedIn(chain', t, h[t]),
           \A t \in Tx \ T, k \in Heights : PlacedIn(chain, t, k) => PlacedIn(chain', t, k),
           voteHeight \in [LockVote -> Heights]
    PROVE  VotesInChain'
<1> DEFINE Synced(v) == /\ v.tx \in T
                        /\ \/ /\ v \in mapTxLockVotes
                              /\ v.mn \in mapMasternodeVotes[v.tx][v.outpoint]
                           \/ v \in mapTxLockVotesOrphan
<1>1. /\ voteHeight' = [v \in LockVote |-> IF Synced(v) THEN h[v.tx] ELSE voteHeight[v]]
      /\ \A v \in LockVote : v \in mapTxLockVotes' <=>
            v \in mapTxLockVotes \/ (Synced(v) /\ v \in mapTxLockVotesOrphan)
      /\ UNCHANGED mapMasternodeVotes
  BY DEF SyncTransaction
<1>2. TodoIsOrphan' BY DEF VotesInChain, TodoIsOrphan
<1> SUFFICES ASSUME NEW v \in LockVote
             PROVE  /\ v \notin mapTxLockVotes' => voteHeight'[v] = -1
                    /\ Tracked(v)' => PlacedIn(chain', v.tx, voteHeight'[v])
  BY <1>2 DEF VotesInChain
<1>3. v.tx \in Tx BY VoteType
<1>4. /\ v \notin mapTxLockVotes => voteHeight[v] = -1
      /\ Tracked(v) => PlacedIn(chain, v.tx, voteHeight[v])
  BY DEF VotesInChain
<1>5. CASE Synced(v)
  <2>1. v \in mapTxLockVotes' BY <1>1, <1>5
  <2>2. voteHeight'[v] = h[v.tx] BY <1>1, <1>5
  <2>3. PlacedIn(chain', v.tx, h[v.tx]) BY <1>3, <1>5
  <2> QED BY <2>1, <2>2, <2>3 DEF PlacedIn
<1>6. CASE ~ Synced(v)
  <2>1. voteHeight'[v] = voteHeight[v] BY <1>1, <1>6
  <2>2. v \notin mapTxLockVotes' => v \notin mapTxLockVotes BY <1>1
  <2>3. ASSUME Tracked(v), v.tx \in T PROVE voteHeight[v] = -1
    BY <1>4, <1>6, <2>3 DEF Tracked
  <2>4. ASSUME Tracked(v), v.tx \notin T PROVE PlacedIn(chain', v.tx, voteHeight'[v])
    <3>1. voteHeight[v] \in Heights OBVIOUS
    <3>2. \A k \in Heights : PlacedIn(chain, v.tx, k) => PlacedIn(chain', v.tx, k)
      BY <1>3, <2>4
    <3> QED BY <1>4, <2>1, <2>4, <3>1, <3>2
  <2>5. Tracked(v)' <=> Tracked(v) BY <1>1, TrackedStays
  <2> QED BY <1>4, <2>1, <2>2, <2>3, <2>4, <2>5 DEF PlacedIn
<1> QED BY <1>5, <1>6

\* ConnectTip() gives the block's transaction its height and takes those it replaced off.
LEMMA ConnectVotes ==
    ASSUME TypeOK, VotesInChain, NEW b \in Block, ConnectTip(b),
           UNCHANGED <<mapTxLockVotesOrphan, request>>
    PROVE  VotesInChain'
<1> DEFINE gone == IF b = NoTx THEN {} ELSE Conflicts(b, mempool)
           h == [t \in Tx |-> IF t = b THEN Len(chain) + 1 ELSE -1]
           T == (gone \cup {b}) \ {NoTx}
<1>1. SyncTransaction(T, h) BY DEF ConnectTip
<1>2. /\ Len(chain) \in Nat /\ Len(chain') = Len(chain) + 1 /\ chain'[Len(chain) + 1] = b
      /\ \A i \in 1..Len(chain) : i \in 1..Len(chain') /\ chain'[i] = chain[i]
  BY ChainWithTip
<1>3. \A t \in Tx : PlacedIn(chain', t, h[t])
  <2>1. Len(chain) + 1 \in 1..Len(chain') BY <1>2
  <2>2. \A t \in Tx : h[t] = IF t = b THEN Len(chain) + 1 ELSE -1 OBVIOUS
  <2> HIDE DEF h
  <2> QED BY <1>2, <2>1, <2>2 DEF PlacedIn
<1>4. \A t \in Tx, k \in Heights : PlacedIn(chain, t, k) => PlacedIn(chain', t, k)
  BY <1>2 DEF PlacedIn
<1>5. voteHeight \in [LockVote -> Heights] BY DEF TypeOK
<1> HIDE DEF h, T
<1> QED BY <1>1, <1>3, <1>4, <1>5, SyncVotes

\* DisconnectTip() takes the height of the transaction that leaves the chain off.
LEMMA DisconnectVotes ==
    ASSUME TypeOK, VotesInChain, chain # << >>, DisconnectTip,
           UNCHANGED <<mapTxLockVotesOrphan, request>>
    PROVE  VotesInChain'
<1> DEFINE b == chain[Len(chain)]
           h == [t \in Tx |-> -1]
           T == {b} \ {NoTx}
<1>1. SyncTransaction(T, h) BY DEF DisconnectTip
<1>2. /\ Len(chain) \in Nat \ {0} /\ Len(chain') = Len(chain) - 1
      /\ \A i \in 1..(Len(chain) - 1) : i \in 1..Len(chain') /\ chain'[i] = chain[i]
  BY ChainWithoutTip
<1>3. \A t \in Tx : PlacedIn(chain', t, h[t]) BY DEF PlacedIn
<1>4. ASSUME NEW t \in Tx \ T, NEW k \in Heights, PlacedIn(chain, t, k)
      PROVE  PlacedIn(chain', t, k)
  <2>1. CASE k = -1 BY <2>1 DEF PlacedIn
  <2>2. CASE k \in 1..Len(chain) /\ chain[k] = t
    <3>1. t # b BY TxAssumption
    <3>2. k # Len(chain) BY <2>2, <3>1
    <3>3. k \in 1..(Len(chain) - 1) BY <1>2, <2>2, <3>2
    <3> QED BY <1>2, <2>2, <3>3 DEF PlacedIn
  <2> QED BY <1>4, <2>1, <2>2 DEF PlacedIn
<1>5. voteHeight \in [LockVote -> Heights] BY DEF TypeOK
<1> HIDE DEF h, T
<1> QED BY <1>1, <1>3, <1>4, <1>5, SyncVotes

\* A transaction that comes to the mempool is given no height.
LEMMA AcceptedVotes ==
    ASSUME TypeOK, VotesInChain, AcceptLockRequest \/ \E t \in Tx : AcceptTx(t)
    PROVE  VotesInChain'
<1> DEFINE h == [x \in Tx |-> -1]
<1> USE DEF orphanVars, chainVars
<1>1. UNCHANGED <<chain, mapTxLockVotesOrphan, request>> BY DEF AcceptLockRequest, AcceptTx
<1>2. (\E T : SyncTransaction(T, h)) \/ UNCHANGED <<candVars, seenVars>>
  BY DEF AcceptLockRequest, AcceptTx
<1>3. CASE \E T : SyncTransaction(T, h)
  <2>1. PICK T : SyncTransaction(T, h) BY <1>3
  <2>2. \A t \in Tx : PlacedIn(chain', t, h[t]) BY DEF PlacedIn
  <2>3. \A t \in Tx, k \in Heights : PlacedIn(chain, t, k) => PlacedIn(chain', t, k) BY <1>1
  <2>4. voteHeight \in [LockVote -> Heights] BY DEF TypeOK
  <2> HIDE DEF h
  <2> QED BY <1>1, <2>1, <2>2, <2>3, <2>4, SyncVotes
<1>4. CASE UNCHANGED <<candVars, seenVars>>
  <2>1. /\ UNCHANGED <<mapMasternodeVotes, voteHeight, mapTxLockVotes>>
        /\ TodoIsOrphan'
    BY <1>1, <1>4 DEF candVars, seenVars, VotesInChain, TodoIsOrphan
  <2> QED BY <1>1, <2>1, VotesKept, TrackedStays
<1> QED BY <1>2, <1>3, <1>4

\* Counting a vote adds it to its candidate, and no other.
LEMMA CountedVotes ==
    ASSUME TypeOK, NEW v \in LockVote, NEW seen, CountVote(v, seen)
    PROVE  /\ seen \subseteq mapTxLockVotes'
           /\ \A u \in LockVote : u.mn \in mapMasternodeVotes'[u.tx][u.outpoint] =>
                 u = v \/ u.mn \in mapMasternodeVotes[u.tx][u.outpoint]
<1> DEFINE votes == [mapMasternodeVotes EXCEPT ![v.tx][v.outpoint] = @ \cup {v.mn}]
<1>1. seen \subseteq mapTxLockVotes'
  <2>1. CASE VoteCounts(v) /\ IsAllOutPointsReady(v.tx, votes)
    <3>1. ResolveAndLock(v.tx, votes, seen) BY <2>1 DEF CountVote
    <3> HIDE DEF votes
    <3> QED BY <3>1 DEF ResolveAndLock, SeenAfter
  <2>2. CASE ~ (VoteCounts(v) /\ IsAllOutPointsReady(v.tx, votes)) BY <2>2 DEF CountVote
  <2> QED BY <2>1, <2>2
<1>2. ASSUME NEW u \in LockVote, u.mn \in mapMasternodeVotes'[u.tx][u.outpoint]
      PROVE  u = v \/ u.mn \in mapMasternodeVotes[u.tx][u.outpoint]
  <2>1. u.tx \in Tx /\ u.outpoint \in OutPoint /\ v.tx \in Tx /\ v.outpoint \in OutPoint
    BY VoteType
  <2>2. mapMasternodeVotes' = mapMasternodeVotes \/ mapMasternodeVotes' = votes
    BY DEF CountVote
  <2>3. mapMasternodeVotes \in [Tx -> [OutPoint -> SUBSET MN]] BY DEF TypeOK
  <2>4. CASE u.tx = v.tx /\ u.outpoint = v.outpoint /\ u.mn = v.mn
    BY <2>4 DEF LockVote
  <2>5. CASE ~ (u.tx = v.tx /\ u.outpoint = v.outpoint /\ u.mn = v.mn)
    BY <1>2, <2>1, <2>2, <2>3, <2>5
  <2> QED BY <2>4, <2>5
<1> QED BY <1>1, <1>2

\* A request counts votes of this masternode only and goes through the orphans given.
LEMMA RequestedVotes ==
    ASSUME TypeOK, NEW t \in LockRequests, NEW orphans, NEW seen, NEW origin,
           StartRequest(t, orphans, seen, origin)
    PROVE  /\ seen \subseteq mapTxLockVotes' /\ UNCHANGED voteHeight
           /\ \A u \in LockVote :
                 mapMasternodeVotes'[u.tx][u.outpoint] \ {SELF} =
                     mapMasternodeVotes[u.tx][u.outpoint] \ {SELF}
           /\ request'.todo = orphans /\ request'.tx # NoTx
<1>1. t \in Tx /\ t # NoTx BY TxAssumption
<1>2. \A u \in LockVote : u.tx \in Tx /\ u.outpoint \in OutPoint BY VoteType
<1>3. mapMasternodeVotes' = [mapMasternodeVotes EXCEPT ![t] =
          [o \in OutPoint |-> IF o \in OutpointsToVote(t) THEN @[o] \cup {SELF} ELSE @[o]]]
  BY DEF StartRequest
<1>4. \A u \in LockVote : mapMasternodeVotes'[u.tx][u.outpoint] \ {SELF} =
                              mapMasternodeVotes[u.tx][u.outpoint] \ {SELF}
  BY <1>1, <1>2, <1>3 DEF TypeOK
<1> QED BY <1>1, <1>4 DEF StartRequest

\* Requests and votes: what they newly track was not seen before.
LEMMA VotesKeepVotes ==
    ASSUME TypeOK, VotesInChain,
           \/ \E t \in Tx : TXLOCKREQUEST(t) \/ WalletRequest(t)
           \/ \E v \in LockVote : TXLOCKVOTE(v) \/ ProcessOrphanTxLockVote(v)
    PROVE  VotesInChain'
<1> USE DEF candVars, orphanVars, chainVars
<1>1. ASSUME NEW t \in Tx, NEW orphans, NEW seen, NEW origin, t \in LockRequests,
             StartRequest(t, orphans, seen, origin), orphans = mapTxLockVotesOrphan',
             mapTxLockVotes \subseteq seen, UNCHANGED chain,
             \A u \in LockVote : u \in mapTxLockVotesOrphan' =>
                 u \in mapTxLockVotesOrphan \/ u \notin mapTxLockVotes
      PROVE  VotesInChain'
  <2>1. /\ seen \subseteq mapTxLockVotes' /\ UNCHANGED voteHeight
        /\ \A u \in LockVote :
              mapMasternodeVotes'[u.tx][u.outpoint] \ {SELF} =
                  mapMasternodeVotes[u.tx][u.outpoint] \ {SELF}
        /\ request'.todo = orphans /\ request'.tx # NoTx
    BY <1>1, RequestedVotes
  <2>2. TodoIsOrphan' BY <1>1, <2>1 DEF TodoIsOrphan
  <2>3. \A u \in LockVote : Tracked(u)' => Tracked(u) \/ u \notin mapTxLockVotes
    BY <1>1, <2>1 DEF Tracked
  <2> QED BY <1>1, <2>1, <2>2, <2>3, VotesKept
<1>2. ASSUME NEW v \in LockVote, NEW seen, CountVote(v, seen), UNCHANGED <<chain, voteHeight>>,
             mapTxLockVotes \subseteq seen, mapTxLockVotesOrphan' \subseteq mapTxLockVotesOrphan,
             v \in mapTxLockVotesOrphan \/ v \notin mapTxLockVotes, TodoIsOrphan'
      PROVE  VotesInChain'
  <2>1. /\ seen \subseteq mapTxLockVotes'
        /\ \A u \in LockVote : u.mn \in mapMasternodeVotes'[u.tx][u.outpoint] =>
              u = v \/ u.mn \in mapMasternodeVotes[u.tx][u.outpoint]
    BY <1>2, CountedVotes
  <2>2. \A u \in LockVote : Tracked(u)' => Tracked(u) \/ u \notin mapTxLockVotes
    BY <1>2, <2>1 DEF Tracked
  <2> QED BY <1>2, <2>1, <2>2, VotesKept
<1>3. ASSUME NEW t \in Tx, TXLOCKREQUEST(t) PROVE VotesInChain'
  <2>1. t \in LockRequests BY <1>3 DEF TXLOCKREQUEST, RequestPasses, RequestIsValid
  <2>2. /\ StartRequest(t, mapTxLockVotesOrphan, mapTxLockVotes, "message")
        /\ UNCHANGED <<chain, mapTxLockVotesOrphan>>
    BY <1>3 DEF TXLOCKREQUEST
  <2> QED BY <1>1, <2>1, <2>2
<1>4. ASSUME NEW t \in Tx, WalletRequest(t) PROVE VotesInChain'
  <2> DEFINE seen == SeenAfter(t, mapTxLockVotes, t \notin mempool)
  <2>1. UNCHANGED <<chain, mapTxLockVotesOrphan>> /\ mapTxLockVotes \subseteq seen
    BY <1>4 DEF WalletRequest, SeenAfter
  <2>2. CASE RequestPasses(t, mapTxLockVotesOrphan)
    <3>1. t \in LockRequests BY <2>2 DEF RequestPasses, RequestIsValid
    <3>2. StartRequest(t, mapTxLockVotesOrphan, seen, "wallet") BY <1>4, <2>2 DEF WalletRequest
    <3> HIDE DEF seen
    <3> QED BY <1>1, <2>1, <3>1, <3>2
  <2>3. CASE ~ RequestPasses(t, mapTxLockVotesOrphan)
    <3>1. mapTxLockVotes' = seen /\ UNCHANGED <<candVars, voteHeight, request>>
      BY <1>4, <2>3 DEF WalletRequest
    <3> HIDE DEF seen
    <3>2. TodoIsOrphan' BY <2>1, <3>1 DEF VotesInChain, TodoIsOrphan
    <3> QED BY <2>1, <3>1, <3>2, TrackedStays, VotesKept
  <2> QED BY <2>2, <2>3
<1>5. ASSUME NEW v \in LockVote, TXLOCKVOTE(v) PROVE VotesInChain'
  <2> DEFINE seen == mapTxLockVotes \cup {v}
  <2>1. UNCHANGED chain /\ v \notin mapTxLockVotes /\ mapTxLockVotes \subseteq seen
    BY <1>5 DEF TXLOCKVOTE
  <2>2. CASE /\ mapTxLockVotes' = seen
             /\ UNCHANGED <<candVars, voteHeight, orphanVars, request>>
    <3>1. TodoIsOrphan' BY <2>2 DEF VotesInChain, TodoIsOrphan
    <3> HIDE DEF seen
    <3> QED BY <2>1, <2>2, <3>1, TrackedStays, VotesKept
  <2>3. CASE CountVote(v, seen) /\ UNCHANGED <<voteHeight, orphanVars, request>>
    <3>1. TodoIsOrphan' BY <2>3 DEF VotesInChain, TodoIsOrphan
    <3> HIDE DEF seen
    <3> QED BY <1>2, <2>1, <2>3, <3>1
  <2>4. CASE OrphanVote(v)
    <3> DEFINE orphans == mapTxLockVotesOrphan \cup {v}
    <3>1. mapTxLockVotesOrphan' = orphans BY <2>4 DEF OrphanVote
    <3>2. \A u \in LockVote : u \in mapTxLockVotesOrphan' =>
              u \in mapTxLockVotesOrphan \/ u \notin mapTxLockVotes
      BY <2>1, <3>1
    <3>3. CASE RequestPasses(v.tx, orphans) /\ StartRequest(v.tx, orphans, seen, "vote")
      <4>1. v.tx \in Tx /\ v.tx \in LockRequests
        BY <3>3, VoteType DEF RequestPasses, RequestIsValid
      <4> HIDE DEF seen, orphans
      <4> QED BY <1>1, <2>1, <3>1, <3>2, <3>3, <4>1
    <3>4. CASE mapTxLockVotes' = seen /\ UNCHANGED <<candVars, voteHeight, request>>
      <4>1. TodoIsOrphan' BY <3>1, <3>4 DEF VotesInChain, TodoIsOrphan
      <4>2. \A u \in LockVote : Tracked(u)' => Tracked(u) \/ u \notin mapTxLockVotes
        BY <3>2, <3>4 DEF Tracked
      <4> HIDE DEF seen
      <4> QED BY <2>1, <3>4, <4>1, <4>2, VotesKept
    <3> QED BY <2>4, <3>3, <3>4 DEF OrphanVote
  <2> QED BY <1>5, <2>2, <2>3, <2>4 DEF TXLOCKVOTE
<1>6. ASSUME NEW v \in LockVote, ProcessOrphanTxLockVote(v) PROVE VotesInChain'
  <2>1. /\ v \in request.todo /\ request' = [request EXCEPT !.todo = @ \ {v}]
        /\ mapTxLockVotesOrphan' \in {mapTxLockVotesOrphan, mapTxLockVotesOrphan \ {v}}
        /\ UNCHANGED <<chain, voteHeight>> /\ request.tx # NoTx
    BY <1>6 DEF ProcessOrphanTxLockVote
  <2>2. request'.todo = request.todo \ {v} /\ request'.tx = request.tx
    BY <2>1 DEF TypeOK
  <2>3. TodoIsOrphan' BY <2>1, <2>2 DEF VotesInChain, TodoIsOrphan
  <2>4. v \in mapTxLockVotesOrphan BY <2>1 DEF VotesInChain, TodoIsOrphan
  <2>5. CASE CountVote(v, mapTxLockVotes) BY <1>2, <2>1, <2>3, <2>4, <2>5
  <2>6. CASE UNCHANGED <<candVars, mapTxLockVotes>>
    <3>1. \A u \in LockVote : Tracked(u)' => Tracked(u) BY <2>1, <2>6 DEF Tracked
    <3> QED BY <2>1, <2>3, <2>6, <3>1, VotesKept
  <2> QED BY <1>6, <2>5, <2>6 DEF ProcessOrphanTxLockVote
<1> QED BY <1>3, <1>4, <1>5, <1>6

\* The end of a request and of a replay enter orphans in mapTxLockVotes at most.
LEMMA HandlersKeepVotes ==
    ASSUME TypeOK, VotesInChain, FinishRequest \/ ResolveRecheck \/ ResolveLock
    PROVE  VotesInChain'
<1> USE DEF candVars, seenVars, orphanVars, chainVars
<1>1. /\ UNCHANGED <<chain, voteHeight, mapMasternodeVotes, mapTxLockVotesOrphan>>
      /\ request' \in {request, NoRequest}
  BY DEF FinishRequest, ResolveRecheck, ResolveLock
<1>2. mapTxLockVotes \subseteq mapTxLockVotes'
  <2>1. CASE FinishRequest
    <3>1. ResolveAndLock(request.tx, mapMasternodeVotes, mapTxLockVotes)
             \/ UNCHANGED mapTxLockVotes
      BY <2>1 DEF FinishRequest
    <3> QED BY <3>1 DEF ResolveAndLock, SeenAfter
  <2>2. CASE ResolveRecheck BY <2>2 DEF ResolveRecheck, SeenAfter
  <2>3. CASE ResolveLock BY <2>3 DEF ResolveLock
  <2> QED BY <2>1, <2>2, <2>3
<1>3. TodoIsOrphan' BY <1>1 DEF VotesInChain, TodoIsOrphan, NoRequest
<1> QED BY <1>1, <1>2, <1>3, TrackedStays, VotesKept

\* CheckAndRemove() takes the heights of the votes it forgets along.
LEMMA RemovalVotes ==
    ASSUME TypeOK, VotesInChain, CheckAndRemove
    PROVE  VotesInChain'
<1> DEFINE late == {v \in mapTxLockVotesOrphan : now - voteTime[v] > ORPHAN_VOTE_SECONDS}
           forgotten == late \cup {v \in mapTxLockVotes : IsExpired(voteHeight[v])}
<1>1. /\ voteHeight' = [v \in LockVote |-> IF v \in forgotten THEN -1 ELSE voteHeight[v]]
      /\ mapTxLockVotes' = mapTxLockVotes \ forgotten
      /\ mapTxLockVotesOrphan' = mapTxLockVotesOrphan \ late
      /\ UNCHANGED <<chain, request>> /\ request.tx = NoTx
  BY Zenon DEF CheckAndRemove, chainVars, Busy
<1> HIDE DEF late, forgotten
<1>2. \A t \in Tx, o \in OutPoint : mapMasternodeVotes'[t][o] \subseteq mapMasternodeVotes[t][o]
  <2>1. /\ \A t \in Tx \ Dead : mapMasternodeVotes'[t] = mapMasternodeVotes[t]
        /\ \A t \in Dead, o \in OutPoint : mapMasternodeVotes'[t][o] = {}
    BY RemovalEffect
  <2> QED BY <2>1
<1>3. TodoIsOrphan' BY <1>1 DEF VotesInChain, TodoIsOrphan
<1> SUFFICES ASSUME NEW v \in LockVote
             PROVE  /\ v \notin mapTxLockVotes' => voteHeight'[v] = -1
                    /\ Tracked(v)' => PlacedIn(chain', v.tx, voteHeight'[v])
  BY <1>3 DEF VotesInChain
<1>4. v.tx \in Tx /\ v.outpoint \in OutPoint BY VoteType
<1>5. /\ v \notin mapTxLockVotes => voteHeight[v] = -1
      /\ Tracked(v) => PlacedIn(chain, v.tx, voteHeight[v])
  BY DEF VotesInChain
<1>6. Tracked(v)' => Tracked(v) BY <1>1, <1>2, <1>4 DEF Tracked
<1> QED BY <1>1, <1>5, <1>6 DEF PlacedIn

\* Every step keeps the heights of the tracked votes in the chain.
LEMMA VotesStep == IInv /\ VotesInChain /\ [Next]_vars => VotesInChain'
<1> SUFFICES ASSUME IInv, VotesInChain, [Next]_vars PROVE VotesInChain' OBVIOUS
<1> USE DEF IInv, TypeInv
<1>1. CASE \/ \E t \in Tx : TXLOCKREQUEST(t) \/ WalletRequest(t)
           \/ \E v \in LockVote : TXLOCKVOTE(v) \/ ProcessOrphanTxLockVote(v)
  BY <1>1, VotesKeepVotes
<1>2. CASE FinishRequest \/ ResolveRecheck \/ ResolveLock BY <1>2, HandlersKeepVotes
<1>3. CASE AcceptLockRequest \/ \E t \in Tx : AcceptTx(t) BY <1>3, AcceptedVotes
<1>4. ASSUME NEW b \in Tx \cup {NoTx}, ConnectBlock(b) PROVE VotesInChain'
  BY <1>4, ConnectVotes DEF ConnectBlock, Block, orphanVars
<1>5. CASE DisconnectBlock BY <1>5, DisconnectVotes DEF DisconnectBlock, orphanVars
<1>6. CASE ResolveDisconnect
  <2>1. /\ resolve.tx \in Tx /\ NeedsReplay(resolve.tx) /\ DisconnectTip
        /\ UNCHANGED <<mapTxLockVotesOrphan, request>>
    BY <1>6 DEF ResolveDisconnect, Replay, TypeOK, orphanVars
  <2> QED BY <2>1, ReplayHasBlocks, DisconnectVotes
<1>7. CASE ResolveActivate
  <2>1. UNCHANGED <<mapTxLockVotesOrphan, request>> BY <1>7 DEF ResolveActivate, orphanVars
  <2>2. CASE ConnectTip(Head(resolve.undone)) /\ resolve.undone # << >>
    <3>1. Head(resolve.undone) \in Block BY <2>2 DEF TypeOK, Block
    <3> QED BY <2>1, <2>2, <3>1, ConnectVotes
  <2>3. CASE UNCHANGED <<candVars, seenVars, chain>>
    <3>1. TodoIsOrphan' BY <2>1 DEF VotesInChain, TodoIsOrphan
    <3> QED BY <2>1, <2>3, <3>1, TrackedStays, VotesKept DEF candVars, seenVars
  <2> QED BY <1>7, <2>2, <2>3 DEF ResolveActivate
<1>8. CASE CheckAndRemove BY <1>8, RemovalVotes
<1>9. CASE \/ UpdatedBlockTip \/ (\E m \in MN \ StableMN : UpdateMasternodeList(m))
           \/ (\E f \in Toggles : Toggle(f)) \/ Tick \/ UNCHANGED vars
  <2>1. UNCHANGED <<chain, mapMasternodeVotes, mapTxLockVotes, voteHeight, mapTxLockVotesOrphan,
                    request>>
    BY <1>9 DEF UpdatedBlockTip, UpdateMasternodeList, Toggle, Tick, UNCHANGED_CInstantSend,
       vars, candVars, seenVars, orphanVars, chainVars
  <2>2. TodoIsOrphan' BY <2>1 DEF VotesInChain, TodoIsOrphan
  <2> QED BY <2>1, <2>2, TrackedStays, VotesKept
<1> QED BY <1>1, <1>2, <1>3, <1>4, <1>5, <1>6, <1>7, <1>8, <1>9 DEF Next, HandlerStep

\* A candidate's height, and that of an orphan vote or a counted vote of another masternode, is
\* one at which its transaction is in the active chain (ConfirmedHeightsInChain), for any
\* interleaving of requests, votes, orphans, expiry, reorganisations and replays.
THEOREM HeightsFollowChain == Spec => []ConfirmedHeightsInChain
<1>1. Init => VotesInChain
  BY DEF Init, VotesInChain, TodoIsOrphan, PlacedIn, NoRequest
<1>2. TypeOK /\ HeightsInChain /\ VotesInChain => ConfirmedHeightsInChain
  <2> SUFFICES ASSUME TypeOK, HeightsInChain, VotesInChain PROVE ConfirmedHeightsInChain OBVIOUS
  <2>1. \A t \in mapTxLockCandidates :
            candidateHeight[t] = -1
            \/ (candidateHeight[t] \in 1..Len(chain) /\ chain[candidateHeight[t]] = t)
    BY DEF HeightsInChain, InChain, TypeOK
  <2>2. \A v \in mapTxLockVotes :
            \/ v \in mapTxLockVotesOrphan
            \/ v.mn # SELF /\ v.mn \in mapMasternodeVotes[v.tx][v.outpoint]
            => voteHeight[v] = -1
               \/ (voteHeight[v] \in 1..Len(chain) /\ chain[voteHeight[v]] = v.tx)
    BY DEF VotesInChain, Tracked, PlacedIn, TypeOK
  <2> QED BY <2>1, <2>2 DEF ConfirmedHeightsInChain
<1> QED BY <1>1, <1>2, VotesStep, Invariance, TypeCorrect, ExpiryFollowsChain, PTL DEF Spec
-----------------------------------------------------------------------------
(* This masternode's own votes. *)

\* A spend of o deeper below the highest tip so far than votes and candidates are kept.
BuriedSpend(o) ==
    \E i \in 1..Len(chain) : /\ chain[i] # NoTx /\ o \in Inputs[chain[i]]
                             /\ peak - i > nInstantSendKeepLock

\* No block is undone that lies nInstantSendKeepLock blocks or more below the highest tip.
Shallow == Len(chain') < Len(chain) => peak - Len(chain) < nInstantSendKeepLock
ShallowReorgs == [][Shallow]_vars

\* No tip, notified or not, and no chain a replay may connect again is above the highest tip.
Depths ==
    /\ pCurrentBlockIndex <= peak /\ notify <= peak
    /\ Len(chain) + Len(resolve.undone) <= peak

\* What this masternode signed is on record until the outpoint's spend is buried.
OwnRecorded ==
    \A w \in signed :
        /\ w.mn = SELF
        /\ \/ BuriedSpend(w.outpoint)
           \/ /\ w.tx \in mapVotedOutpoints[w.outpoint]
              /\ SELF \in mapMasternodeVotes[w.tx][w.outpoint]

\* The lengths of the chain and of what a replay undid are numbers.
LEMMA Lengths ==
    ASSUME TypeOK
    PROVE  /\ chain \in Seq(Block) /\ resolve.undone \in Seq(Block)
           /\ Len(chain) \in Nat /\ Len(resolve.undone) \in Nat
           /\ peak \in Nat /\ pCurrentBlockIndex \in Nat /\ notify \in Int
<1>1. chain \in Seq(Block) /\ resolve.undone \in Seq(Block) BY DEF TypeOK, Block
<1>2. Len(chain) \in Nat /\ Len(resolve.undone) \in Nat BY <1>1, LenProperties
<1> QED BY <1>1, <1>2, NumberAssumption DEF TypeOK, Heights

\* What a step does to the chain: nothing, a block on top, or the tip off.
ChainMove ==
    \/ /\ UNCHANGED <<chain, peak>> /\ resolve'.undone \in {resolve.undone, << >>}
    \/ \E b \in Block : /\ ConnectTip(b) /\ UNCHANGED resolve
                        /\ peak' = Max({peak, Len(chain) + 1}) /\ resolve.tx = NoTx
    \/ \E b \in Block : /\ ConnectTip(b) /\ UNCHANGED peak /\ resolve.undone # << >>
                        /\ resolve'.undone = Tail(resolve.undone)
    \/ /\ chain # << >> /\ DisconnectTip /\ UNCHANGED <<peak, resolve>>
    \/ /\ chain # << >> /\ DisconnectTip /\ UNCHANGED peak
       /\ resolve'.undone = <<chain[Len(chain)]>> \o resolve.undone

\* Every step moves the chain in one of these ways.
LEMMA ChainMoves ==
    ASSUME IInv, [Next]_vars
    PROVE  ChainMove
<1> USE DEF IInv, TypeInv
<1>1. CASE \/ \E t \in Tx : TXLOCKREQUEST(t) \/ WalletRequest(t) \/ AcceptTx(t)
           \/ AcceptLockRequest \/ CheckAndRemove
           \/ UpdatedBlockTip \/ (\E m \in MN \ StableMN : UpdateMasternodeList(m))
           \/ (\E f \in Toggles : Toggle(f)) \/ Tick \/ UNCHANGED vars
  <2>1. UNCHANGED <<chain, peak, resolve>>
    BY <1>1 DEF TXLOCKREQUEST, WalletRequest, AcceptTx, AcceptLockRequest, CheckAndRemove,
       UpdatedBlockTip, UpdateMasternodeList, Toggle, Tick, UNCHANGED_CInstantSend,
       vars, chainVars
  <2> QED BY <2>1 DEF ChainMove
<1>2. ASSUME NEW t \in Tx, NEW votes, NEW seen, ResolveAndLock(t, votes, seen),
             UNCHANGED <<chain, peak>>
      PROVE  ChainMove
  <2>1. resolve' \in {resolve, [tx |-> t, stage |-> "disconnect", undone |-> << >>]}
    BY <1>2 DEF ResolveAndLock
  <2>2. resolve'.undone \in {resolve.undone, << >>} BY <2>1
  <2> QED BY <1>2, <2>2 DEF ChainMove
<1>3. ASSUME NEW v \in LockVote, NEW seen, CountVote(v, seen), UNCHANGED <<chain, peak>>
      PROVE  ChainMove
  <2> DEFINE votes == [mapMasternodeVotes EXCEPT ![v.tx][v.outpoint] = @ \cup {v.mn}]
  <2>1. ResolveAndLock(v.tx, votes, seen) \/ UNCHANGED resolve BY <1>3 DEF CountVote
  <2>2. v.tx \in Tx BY VoteType
  <2> HIDE DEF votes
  <2> QED BY <1>2, <1>3, <2>1, <2>2 DEF ChainMove
<1>4. ASSUME NEW v \in LockVote, TXLOCKVOTE(v) \/ ProcessOrphanTxLockVote(v) PROVE ChainMove
  <2>1. UNCHANGED <<chain, peak>>
    BY <1>4 DEF TXLOCKVOTE, ProcessOrphanTxLockVote, chainVars
  <2>2. \/ CountVote(v, mapTxLockVotes \cup {v}) \/ CountVote(v, mapTxLockVotes)
        \/ UNCHANGED resolve
    BY <1>4 DEF TXLOCKVOTE, OrphanVote, ProcessOrphanTxLockVote
  <2> QED BY <1>3, <2>1, <2>2 DEF ChainMove
<1>5. CASE FinishRequest
  <2>1. UNCHANGED <<chain, peak>> /\ request.tx \in Tx
    BY <1>5 DEF FinishRequest, chainVars, TypeOK
  <2>2. ResolveAndLock(request.tx, mapMasternodeVotes, mapTxLockVotes) \/ UNCHANGED resolve
    BY <1>5 DEF FinishRequest
  <2> QED BY <1>2, <2>1, <2>2 DEF ChainMove
<1>6. CASE ResolveRecheck \/ ResolveLock
  <2>1. UNCHANGED <<chain, peak>> BY <1>6 DEF ResolveRecheck, ResolveLock, chainVars
  <2>2. resolve'.undone \in {resolve.undone, << >>}
    BY <1>6 DEF ResolveRecheck, ResolveLock, NoResolve, TypeOK
  <2> QED BY <2>1, <2>2 DEF ChainMove
<1>7. ASSUME NEW b \in Tx \cup {NoTx}, ConnectBlock(b) PROVE ChainMove
  BY <1>7 DEF ConnectBlock, ChainMove, Block, Busy
<1>8. CASE DisconnectBlock BY <1>8 DEF DisconnectBlock, ChainMove
<1>9. CASE ResolveDisconnect
  <2>1. resolve.tx \in Tx /\ NeedsReplay(resolve.tx) /\ DisconnectTip /\ UNCHANGED peak
    BY <1>9 DEF ResolveDisconnect, Replay, TypeOK
  <2>2. resolve'.undone = <<chain[Len(chain)]>> \o resolve.undone
    BY <1>9 DEF ResolveDisconnect, TypeOK
  <2> QED BY <2>1, <2>2, ReplayHasBlocks DEF ChainMove
<1>10. CASE ResolveActivate
  <2>1. UNCHANGED peak /\ resolve.undone # << >> BY <1>10 DEF ResolveActivate
  <2>2. Head(resolve.undone) \in Block BY <2>1 DEF TypeOK, Block
  <2>3. CASE ConnectTip(Head(resolve.undone)) /\ resolve' = [resolve EXCEPT !.undone = Tail(@)]
    <3>1. resolve'.undone = Tail(resolve.undone) BY <2>3 DEF TypeOK
    <3> QED BY <2>1, <2>2, <2>3, <3>1 DEF ChainMove
  <2>4. CASE UNCHANGED chain /\ resolve' = [resolve EXCEPT !.undone = << >>]
    <3>1. resolve'.undone = << >> BY <2>4 DEF TypeOK
    <3> QED BY <2>1, <2>4, <3>1 DEF ChainMove
  <2> QED BY <1>10, <2>3, <2>4 DEF ResolveActivate
<1> QED BY <1>1, <1>4, <1>5, <1>6, <1>7, <1>8, <1>9, <1>10 DEF Next, HandlerStep

\* The highest tip only rises.
LEMMA PeakRises ==
    ASSUME TypeOK, peak' = Max({peak, Len(chain) + 1})
    PROVE  peak' \in Nat /\ peak' >= peak /\ peak' >= Len(chain) + 1
<1>1. peak \in Nat /\ Len(chain) \in Nat BY Lengths
<1> DEFINE n == Len(chain) + 1
<1>2. peak \in Int /\ n \in Int BY <1>1
<1>3. peak' = Max({peak, n}) OBVIOUS
<1> HIDE DEF n
<1>4. peak' \in {peak, n} /\ peak' >= peak /\ peak' >= n BY <1>2, <1>3, MaxOfTwo
<1> QED BY <1>1, <1>4 DEF n

\* No tip gets above the highest one.
LEMMA DepthsStep ==
    ASSUME IInv, TypeOK', Depths, [Next]_vars
    PROVE  Depths'
<1> USE DEF IInv, TypeInv
<1>0. /\ chain \in Seq(Block) /\ resolve.undone \in Seq(Block)
      /\ Len(chain) \in Nat /\ Len(resolve.undone) \in Nat
      /\ peak \in Nat /\ pCurrentBlockIndex \in Nat /\ notify \in Int
  BY Lengths
<1>1. /\ peak' \in Nat /\ peak <= peak'
      /\ Len(chain') + Len(resolve'.undone) <= peak'
  <2>1. CASE UNCHANGED <<chain, peak>> /\ resolve'.undone \in {resolve.undone, << >>}
    BY <1>0, <2>1, EmptySeq DEF Depths
  <2>2. ASSUME NEW b \in Block, ConnectTip(b), UNCHANGED resolve,
               peak' = Max({peak, Len(chain) + 1}), resolve.tx = NoTx
        PROVE  /\ peak' \in Nat /\ peak <= peak'
               /\ Len(chain') + Len(resolve'.undone) <= peak'
    <3>1. Len(chain') = Len(chain) + 1 BY <2>2, ChainWithTip
    <3>2. resolve.undone = << >> /\ Len(<< >>) = 0 BY <2>2, EmptySeq DEF Replay
    <3>3. peak' \in Nat /\ peak' >= peak /\ peak' >= Len(chain) + 1 BY <2>2, PeakRises
    <3> QED BY <1>0, <2>2, <3>1, <3>2, <3>3
  <2>3. ASSUME NEW b \in Block, ConnectTip(b), UNCHANGED peak, resolve.undone # << >>,
               resolve'.undone = Tail(resolve.undone)
        PROVE  /\ peak' \in Nat /\ peak <= peak'
               /\ Len(chain') + Len(resolve'.undone) <= peak'
    <3>1. Len(chain') = Len(chain) + 1 BY <2>3, ChainWithTip
    <3>2. Len(resolve'.undone) = Len(resolve.undone) - 1 BY <1>0, <2>3, HeadTailProperties
    <3>3. Len(chain) + Len(resolve.undone) <= peak BY DEF Depths
    <3>4. Len(chain') + Len(resolve'.undone) = Len(chain) + Len(resolve.undone)
      <4> DEFINE m == Len(chain)
                 n == Len(resolve.undone)
      <4>1. m \in Nat /\ n \in Nat BY <1>0
      <4> HIDE DEF m, n
      <4>2. (m + 1) + (n - 1) = m + n BY <4>1
      <4> QED BY <3>1, <3>2, <4>2 DEF m, n
    <3>5. peak' = peak BY <2>3
    <3> QED BY <1>0, <3>3, <3>4, <3>5
  <2>4. CASE chain # << >> /\ DisconnectTip /\ UNCHANGED <<peak, resolve>>
    <3>1. Len(chain') = Len(chain) - 1 BY <2>4, ChainWithoutTip
    <3> QED BY <1>0, <2>4, <3>1 DEF Depths
  <2>5. CASE /\ chain # << >> /\ DisconnectTip /\ UNCHANGED peak
             /\ resolve'.undone = <<chain[Len(chain)]>> \o resolve.undone
    <3>1. Len(chain') = Len(chain) - 1 BY <2>5, ChainWithoutTip
    <3>2. chain[Len(chain)] \in Block BY <1>0, <2>5, WithoutLast
    <3>3. Len(resolve'.undone) = Len(resolve.undone) + 1
      <4>1. <<chain[Len(chain)]>> \in Seq(Block) /\ Len(<<chain[Len(chain)]>>) = 1 BY <3>2
      <4> QED BY <1>0, <2>5, <4>1, ConcatProperties
    <3> QED BY <1>0, <2>5, <3>1, <3>3 DEF Depths
  <2> QED BY <2>1, <2>2, <2>3, <2>4, <2>5, ChainMoves DEF ChainMove
<1>2. pCurrentBlockIndex' <= peak' /\ notify' <= peak'
  <2>1. \/ pCurrentBlockIndex' \in {pCurrentBlockIndex, notify}
        \/ pCurrentBlockIndex' = Len(chain) + 1 /\ resolve.undone # << >>
    BY DEF Next, HandlerStep, TXLOCKREQUEST, WalletRequest, AcceptTx, TXLOCKVOTE,
       ProcessOrphanTxLockVote, FinishRequest, ResolveDisconnect, ResolveRecheck,
       ResolveActivate, ResolveLock, AcceptLockRequest, CheckAndRemove, ConnectBlock,
       DisconnectBlock, UpdatedBlockTip, UpdateMasternodeList, Toggle, Tick,
       UNCHANGED_CInstantSend, vars, tipVars
  <2>2. notify' \in {notify, -1} \/ \E b \in Block : ConnectBlock(b)
    BY DEF Next, HandlerStep, TXLOCKREQUEST, WalletRequest, AcceptTx, TXLOCKVOTE,
       ProcessOrphanTxLockVote, FinishRequest, ResolveDisconnect, ResolveRecheck,
       ResolveActivate, ResolveLock, AcceptLockRequest, CheckAndRemove, Block,
       DisconnectBlock, UpdatedBlockTip, UpdateMasternodeList, Toggle, Tick,
       UNCHANGED_CInstantSend, vars, tipVars
  <2>3. resolve.undone # << >> => Len(chain) + 1 <= peak
    <3>1. resolve.undone # << >> => Len(resolve.undone) >= 1 BY <1>0, EmptySeq
    <3> QED BY <1>0, <3>1 DEF Depths
  <2>4. pCurrentBlockIndex' <= peak' BY <1>0, <1>1, <2>1, <2>3 DEF Depths
  <2>5. ASSUME NEW b \in Block, ConnectBlock(b) PROVE notify' <= peak'
    <3>1. notify' = Len(chain) + 1 /\ peak' = Max({peak, Len(chain) + 1})
      BY <2>5 DEF ConnectBlock
    <3>2. peak' >= Len(chain) + 1 BY <3>1, PeakRises
    <3> QED BY <1>0, <1>1, <3>1, <3>2
  <2> QED BY <1>0, <1>1, <2>2, <2>4, <2>5 DEF Depths
<1> QED BY <1>1, <1>2 DEF Depths

\* A shallow step leaves a buried spend where it is, as deep or deeper.
LEMMA BuriedStays ==
    ASSUME IInv, [Next]_vars, Shallow, NEW o \in OutPoint, BuriedSpend(o)
    PROVE  BuriedSpend(o)'
<1> USE DEF IInv, TypeInv
<1>0. /\ chain \in Seq(Block) /\ resolve.undone \in Seq(Block)
      /\ Len(chain) \in Nat /\ Len(resolve.undone) \in Nat
      /\ peak \in Nat /\ pCurrentBlockIndex \in Nat /\ notify \in Int
  BY Lengths
<1>1. PICK i \in 1..Len(chain) : /\ chain[i] # NoTx /\ o \in Inputs[chain[i]]
                                 /\ peak - i > nInstantSendKeepLock
  BY DEF BuriedSpend
<1>2. CASE UNCHANGED <<chain, peak>> BY <1>2 DEF BuriedSpend
<1>3. ASSUME NEW b \in Block, ConnectTip(b), peak' \in Nat, peak' >= peak
      PROVE  BuriedSpend(o)'
  <2>1. i \in 1..Len(chain') /\ chain'[i] = chain[i] BY <1>3, ChainWithTip
  <2>2. peak' - i > nInstantSendKeepLock BY <1>0, <1>1, <1>3, NumberAssumption
  <2> QED BY <1>1, <2>1, <2>2 DEF BuriedSpend
<1>4. CASE chain # << >> /\ DisconnectTip /\ UNCHANGED peak
  <2>1. /\ Len(chain) \in Nat \ {0} /\ Len(chain') = Len(chain) - 1
        /\ \A j \in 1..(Len(chain) - 1) : j \in 1..Len(chain') /\ chain'[j] = chain[j]
    BY <1>4, ChainWithoutTip
  <2>2. peak - Len(chain) < nInstantSendKeepLock BY <1>0, <2>1 DEF Shallow
  <2>3. i \in 1..(Len(chain) - 1) BY <1>0, <1>1, <2>1, <2>2, NumberAssumption
  <2> QED BY <1>1, <1>4, <2>1, <2>3 DEF BuriedSpend
<1>5. ASSUME peak' = Max({peak, Len(chain) + 1}) PROVE peak' \in Nat /\ peak' >= peak
  BY <1>5, PeakRises
<1>6. UNCHANGED peak => peak' \in Nat /\ peak' >= peak BY <1>0
<1> QED BY <1>2, <1>3, <1>4, <1>5, <1>6, ChainMoves DEF ChainMove

\* Vote() signs for t, and records what it signs.
Signs(t) ==
    /\ signed' = signed \cup {[tx |-> t, outpoint |-> o, mn |-> SELF] : o \in OutpointsToVote(t)}
    /\ \A o \in OutPoint : mapVotedOutpoints'[o] =
          IF o \in OutpointsToVote(t) THEN mapVotedOutpoints[o] \cup {t} ELSE mapVotedOutpoints[o]
    /\ \A o \in OutpointsToVote(t) : SELF \in mapMasternodeVotes'[t][o]

SignsNothing ==
    UNCHANGED signed /\ \A o \in OutPoint : mapVotedOutpoints[o] \subseteq mapVotedOutpoints'[o]

\* A request that starts signs.
LEMMA RequestSigns ==
    ASSUME TypeOK, NEW t \in LockRequests, NEW orphans, NEW seen, NEW origin,
           StartRequest(t, orphans, seen, origin)
    PROVE  \E u \in LockRequests : Signs(u)
<1>1. t \in Tx /\ \A o \in OutpointsToVote(t) : o \in OutPoint
  BY TxAssumption DEF OutpointsToVote
<1>2. mapMasternodeVotes' = [mapMasternodeVotes EXCEPT ![t] =
          [o \in OutPoint |-> IF o \in OutpointsToVote(t) THEN @[o] \cup {SELF} ELSE @[o]]]
  BY DEF StartRequest
<1>3. \A o \in OutpointsToVote(t) : SELF \in mapMasternodeVotes'[t][o]
  BY <1>1, <1>2 DEF TypeOK
<1>4. Signs(t) BY <1>3 DEF StartRequest, Signs
<1> QED BY <1>4

\* Only a request that starts signs, and only CheckAndRemove() forgets.
LEMMA SigningStep ==
    ASSUME IInv, [Next]_vars, ~ CheckAndRemove
    PROVE  SignsNothing \/ \E t \in LockRequests : Signs(t)
<1> USE DEF IInv, TypeInv
<1>1. ASSUME UNCHANGED <<signed, mapVotedOutpoints>> PROVE SignsNothing
  BY <1>1 DEF SignsNothing
<1>2. ASSUME NEW t \in Tx, TXLOCKREQUEST(t)
      PROVE  SignsNothing \/ \E u \in LockRequests : Signs(u)
  <2>1. t \in LockRequests BY <1>2 DEF TXLOCKREQUEST, RequestPasses, RequestIsValid
  <2>2. StartRequest(t, mapTxLockVotesOrphan, mapTxLockVotes, "message")
    BY <1>2 DEF TXLOCKREQUEST
  <2> QED BY <2>1, <2>2, RequestSigns
<1>3. ASSUME NEW t \in Tx, WalletRequest(t)
      PROVE  SignsNothing \/ \E u \in LockRequests : Signs(u)
  <2> DEFINE seen == SeenAfter(t, mapTxLockVotes, t \notin mempool)
  <2>1. CASE RequestPasses(t, mapTxLockVotesOrphan)
    <3>1. t \in LockRequests BY <2>1 DEF RequestPasses, RequestIsValid
    <3>2. StartRequest(t, mapTxLockVotesOrphan, seen, "wallet") BY <1>3, <2>1 DEF WalletRequest
    <3> HIDE DEF seen
    <3> QED BY <3>1, <3>2, RequestSigns
  <2>2. CASE ~ RequestPasses(t, mapTxLockVotesOrphan)
    BY <1>1, <1>3, <2>2 DEF WalletRequest
  <2> QED BY <2>1, <2>2
<1>4. ASSUME NEW v \in LockVote, NEW seen, CountVote(v, seen), UNCHANGED signed
      PROVE  SignsNothing
  BY <1>4, VoteType DEF CountVote, SignsNothing, TypeOK
<1>5. ASSUME NEW v \in LockVote, TXLOCKVOTE(v)
      PROVE  SignsNothing \/ \E u \in LockRequests : Signs(u)
  <2> DEFINE seen == mapTxLockVotes \cup {v}
             orphans == mapTxLockVotesOrphan \cup {v}
  <2>1. CASE CountVote(v, seen) /\ UNCHANGED signed
    <3> HIDE DEF seen
    <3> QED BY <1>4, <2>1
  <2>2. CASE UNCHANGED <<signed, mapVotedOutpoints>> BY <1>1, <2>2
  <2>3. CASE RequestPasses(v.tx, orphans) /\ StartRequest(v.tx, orphans, seen, "vote")
    <3>1. v.tx \in LockRequests BY <2>3 DEF RequestPasses, RequestIsValid
    <3> HIDE DEF seen, orphans
    <3> QED BY <2>3, <3>1, RequestSigns
  <2> QED BY <1>5, <2>1, <2>2, <2>3 DEF TXLOCKVOTE, OrphanVote
<1>6. ASSUME NEW v \in LockVote, ProcessOrphanTxLockVote(v) PROVE SignsNothing
  <2>1. CASE CountVote(v, mapTxLockVotes)
    BY <1>4, <1>6, <2>1 DEF ProcessOrphanTxLockVote
  <2>2. CASE ~ CountVote(v, mapTxLockVotes)
    BY <1>1, <1>6, <2>2 DEF ProcessOrphanTxLockVote
  <2> QED BY <2>1, <2>2
<1>7. CASE \/ FinishRequest \/ ResolveDisconnect \/ ResolveRecheck \/ ResolveActivate
           \/ ResolveLock \/ AcceptLockRequest \/ (\E t \in Tx : AcceptTx(t))
           \/ (\E b \in Tx \cup {NoTx} : ConnectBlock(b)) \/ DisconnectBlock
           \/ UpdatedBlockTip \/ (\E m \in MN \ StableMN : UpdateMasternodeList(m))
           \/ (\E f \in Toggles : Toggle(f)) \/ Tick \/ UNCHANGED vars
  BY <1>1, <1>7 DEF FinishRequest, ResolveDisconnect, ResolveRecheck, ResolveActivate,
     ResolveLock, AcceptLockRequest, AcceptTx, ConnectBlock, DisconnectBlock, UpdatedBlockTip,
     UpdateMasternodeList, Toggle, Tick, UNCHANGED_CInstantSend, vars
<1> QED BY <1>2, <1>3, <1>5, <1>6, <1>7 DEF Next, HandlerStep

\* What CheckAndRemove() forgets of this masternode's votes is buried.
LEMMA RemovalRecorded ==
    ASSUME IInv, HeightsInChain, Depths, OwnRecorded, CheckAndRemove
    PROVE  OwnRecorded'
<1> USE DEF IInv, TypeInv
<1>1. /\ \A t \in Tx \ Dead : mapMasternodeVotes'[t] = mapMasternodeVotes[t]
      /\ \A o \in OutPoint : mapVotedOutpoints'[o] =
            IF \E t \in Dead : o \in Inputs[t] THEN {} ELSE mapVotedOutpoints[o]
  BY RemovalEffect
<1>2. UNCHANGED <<chain, peak, signed>> BY DEF CheckAndRemove, chainVars
<1> SUFFICES ASSUME NEW w \in signed
             PROVE  /\ w.mn = SELF
                    /\ \/ BuriedSpend(w.outpoint)
                       \/ /\ w.tx \in mapVotedOutpoints'[w.outpoint]
                          /\ SELF \in mapMasternodeVotes'[w.tx][w.outpoint]
  BY <1>2 DEF OwnRecorded, BuriedSpend
<1>3. w.tx \in Tx /\ w.outpoint \in OutPoint /\ w.outpoint \in Inputs[w.tx]
  BY VoteType DEF TypeOK
<1>4. ASSUME NEW t \in Dead, w.outpoint \in Inputs[t] PROVE BuriedSpend(w.outpoint)
  <2>1. /\ t \in Tx /\ candidateHeight[t] # -1
        /\ pCurrentBlockIndex - candidateHeight[t] > nInstantSendKeepLock
    BY <1>4 DEF Dead, IsExpired, TypeOK
  <2>2. candidateHeight[t] \in 1..Len(chain) /\ chain[candidateHeight[t]] = t
    BY <2>1 DEF HeightsInChain, InChain
  <2>3. candidateHeight[t] \in Int BY <2>1 DEF TypeOK, Heights
  <2>4. peak \in Nat /\ pCurrentBlockIndex \in Nat /\ nInstantSendKeepLock \in Nat
    BY Lengths, NumberAssumption
  <2>5. pCurrentBlockIndex <= peak BY DEF Depths
  <2>6. peak - candidateHeight[t] > nInstantSendKeepLock BY <2>1, <2>3, <2>4, <2>5
  <2> QED BY <1>4, <2>1, <2>2, <2>6, TxAssumption DEF BuriedSpend
<1>5. CASE \E t \in Dead : w.outpoint \in Inputs[t] BY <1>4, <1>5 DEF OwnRecorded
<1>6. CASE ~ \E t \in Dead : w.outpoint \in Inputs[t]
  <2>1. w.tx \in Tx \ Dead BY <1>3, <1>6
  <2> QED BY <1>1, <1>3, <1>6, <2>1 DEF OwnRecorded
<1> QED BY <1>5, <1>6

\* Every shallow step keeps this masternode's votes on record, or their outpoints buried.
LEMMA RecordedStep ==
    ASSUME IInv, IInv', HeightsInChain, Depths, OwnRecorded, [Next]_vars, Shallow
    PROVE  OwnRecorded'
<1> USE DEF IInv, TypeInv
<1>1. CASE CheckAndRemove BY <1>1, RemovalRecorded
<1>2. CASE Growing /\ ~ CheckAndRemove
  <2>1. \A t \in Tx, o \in OutPoint : mapMasternodeVotes[t][o] \subseteq mapMasternodeVotes'[t][o]
    BY <1>2 DEF Growing, Gains
  <2>2. \A o \in OutPoint : mapVotedOutpoints[o] \subseteq mapVotedOutpoints'[o]
    BY <1>2, SigningStep DEF SignsNothing, Signs
  <2>3. ASSUME NEW w \in signed
        PROVE  /\ w.mn = SELF
               /\ \/ BuriedSpend(w.outpoint)'
                  \/ /\ w.tx \in mapVotedOutpoints'[w.outpoint]
                     /\ SELF \in mapMasternodeVotes'[w.tx][w.outpoint]
    <3>1. w.tx \in Tx /\ w.outpoint \in OutPoint BY VoteType DEF TypeOK
    <3>2. BuriedSpend(w.outpoint) => BuriedSpend(w.outpoint)' BY <3>1, BuriedStays
    <3> QED BY <2>1, <2>2, <3>1, <3>2 DEF OwnRecorded
  <2>4. ASSUME NEW t \in LockRequests, Signs(t), NEW w \in signed', w \notin signed
        PROVE  /\ w.mn = SELF /\ w.tx \in mapVotedOutpoints'[w.outpoint]
               /\ SELF \in mapMasternodeVotes'[w.tx][w.outpoint]
    <3>1. PICK o \in OutpointsToVote(t) : w = [tx |-> t, outpoint |-> o, mn |-> SELF]
      BY <2>4 DEF Signs
    <3>2. t \in Tx /\ o \in OutPoint BY <3>1, TxAssumption DEF OutpointsToVote
    <3>3. w.tx = t /\ w.outpoint = o /\ w.mn = SELF BY <3>1
    <3> QED BY <2>4, <3>2, <3>3 DEF Signs
  <2>5. CASE SignsNothing BY <2>3, <2>5 DEF SignsNothing, OwnRecorded
  <2>6. CASE \E t \in LockRequests : Signs(t) BY <2>3, <2>4, <2>6 DEF OwnRecorded
  <2> QED BY <1>2, <2>5, <2>6, SigningStep
<1> QED BY <1>1, <1>2, GrowingStep

\* A vote that is on record, or buried, keeps Vote() from signing another.
LEMMA OnceStep ==
    ASSUME IInv, OwnRecorded, OwnVoteOnce, [Next]_vars
    PROVE  OwnVoteOnce'
<1> USE DEF IInv, TypeInv
<1>1. CASE UNCHANGED signed BY <1>1 DEF OwnVoteOnce
<1>2. ASSUME NEW t \in LockRequests, Signs(t) PROVE OwnVoteOnce'
  <2>1. ASSUME NEW o \in OutpointsToVote(t), NEW w \in signed, w.outpoint = o PROVE FALSE
    <3>1. t \in Tx /\ o \in OutPoint /\ o \in Inputs[t] /\ o \in Int
      BY TxAssumption DEF OutpointsToVote
    <3>2. ~ SpentIn(chain, o) BY <3>1 DEF OutpointsToVote
    <3>3. ~ BuriedSpend(o) BY <3>2 DEF SpentIn, BuriedSpend
    <3>4. w.tx \in mapVotedOutpoints[o] /\ SELF \in mapMasternodeVotes[w.tx][o]
      BY <2>1, <3>3 DEF OwnRecorded
    <3> QED BY <3>4 DEF OutpointsToVote
  <2>2. ASSUME NEW v \in signed'
        PROVE  v \in signed \/ (v.tx = t /\ v.outpoint \in OutpointsToVote(t))
    BY <1>2 DEF Signs
  <2>3. ASSUME NEW v \in signed', NEW w \in signed', v.outpoint = w.outpoint
        PROVE  v.tx = w.tx
    <3>1. CASE v \in signed /\ w \in signed BY <2>3, <3>1 DEF OwnVoteOnce
    <3>2. CASE v \in signed /\ w \notin signed BY <2>1, <2>2, <2>3, <3>2
    <3>3. CASE v \notin signed /\ w \in signed BY <2>1, <2>2, <2>3, <3>3
    <3>4. CASE v \notin signed /\ w \notin signed BY <2>2, <3>4
    <3> QED BY <3>1, <3>2, <3>3, <3>4
  <2> QED BY <2>3 DEF OwnVoteOnce
<1>3. CheckAndRemove => UNCHANGED signed BY DEF CheckAndRemove
<1> QED BY <1>1, <1>2, <1>3, SigningStep DEF SignsNothing

\* This masternode never signs votes for two transactions on one outpoint (OwnVoteOnce; Vote()
\* against what CheckAndRemove() forgets), as long as no block is undone that lies as deep as
\* nInstantSendKeepLock below the highest tip, by a reorganisation or by a replay.
THEOREM MasternodeVotesOnce == Spec /\ ShallowReorgs => []OwnVoteOnce
<1> DEFINE Own == Depths /\ OwnRecorded /\ OwnVoteOnce
<1>1. Init => Own
  <2>1. Len(<< >>) = 0 BY EmptySeq
  <2> QED BY <2>1 DEF Init, Depths, OwnRecorded, OwnVoteOnce, NoResolve
<1>2. IInv /\ IInv' /\ HeightsInChain /\ Own /\ [Next]_vars /\ [Shallow]_vars => Own'
  <2> SUFFICES ASSUME IInv, IInv', HeightsInChain, Own, [Next]_vars, [Shallow]_vars PROVE Own'
    OBVIOUS
  <2>1. Shallow
    <3>1. CASE UNCHANGED vars
      <4>1. chain' = chain BY <3>1 DEF vars, chainVars
      <4>2. Len(chain) \in Nat BY Lengths DEF IInv, TypeInv
      <4> QED BY <4>1, <4>2 DEF Shallow
    <3> QED BY <3>1
  <2>2. TypeOK' BY DEF IInv, TypeInv
  <2> QED BY <2>1, <2>2, DepthsStep, RecordedStep, OnceStep
<1>3. Own => OwnVoteOnce OBVIOUS
<1> HIDE DEF Own
<1> QED BY <1>1, <1>2, <1>3, Invariance, ExpiryFollowsChain, PTL DEF Spec, ShallowReorgs
=============================================================================
