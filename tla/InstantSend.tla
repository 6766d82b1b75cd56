---------------------------- MODULE InstantSend ----------------------------
(***************************************************************************)
(* CInstantSend of one node (src/src/instantsend.cpp, instantsend.h) with  *)
(* the parts of main.cpp it is entangled with: the TXLOCKREQUEST handler,  *)
(* AcceptToMemoryPool, CheckBlock's lock filter, ConnectTip, DisconnectTip *)
(* and ActivateBestChain.                                                  *)
(*                                                                         *)
(* Data is abstracted as follows.  A transaction is a name with a set of   *)
(* inputs, all of them confirmed, mature outpoints.  A block carries at    *)
(* most one of these transactions.  The top SIGNATURES_TOTAL masternodes   *)
(* of an outpoint (GetMasternodeRank at the outpoint's height + 4) are the *)
(* constant Ranked.  A vote is the triple its hash covers.                 *)
(*                                                                         *)
(* Control is kept.  ProcessTxLockRequest and ResolveConflicts loop with   *)
(* cs_main and cs_instantsend held; their iterations are steps here, and   *)
(* while one of them is under way (Busy) nobody else can take a step that  *)
(* needs these locks.                                                      *)
(***************************************************************************)
EXTENDS Integers, Sequences, FiniteSets, FiniteSetsExt

CONSTANTS
    Tx,                     \* transactions
    NoTx,                   \* "no transaction": an empty block, a free outpoint
    LockRequests,           \* the transactions CTxLockRequest::IsValid accepts
    OutPoint,               \* outpoints: integers, std::map visits them in order
    Inputs,                 \* [Tx -> non-empty sets of outpoints]
    MN,                     \* masternodes
    SELF,                   \* this node's masternode; not in MN: fMasterNode is off
    Ranked,                 \* [OutPoint -> SUBSET MN]
    StableMN,               \* the masternodes that stay in mnodeman's list
    SIGNATURES_REQUIRED,
    nInstantSendKeepLock,
    ORPHAN_VOTE_SECONDS,
    OrphanRateSeconds,      \* the 60*10 seconds of mapMasternodeOrphanVotes
    BlockFiltering,         \* SPORK_3_INSTANTSEND_BLOCK_FILTERING is active
    Toggles,                \* the flags that change: SUBSET {"spork2", "largework"}
    MaxHeight, MaxTime,     \* bounds: model blocks and seconds
    MaxReorg                \* bound: blocks a reorganisation may undo

ASSUME TxAssumption ==
    /\ NoTx \notin Tx
    /\ LockRequests \subseteq Tx
    /\ OutPoint \subseteq Int
    /\ Inputs \in [Tx -> (SUBSET OutPoint) \ {{}}]
    /\ \A t \in Tx : IsFiniteSet(Inputs[t])

ASSUME MasternodeAssumption ==
    /\ IsFiniteSet(MN)
    /\ Ranked \in [OutPoint -> SUBSET MN]
    /\ StableMN \subseteq MN

ASSUME NumberAssumption ==
    /\ {SIGNATURES_REQUIRED, OrphanRateSeconds} \subseteq Nat \ {0}
    /\ {nInstantSendKeepLock, ORPHAN_VOTE_SECONDS, MaxHeight, MaxTime, MaxReorg} \subseteq Nat
    /\ BlockFiltering \in BOOLEAN
    /\ Toggles \subseteq {"spork2", "largework"}

\* CTxLockVote.  Vote() builds one per outpoint of a candidate.
LockVote == {v \in [tx : LockRequests, outpoint : OutPoint, mn : MN] :
                 v.outpoint \in Inputs[v.tx]}

VARIABLES
    \* CInstantSend
    mapTxLockCandidates,      \* the transactions that are lock candidates
    mapMasternodeVotes,       \* [Tx -> [OutPoint -> SUBSET MN]]: COutPointLock's map
    candidateHeight,          \* [Tx -> Int]: the candidates' nConfirmedHeight
    mapTxLockVotes,           \* votes seen
    voteHeight,               \* [LockVote -> Int]: nConfirmedHeight of these
    mapTxLockVotesOrphan,     \* orphan votes
    voteTime,                 \* [LockVote -> Nat]: nTimeCreated of these
    mapVotedOutpoints,        \* [OutPoint -> SUBSET Tx], {} for no entry
    mapLockedOutpoints,       \* [OutPoint -> Tx \cup {NoTx}], NoTx for no entry
    mapLockRequestAccepted, mapLockRequestRejected,
    mapMasternodeOrphanVotes, \* [MN -> Nat], 0 for no entry
    pCurrentBlockIndex,       \* height of the last tip notified
    notify,                   \* ActivateBestChain's tip not yet notified, or -1
    signed,                   \* history: the votes Vote() signed
    \* the handlers under way
    request,                  \* ProcessTxLockRequest: [tx, todo, origin] or idle
    resolve,                  \* ResolveConflicts replaying blocks: [tx, stage, undone]
    accepting,                \* the request main.cpp is about to offer to the mempool
    \* the rest of the node
    mempool, chain, peak,     \* the mempool, the blocks, the greatest height so far
    knownMN, flags, now       \* mnodeman, active flags, GetTime()

candVars   == <<mapTxLockCandidates, mapMasternodeVotes, candidateHeight>>
seenVars   == <<mapTxLockVotes, voteHeight>>
orphanVars == <<mapTxLockVotesOrphan, voteTime, mapMasternodeOrphanVotes>>
reqVars    == <<mapLockRequestAccepted, mapLockRequestRejected>>
chainVars  == <<chain, peak>>
tipVars    == <<pCurrentBlockIndex, notify>>
envVars    == <<knownMN, flags, now>>
vars == <<candVars, seenVars, orphanVars, reqVars, chainVars, tipVars, envVars, mapVotedOutpoints,
          mapLockedOutpoints, signed, request, resolve, accepting, mempool>>

-----------------------------------------------------------------------------
(* The handlers' positions. *)

NoRequest == [tx |-> NoTx, todo |-> {}, origin |-> "none"]
NoResolve == [tx |-> NoTx, stage |-> "none", undone |-> << >>]

\* cs_main and cs_instantsend are held by ProcessTxLockRequest or ResolveConflicts.
Busy == request.tx # NoTx \/ resolve.tx # NoTx

Init ==
    /\ mapTxLockCandidates = {}
    /\ mapMasternodeVotes = [t \in Tx |-> [o \in OutPoint |-> {}]]
    /\ candidateHeight = [t \in Tx |-> -1]
    /\ mapTxLockVotes = {} /\ voteHeight = [v \in LockVote |-> -1]
    /\ mapTxLockVotesOrphan = {} /\ voteTime = [v \in LockVote |-> 0]
    /\ mapVotedOutpoints = [o \in OutPoint |-> {}]
    /\ mapLockedOutpoints = [o \in OutPoint |-> NoTx]
    /\ mapLockRequestAccepted = {} /\ mapLockRequestRejected = {}
    /\ mapMasternodeOrphanVotes = [m \in MN |-> 0]
    /\ pCurrentBlockIndex = 0 /\ notify = -1 /\ signed = {}
    /\ request = NoRequest /\ resolve = NoResolve /\ accepting = NoTx
    /\ mempool = {} /\ chain = << >> /\ peak = 0
    /\ knownMN = StableMN /\ flags = {"spork2"} /\ now = 0

-----------------------------------------------------------------------------
(* The chain and the mempool. *)

SpentIn(ch, o) == \E i \in 1..Len(ch) : ch[i] # NoTx /\ o \in Inputs[ch[i]]
MinedIn(ch, t) == \E i \in 1..Len(ch) : ch[i] = t

Conflicts(t, pool) == {x \in pool \ {t} : Inputs[x] \cap Inputs[t] # {}}

\* Mutant of RespectsLocks: a lock of any one input is enough to pass.
RespectsSomeLock(t) == \E o \in Inputs[t] : mapLockedOutpoints[o] \in {NoTx, t}

\* No input of t is held by the completed lock of another transaction.
RespectsLocks(t) == \A o \in Inputs[t] : mapLockedOutpoints[o] \in {NoTx, t}

\* Mutant of AcceptToMemoryPool: without the check against mapLockedOutpoints.
AcceptToMemoryPoolIgnoringLocks(t, pool, ch) ==
    /\ t \notin pool /\ Conflicts(t, pool) = {}
    /\ ~ MinedIn(ch, t) /\ \A o \in Inputs[t] : ~ SpentIn(ch, o)

\* AcceptToMemoryPoolWorker, with -mempoolreplacement off (the default).
AcceptToMemoryPool(t, pool, ch) ==
    /\ t \notin pool
    /\ t \in mapTxLockCandidates => t \in LockRequests
    /\ RespectsLocks(t)
    /\ Conflicts(t, pool) = {}
    /\ ~ MinedIn(ch, t)
    /\ \A o \in Inputs[t] : ~ SpentIn(ch, o)

\* CheckBlock's filter and ConnectBlock's input checks for block b on top of ch.
CheckBlock(b, ch) ==
    b # NoTx => /\ BlockFiltering => RespectsLocks(b)
                /\ ~ MinedIn(ch, b)
                /\ \A o \in Inputs[b] : ~ SpentIn(ch, o)

\* CInstantSend::SyncTransaction for every transaction of T, with the new height h.
SyncTransaction(T, h) ==
    LET synced == {v \in LockVote :
                     /\ v.tx \in T
                     /\ \/ /\ v \in mapTxLockVotes
                           /\ v.mn \in mapMasternodeVotes[v.tx][v.outpoint]
                        \/ v \in mapTxLockVotesOrphan}
    IN /\ candidateHeight' = [t \in Tx |-> IF t \in T \cap mapTxLockCandidates
                                           THEN h[t] ELSE candidateHeight[t]]
       /\ voteHeight' = [v \in LockVote |-> IF v \in synced THEN h[v.tx] ELSE voteHeight[v]]
       /\ mapTxLockVotes' = mapTxLockVotes \cup (synced \cap mapTxLockVotesOrphan)
       /\ UNCHANGED <<mapTxLockCandidates, mapMasternodeVotes>>

\* ConnectTip: removeForBlock, UpdateTip and the SyncWithWallets calls.
ConnectTip(b) ==
    LET gone == IF b = NoTx THEN {} ELSE Conflicts(b, mempool)
        height == Len(chain) + 1
    IN /\ chain' = Append(chain, b)
       /\ mempool' = mempool \ (gone \cup {b})
       /\ SyncTransaction((gone \cup {b}) \ {NoTx}, [t \in Tx |-> IF t = b THEN height ELSE -1])

\* Mutant of DisconnectTip: SyncWithWallets is not called, heights stay.
DisconnectTipWithoutSync ==
    LET b == chain[Len(chain)]
        rest == SubSeq(chain, 1, Len(chain) - 1)
    IN /\ chain' = rest
       /\ mempool' = IF b # NoTx /\ AcceptToMemoryPool(b, mempool, rest)
                     THEN mempool \cup {b} ELSE mempool
       /\ UNCHANGED <<candVars, seenVars>>

\* DisconnectTip: the block's transaction goes back to the mempool if it is accepted there.
DisconnectTip ==
    LET b == chain[Len(chain)]
        rest == SubSeq(chain, 1, Len(chain) - 1)
    IN /\ chain' = rest
       /\ mempool' = IF b # NoTx /\ AcceptToMemoryPool(b, mempool, rest)
                     THEN mempool \cup {b} ELSE mempool
       /\ SyncTransaction({b} \ {NoTx}, [t \in Tx |-> -1])

-----------------------------------------------------------------------------
(* Votes and locks. *)

\* Mutant of IsReady: one vote is missing.
IsReadyTooEarly(votes) == Cardinality(votes) + 1 >= SIGNATURES_REQUIRED

\* COutPointLock::IsReady, CTxLockCandidate::IsAllOutPointsReady.
IsReady(votes) == Cardinality(votes) >= SIGNATURES_REQUIRED
IsAllOutPointsReady(t, votes) == \A o \in Inputs[t] : IsReady(votes[t][o])

\* CTxLockVote::IsValid: a known masternode in the outpoint's top SIGNATURES_TOTAL.
VoteIsValid(v) == v.mn \in knownMN \cap Ranked[v.outpoint]

\* CTxLockRequest::IsValid: spent inputs pass only with fRequireUnspent set (sic).
RequestIsValid(t, fRequireUnspent) ==
    /\ t \in LockRequests
    /\ fRequireUnspent \/ \A o \in Inputs[t] : ~ SpentIn(chain, o)

\* IsEnoughOrphanVotesForTx over the orphan votes given.
IsEnoughOrphanVotesForTx(t, orphans) ==
    \A o \in Inputs[t] :
        Cardinality({v \in orphans : v.tx = t /\ v.outpoint = o}) >= SIGNATURES_REQUIRED

LockTransactionInputs(t, votes) ==
    mapLockedOutpoints' = [o \in OutPoint |->
        IF /\ IsAllOutPointsReady(t, votes)
           /\ o \in Inputs[t] /\ mapLockedOutpoints[o] = NoTx
        THEN t ELSE mapLockedOutpoints[o]]

\* The first loop of ResolveConflicts takes t's own mempool entry for a conflict as well.
MempoolSpends(t) == {x \in mempool : Inputs[x] \cap Inputs[t] # {}}

\* An input of t was spent by another transaction in a block: blocks are replayed.
NeedsReplay(t) ==
    /\ RespectsLocks(t) /\ MempoolSpends(t) = {} /\ ~ MinedIn(chain, t)
    /\ \E o \in Inputs[t] : SpentIn(chain, o)

\* The mempool after removeConflicts and the second attempt to accept t.
Reaccepted(t) ==
    LET pool == mempool \ Conflicts(t, mempool)
    IN IF AcceptToMemoryPool(t, pool, chain) THEN pool \cup {t} ELSE pool

\* The votes seen, after t was accepted to the mempool if it was: AcceptToMemoryPool ends with
\* SyncTransaction, which enters t's orphan votes.  The heights it sets are -1 already, as t
\* is in no block (ConfirmedHeightsInChain).
SeenAfter(t, seen, accepted) ==
    IF accepted THEN seen \cup {v \in mapTxLockVotesOrphan : v.tx = t} ELSE seen

\* ResolveConflicts for a ready candidate, then LockTransactionInputs if it returned true.
\* A replay starts here and is continued by the Resolve steps below.
ResolveAndLock(t, votes, seen) ==
    \/ /\ ~ RespectsLocks(t)
       /\ mapTxLockVotes' = seen
       /\ UNCHANGED <<mapLockedOutpoints, mempool, resolve>>
    \/ /\ RespectsLocks(t) /\ MempoolSpends(t) # {}
       /\ mempool' = Reaccepted(t)
       /\ mapTxLockVotes' = SeenAfter(t, seen, t \in mempool' \ mempool)
       /\ IF t \in mempool' \ mempool THEN LockTransactionInputs(t, votes)
                                      ELSE UNCHANGED mapLockedOutpoints
       /\ UNCHANGED resolve
    \/ /\ RespectsLocks(t) /\ MempoolSpends(t) = {} /\ ~ NeedsReplay(t)
       /\ LockTransactionInputs(t, votes)
       /\ mapTxLockVotes' = seen
       /\ UNCHANGED <<mempool, resolve>>
    \/ /\ NeedsReplay(t)
       /\ resolve' = [tx |-> t, stage |-> "disconnect", undone |-> << >>]
       /\ mapTxLockVotes' = seen
       /\ UNCHANGED <<mapLockedOutpoints, mempool>>

\* Mutant of OutpointsToVote: the earlier votes are not looked up.
OutpointsToVoteAgain(t) ==
    {o \in Inputs[t] :
        /\ \A p \in Inputs[t] : p <= o => ~ SpentIn(chain, p)
        /\ SELF \in knownMN \cap Ranked[o]}

\* Vote(): the outpoints of t this masternode signs now.
OutpointsToVote(t) ==
    {o \in Inputs[t] :
        /\ \A p \in Inputs[t] : p <= o => ~ SpentIn(chain, p)
        /\ SELF \in knownMN \cap Ranked[o]
        /\ \A h \in mapVotedOutpoints[o] : SELF \notin mapMasternodeVotes[h][o]}

\* GetAverageMasternodeOrphanVoteTime.
AverageOrphanVoteTime ==
    LET known == {m \in MN : mapMasternodeOrphanVotes[m] # 0}
    IN IF known = {} THEN 0
       ELSE MapThenSumSet(LAMBDA m : mapMasternodeOrphanVotes[m], known) \div Cardinality(known)

\* The rate check of an orphan vote by m: is m voting faster than the network?
IsSpamming(m) ==
    /\ mapMasternodeOrphanVotes[m] > now
    /\ mapMasternodeOrphanVotes[m] > AverageOrphanVoteTime

RefreshOrphanRate(m) ==
    mapMasternodeOrphanVotes' =
        IF IsSpamming(m) THEN mapMasternodeOrphanVotes
        ELSE [mapMasternodeOrphanVotes EXCEPT ![m] = now + OrphanRateSeconds]

\* ProcessTxLockVote refuses v: its masternode voted for another transaction recorded for
\* the outpoint, or already for this one.
ConflictingVote(v) ==
    \E h \in mapVotedOutpoints[v.outpoint] \ {v.tx} : v.mn \in mapMasternodeVotes[h][v.outpoint]
DuplicateVote(v) == v.mn \in mapMasternodeVotes[v.tx][v.outpoint]
VoteCounts(v) == ~ ConflictingVote(v) /\ ~ DuplicateVote(v)

\* ProcessTxLockVote for a vote of a candidate, up to the locking of its inputs.
CountVote(v, seen) ==
    LET voted == IF mapVotedOutpoints[v.outpoint] = {}
                 THEN [mapVotedOutpoints EXCEPT ![v.outpoint] = {v.tx}] ELSE mapVotedOutpoints
        votes == [mapMasternodeVotes EXCEPT ![v.tx][v.outpoint] = @ \cup {v.mn}]
    IN /\ mapVotedOutpoints' = IF ConflictingVote(v) THEN mapVotedOutpoints ELSE voted
       /\ mapMasternodeVotes' = IF VoteCounts(v) THEN votes ELSE mapMasternodeVotes
       /\ IF VoteCounts(v) /\ IsAllOutPointsReady(v.tx, votes)
          THEN ResolveAndLock(v.tx, votes, seen)
          ELSE mapTxLockVotes' = seen /\ UNCHANGED <<mapLockedOutpoints, mempool, resolve>>
       /\ UNCHANGED <<mapTxLockCandidates, candidateHeight>>

\* ProcessTxLockRequest up to its call of ProcessOrphanTxLockVotes: no input is locked, the
\* request is valid, the candidate is created and Vote() has run.
RequestPasses(t, orphans) ==
    /\ \A o \in Inputs[t] : mapLockedOutpoints[o] = NoTx
    /\ RequestIsValid(t, IsEnoughOrphanVotesForTx(t, orphans))

StartRequest(t, orphans, seen, origin) ==
    LET own == {[tx |-> t, outpoint |-> o, mn |-> SELF] : o \in OutpointsToVote(t)}
    IN /\ mapTxLockCandidates' = mapTxLockCandidates \cup {t}
       /\ mapMasternodeVotes' = [mapMasternodeVotes EXCEPT ![t] =
              [o \in OutPoint |-> IF o \in OutpointsToVote(t) THEN @[o] \cup {SELF} ELSE @[o]]]
       /\ mapVotedOutpoints' = [o \in OutPoint |->
              IF o \in OutpointsToVote(t) THEN mapVotedOutpoints[o] \cup {t}
                                          ELSE mapVotedOutpoints[o]]
       /\ mapTxLockVotes' = seen \cup own
       /\ signed' = signed \cup own
       /\ request' = [tx |-> t, todo |-> orphans, origin |-> origin]
       /\ UNCHANGED <<candidateHeight, voteHeight>>

-----------------------------------------------------------------------------
(* Requests. *)

\* main.cpp, NetMsgType::TXLOCKREQUEST, first half: a request that fails changes nothing.
TXLOCKREQUEST(t) ==
    /\ ~ Busy /\ accepting = NoTx
    /\ RequestPasses(t, mapTxLockVotesOrphan)
    /\ StartRequest(t, mapTxLockVotesOrphan, mapTxLockVotes, "message")
    /\ UNCHANGED <<orphanVars, reqVars, chainVars, tipVars, envVars, mapLockedOutpoints,
                   resolve, accepting, mempool>>

\* RelayWalletTransaction and sendrawtransaction: first the mempool, then the request.
WalletRequest(t) ==
    /\ ~ Busy /\ ~ MinedIn(chain, t)
    /\ t \in mempool \/ AcceptToMemoryPool(t, mempool, chain)
    /\ mempool' = mempool \cup {t}
    /\ LET seen == SeenAfter(t, mapTxLockVotes, t \notin mempool)
       IN IF RequestPasses(t, mapTxLockVotesOrphan)
          THEN StartRequest(t, mapTxLockVotesOrphan, seen, "wallet")
          ELSE /\ mapTxLockVotes' = seen
               /\ UNCHANGED <<candVars, voteHeight, mapVotedOutpoints, signed, request>>
    /\ UNCHANGED <<orphanVars, reqVars, chainVars, tipVars, envVars, mapLockedOutpoints,
                   resolve, accepting>>

\* Mutant of ProcessOrphanTxLockVote: the iterator stays at a vote that is not erased.
ProcessOrphanTxLockVoteStuck(v) ==
    /\ request.tx # NoTx /\ resolve.tx = NoTx /\ v \in request.todo
    /\ VoteIsValid(v) /\ v.tx \in mapTxLockCandidates
    /\ CountVote(v, mapTxLockVotes)
    /\ mapTxLockVotesOrphan' = IF VoteCounts(v) THEN mapTxLockVotesOrphan \ {v}
                                                ELSE mapTxLockVotesOrphan
    /\ request' = IF VoteCounts(v) THEN [request EXCEPT !.todo = @ \ {v}] ELSE request
    /\ UNCHANGED <<voteHeight, mapMasternodeOrphanVotes, voteTime, reqVars, chainVars, tipVars,
                   envVars, signed, accepting>>

\* One iteration of ProcessOrphanTxLockVotes: erased if ProcessTxLockVote returned true.
ProcessOrphanTxLockVote(v) ==
    /\ request.tx # NoTx /\ resolve.tx = NoTx /\ v \in request.todo
    /\ request' = [request EXCEPT !.todo = @ \ {v}]
    /\ \/ /\ ~ VoteIsValid(v)
          /\ UNCHANGED <<candVars, mapTxLockVotesOrphan, mapMasternodeOrphanVotes, resolve,
                         mapTxLockVotes, mapVotedOutpoints, mapLockedOutpoints, mempool>>
       \/ /\ VoteIsValid(v) /\ v.tx \in mapTxLockCandidates
          /\ CountVote(v, mapTxLockVotes)
          /\ mapTxLockVotesOrphan' = IF VoteCounts(v) THEN mapTxLockVotesOrphan \ {v}
                                                      ELSE mapTxLockVotesOrphan
          /\ UNCHANGED mapMasternodeOrphanVotes
       \/ /\ VoteIsValid(v) /\ v.tx \notin mapTxLockCandidates
          /\ RefreshOrphanRate(v.mn)
          /\ mapTxLockVotesOrphan' = IF IsSpamming(v.mn) THEN mapTxLockVotesOrphan
                                                         ELSE mapTxLockVotesOrphan \ {v}
          /\ UNCHANGED <<candVars, mapTxLockVotes, mapVotedOutpoints, mapLockedOutpoints,
                         mempool, resolve>>
    /\ voteTime' = IF v \in mapTxLockVotesOrphan' THEN voteTime ELSE [voteTime EXCEPT ![v] = 0]
    /\ UNCHANGED <<voteHeight, reqVars, chainVars, tipVars, envVars, signed, accepting>>

\* IsInstantSendReadyToLock.
IsInstantSendReadyToLock(t) ==
    /\ "spork2" \in flags /\ "largework" \notin flags
    /\ t \in mapTxLockCandidates
    /\ IsAllOutPointsReady(t, mapMasternodeVotes)

\* The end of ProcessTxLockRequest.
FinishRequest ==
    /\ request.tx # NoTx /\ request.todo = {} /\ resolve.tx = NoTx
    /\ IF IsInstantSendReadyToLock(request.tx)
       THEN ResolveAndLock(request.tx, mapMasternodeVotes, mapTxLockVotes)
       ELSE UNCHANGED <<mapTxLockVotes, mapLockedOutpoints, mempool, resolve>>
    /\ request' = NoRequest
    /\ accepting' = IF request.origin = "message" THEN request.tx ELSE accepting
    /\ UNCHANGED <<candVars, voteHeight, orphanVars, reqVars, chainVars, tipVars, envVars,
                   mapVotedOutpoints, signed>>

\* CInstantSend::AlreadyHave for a request.
AlreadyHave(t) == t \in mapLockRequestAccepted \cup mapLockRequestRejected

\* main.cpp, NetMsgType::TXLOCKREQUEST, second half, under a new LOCK(cs_main).
AcceptLockRequest ==
    LET t == accepting
        accepted == ~ AlreadyHave(t) /\ AcceptToMemoryPool(t, mempool, chain)
    IN /\ ~ Busy /\ t # NoTx
       /\ accepting' = NoTx
       /\ \/ /\ accepted
             /\ mempool' = mempool \cup {t}
             /\ mapLockRequestAccepted' = mapLockRequestAccepted \cup {t}
             /\ SyncTransaction({t}, [x \in Tx |-> -1])
             /\ UNCHANGED mapLockRequestRejected
          \/ /\ ~ accepted
             /\ mapLockRequestRejected' = IF AlreadyHave(t) THEN mapLockRequestRejected
                                          ELSE mapLockRequestRejected \cup {t}
             /\ UNCHANGED <<candVars, seenVars, mempool, mapLockRequestAccepted>>
          \/ \* fMissingInputs: every output of a spent input's transaction is spent
             /\ ~ AlreadyHave(t) /\ ~ accepted
             /\ \E o \in Inputs[t] : SpentIn(chain, o)
             /\ UNCHANGED <<candVars, seenVars, mempool, reqVars>>
       /\ UNCHANGED <<orphanVars, chainVars, tipVars, envVars, mapVotedOutpoints,
                      mapLockedOutpoints, signed, request, resolve>>

\* NetMsgType::TX, or any local transaction that is no lock request.
AcceptTx(t) ==
    /\ ~ Busy /\ AcceptToMemoryPool(t, mempool, chain)
    /\ mempool' = mempool \cup {t}
    /\ SyncTransaction({t}, [x \in Tx |-> -1])
    /\ UNCHANGED <<orphanVars, reqVars, chainVars, tipVars, envVars, mapVotedOutpoints,
                   mapLockedOutpoints, signed, request, resolve, accepting>>

-----------------------------------------------------------------------------
(* Votes. *)

\* ProcessTxLockVote without a candidate: kept as an orphan; with enough of them, a request
\* already accepted or rejected is processed again.
OrphanVote(v) ==
    LET new == v \notin mapTxLockVotesOrphan
        orphans == mapTxLockVotesOrphan \cup {v}
        reprocess == new /\ AlreadyHave(v.tx) /\ IsEnoughOrphanVotesForTx(v.tx, orphans)
    IN /\ VoteIsValid(v) /\ v.tx \notin mapTxLockCandidates
       /\ mapTxLockVotesOrphan' = orphans
       /\ voteTime' = IF new THEN [voteTime EXCEPT ![v] = now] ELSE voteTime
       /\ IF reprocess THEN UNCHANGED mapMasternodeOrphanVotes ELSE RefreshOrphanRate(v.mn)
       /\ \/ /\ reprocess /\ RequestPasses(v.tx, orphans)
             /\ StartRequest(v.tx, orphans, mapTxLockVotes \cup {v}, "vote")
          \/ /\ ~ (reprocess /\ RequestPasses(v.tx, orphans))
             /\ mapTxLockVotes' = mapTxLockVotes \cup {v}
             /\ UNCHANGED <<candVars, voteHeight, mapVotedOutpoints, signed, request>>
       /\ UNCHANGED <<mapLockedOutpoints, mempool, resolve>>

\* ProcessMessage(TXLOCKVOTE) and ProcessTxLockVote: an invalid vote is remembered only.
TXLOCKVOTE(v) ==
    /\ ~ Busy /\ accepting = NoTx
    /\ "spork2" \in flags
    /\ v \notin mapTxLockVotes
    /\ \/ /\ ~ VoteIsValid(v)
          /\ mapTxLockVotes' = mapTxLockVotes \cup {v}
          /\ UNCHANGED <<candVars, voteHeight, orphanVars, mapVotedOutpoints,
                         mapLockedOutpoints, mempool, signed, request, resolve>>
       \/ /\ VoteIsValid(v) /\ v.tx \in mapTxLockCandidates
          /\ CountVote(v, mapTxLockVotes \cup {v})
          /\ UNCHANGED <<voteHeight, orphanVars, signed, request>>
       \/ OrphanVote(v)
    /\ UNCHANGED <<reqVars, chainVars, tipVars, envVars, accepting>>

-----------------------------------------------------------------------------
(* ResolveConflicts replaying blocks.  Its recursion disconnects blocks until the       *)
(* conflict is out of the chain, gives the mempool one more try (the result is ignored) *)
(* and activates the best chain; the candidate's inputs are locked only after that.     *)

ResolveDisconnect ==
    /\ resolve.stage = "disconnect" /\ NeedsReplay(resolve.tx)
    /\ resolve' = [resolve EXCEPT !.undone = <<chain[Len(chain)]>> \o @]
    /\ DisconnectTip
    /\ UNCHANGED <<orphanVars, reqVars, tipVars, envVars, mapVotedOutpoints, peak,
                   mapLockedOutpoints, signed, request, accepting>>

ResolveRecheck ==
    /\ resolve.stage = "disconnect" /\ ~ NeedsReplay(resolve.tx)
    /\ resolve' = [resolve EXCEPT !.stage = "activate"]
    /\ mempool' = IF RespectsLocks(resolve.tx) /\ MempoolSpends(resolve.tx) # {}
                  THEN Reaccepted(resolve.tx) ELSE mempool
    /\ mapTxLockVotes' = SeenAfter(resolve.tx, mapTxLockVotes, resolve.tx \in mempool' \ mempool)
    /\ UNCHANGED <<candVars, voteHeight, orphanVars, reqVars, chainVars, tipVars, envVars,
                   mapVotedOutpoints, mapLockedOutpoints, signed, request, accepting>>

\* ActivateBestChain connects the blocks again and notifies the tip; a block that is invalid
\* now stays out.  (The loop over the inputs goes on after this; another input that is spent
\* again repeats the replay with the same outcome.)
ResolveActivate ==
    /\ resolve.stage = "activate" /\ resolve.undone # << >>
    /\ \/ /\ CheckBlock(Head(resolve.undone), chain)
          /\ ConnectTip(Head(resolve.undone))
          /\ pCurrentBlockIndex' = Len(chain) + 1
          /\ resolve' = [resolve EXCEPT !.undone = Tail(@)]
       \/ /\ ~ CheckBlock(Head(resolve.undone), chain)
          /\ resolve' = [resolve EXCEPT !.undone = << >>]
          /\ UNCHANGED <<candVars, seenVars, mempool, chain, pCurrentBlockIndex>>
    /\ UNCHANGED <<orphanVars, reqVars, notify, envVars, mapVotedOutpoints, peak,
                   mapLockedOutpoints, signed, request, accepting>>

ResolveLock ==
    /\ resolve.stage = "activate" /\ resolve.undone = << >>
    /\ LockTransactionInputs(resolve.tx, mapMasternodeVotes)
    /\ resolve' = NoResolve
    /\ UNCHANGED <<candVars, seenVars, orphanVars, reqVars, chainVars, tipVars, envVars,
                   mapVotedOutpoints, signed, request, accepting, mempool>>

-----------------------------------------------------------------------------
(* Maintenance, blocks, time. *)

\* Mutant of IsExpired: one block too early.
IsExpiredEarly(height) ==
    height # -1 /\ pCurrentBlockIndex - height >= nInstantSendKeepLock

\* CTxLockVote::IsExpired, CTxLockCandidate::IsExpired.
IsExpired(height) ==
    height # -1 /\ pCurrentBlockIndex - height > nInstantSendKeepLock

\* The outpoints whose entries in mapLockedOutpoints and mapVotedOutpoints are erased with
\* the candidates; the mutant keeps those entries.
KeptOutpoints(dead) == {}
FreedOutpoints(dead) == UNION {Inputs[t] : t \in dead}

CheckAndRemove ==
    LET dead == {t \in mapTxLockCandidates : IsExpired(candidateHeight[t])}
        freed == FreedOutpoints(dead)
        late == {v \in mapTxLockVotesOrphan : now - voteTime[v] > ORPHAN_VOTE_SECONDS}
        forgotten == late \cup {v \in mapTxLockVotes : IsExpired(voteHeight[v])}
    IN /\ ~ Busy
       /\ mapTxLockCandidates' = mapTxLockCandidates \ dead
       /\ mapMasternodeVotes' = [t \in Tx |-> IF t \in dead THEN [o \in OutPoint |-> {}]
                                              ELSE mapMasternodeVotes[t]]
       /\ candidateHeight' = [t \in Tx |-> IF t \in dead THEN -1 ELSE candidateHeight[t]]
       /\ mapLockedOutpoints' = [o \in OutPoint |-> IF o \in freed THEN NoTx
                                                    ELSE mapLockedOutpoints[o]]
       /\ mapVotedOutpoints' = [o \in OutPoint |-> IF o \in freed THEN {}
                                                   ELSE mapVotedOutpoints[o]]
       /\ mapLockRequestAccepted' = mapLockRequestAccepted \ dead
       /\ mapLockRequestRejected' = mapLockRequestRejected \ dead
       /\ mapTxLockVotes' = mapTxLockVotes \ forgotten
       /\ voteHeight' = [v \in LockVote |-> IF v \in forgotten THEN -1 ELSE voteHeight[v]]
       /\ mapTxLockVotesOrphan' = mapTxLockVotesOrphan \ late
       /\ voteTime' = [v \in LockVote |-> IF v \in late THEN 0 ELSE voteTime[v]]
       /\ mapMasternodeOrphanVotes' = [m \in MN |-> IF mapMasternodeOrphanVotes[m] < now
                                                    THEN 0 ELSE mapMasternodeOrphanVotes[m]]
       /\ UNCHANGED <<chainVars, tipVars, envVars, signed, request, resolve, accepting,
                      mempool>>

\* A new best block arrives; ActivateBestChain notifies the tip after it released cs_main.
ConnectBlock(b) ==
    /\ ~ Busy /\ notify = -1 /\ Len(chain) < MaxHeight
    /\ CheckBlock(b, chain)
    /\ ConnectTip(b)
    /\ notify' = Len(chain) + 1
    /\ peak' = Max({peak, Len(chain) + 1})
    /\ UNCHANGED <<orphanVars, reqVars, envVars, mapVotedOutpoints, pCurrentBlockIndex,
                   mapLockedOutpoints, signed, request, resolve, accepting>>

\* A reorganisation, or invalidateblock, undoes the tip.
DisconnectBlock ==
    /\ ~ Busy /\ notify = -1 /\ chain # << >>
    /\ peak - Len(chain) < MaxReorg
    /\ DisconnectTip
    /\ UNCHANGED <<orphanVars, reqVars, tipVars, envVars, mapVotedOutpoints, peak,
                   mapLockedOutpoints, signed, request, resolve, accepting>>

UpdatedBlockTip ==
    /\ notify # -1
    /\ pCurrentBlockIndex' = notify /\ notify' = -1
    /\ UNCHANGED <<candVars, seenVars, orphanVars, reqVars, chainVars, envVars, signed, request,
                   mapVotedOutpoints, mapLockedOutpoints, resolve, accepting, mempool>>

UNCHANGED_CInstantSend ==
    UNCHANGED <<candVars, seenVars, orphanVars, reqVars, chainVars, tipVars, mapVotedOutpoints,
                mapLockedOutpoints, signed, request, resolve, accepting, mempool>>

\* mnodeman learns of a masternode, or removes it (CMasternodeMan::CheckAndRemove).
UpdateMasternodeList(m) ==
    /\ knownMN' = IF m \in knownMN THEN knownMN \ {m} ELSE knownMN \cup {m}
    /\ UNCHANGED <<flags, now>> /\ UNCHANGED_CInstantSend

\* SPORK_2 or fLargeWorkForkFound / fLargeWorkInvalidChainFound change.
Toggle(f) ==
    /\ flags' = IF f \in flags THEN flags \ {f} ELSE flags \cup {f}
    /\ UNCHANGED <<knownMN, now>> /\ UNCHANGED_CInstantSend

Tick ==
    /\ now < MaxTime /\ now' = now + 1
    /\ UNCHANGED <<knownMN, flags>> /\ UNCHANGED_CInstantSend

HandlerStep ==
    \/ \E v \in LockVote : ProcessOrphanTxLockVote(v)
    \/ FinishRequest
    \/ ResolveDisconnect \/ ResolveRecheck \/ ResolveActivate \/ ResolveLock

Next ==
    \/ \E t \in Tx : TXLOCKREQUEST(t) \/ WalletRequest(t) \/ AcceptTx(t)
    \/ \E v \in LockVote : TXLOCKVOTE(v)
    \/ HandlerStep
    \/ AcceptLockRequest
    \/ CheckAndRemove
    \/ \E b \in Tx \cup {NoTx} : ConnectBlock(b)
    \/ DisconnectBlock
    \/ UpdatedBlockTip
    \/ \E m \in MN \ StableMN : UpdateMasternodeList(m)
    \/ \E f \in Toggles : Toggle(f)
    \/ Tick

Spec == Init /\ [][Next]_vars

\* A handler that has the locks goes on.
FairSpec == Spec /\ WF_vars(HandlerStep)

-----------------------------------------------------------------------------
(* What CInstantSend promises. *)

Heights == -1..MaxHeight

\* The variables have their types: the shape of CInstantSend's maps and of the node around it.
TypeOK ==
    /\ mapTxLockCandidates \subseteq Tx
    /\ mapMasternodeVotes \in [Tx -> [OutPoint -> SUBSET MN]]
    /\ candidateHeight \in [Tx -> Heights]
    /\ mapTxLockVotes \subseteq LockVote /\ voteHeight \in [LockVote -> Heights]
    /\ mapTxLockVotesOrphan \subseteq LockVote /\ voteTime \in [LockVote -> 0..MaxTime]
    /\ mapVotedOutpoints \in [OutPoint -> SUBSET Tx]
    /\ mapLockedOutpoints \in [OutPoint -> Tx \cup {NoTx}]
    /\ mapLockRequestAccepted \subseteq Tx /\ mapLockRequestRejected \subseteq Tx
    /\ mapMasternodeOrphanVotes \in [MN -> 0..(MaxTime + OrphanRateSeconds)]
    /\ pCurrentBlockIndex \in 0..MaxHeight /\ notify \in Heights
    /\ signed \subseteq LockVote
    /\ request \in [tx : Tx \cup {NoTx}, todo : SUBSET LockVote,
                    origin : {"none", "message", "wallet", "vote"}]
    /\ resolve \in [tx : Tx \cup {NoTx}, stage : {"none", "disconnect", "activate"},
                    undone : Seq(Tx \cup {NoTx})]
    /\ accepting \in Tx \cup {NoTx}
    /\ mempool \subseteq Tx /\ chain \in Seq(Tx \cup {NoTx}) /\ peak \in 0..MaxHeight
    /\ knownMN \subseteq MN /\ flags \subseteq {"spork2", "largework"} /\ now \in 0..MaxTime

\* Every transaction recorded for an outpoint in mapVotedOutpoints is a candidate: Vote() and
\* ProcessTxLockVote() dereference mapTxLockCandidates.find(hash) without comparing it with
\* end(), while CheckAndRemove() erases candidates.
VotedTxsAreCandidates ==
    \A o \in OutPoint : mapVotedOutpoints[o] \subseteq mapTxLockCandidates

\* A locked outpoint is held by a candidate that spends it, and each of the candidate's inputs
\* has the votes of SIGNATURES_REQUIRED masternodes of that input's quorum (IsAllOutPointsReady
\* at LockTransactionInputs, for as long as the lock is kept).
LocksBackedByQuorums ==
    \A o \in OutPoint : mapLockedOutpoints[o] # NoTx =>
        LET t == mapLockedOutpoints[o]
        IN /\ t \in mapTxLockCandidates /\ o \in Inputs[t]
           /\ \A p \in Inputs[t] :
                 Cardinality(mapMasternodeVotes[t][p] \cap Ranked[p]) >= SIGNATURES_REQUIRED

\* The confirmation heights SyncTransaction() keeps, by which CheckAndRemove() expires
\* candidates and votes, are heights at which the transaction is in the active chain, also
\* after blocks were disconnected or replayed.  A vote counted for this masternode itself is
\* left out: Vote() does not replace an entry mapTxLockVotes already has, and one that came
\* from the network before a restart may have a height nobody kept up to date.
ConfirmedHeightsInChain ==
    LET right(t, h) == h = -1 \/ (h \in 1..Len(chain) /\ chain[h] = t)
    IN /\ \A t \in mapTxLockCandidates : right(t, candidateHeight[t])
       /\ \A v \in mapTxLockVotes :
             \/ v \in mapTxLockVotesOrphan
             \/ v.mn # SELF /\ v.mn \in mapMasternodeVotes[v.tx][v.outpoint]
             => right(v.tx, voteHeight[v])

\* No transaction in the mempool spends an outpoint that another transaction has locked:
\* ResolveConflicts() clears the mempool before a lock, AcceptToMemoryPool() guards it after,
\* also for the transactions of blocks that are disconnected.
MempoolRespectsLocks == \A t \in mempool : RespectsLocks(t)

\* This masternode never signs votes for two transactions on one outpoint, whatever
\* CheckAndRemove() has forgotten in between ("refuse to vote twice or to include the same
\* outpoint in another tx", Vote()).
OwnVoteOnce ==
    \A v, w \in signed : v.outpoint = w.outpoint => v.tx = w.tx

\* A lock ends only by CheckAndRemove(), and only when a transaction spending the outpoint
\* was more than nInstantSendKeepLock blocks below the tip last notified; it never passes
\* directly to another transaction.
LockKeptUntilBuried ==
    [][\A o \in OutPoint :
         (mapLockedOutpoints[o] # NoTx /\ mapLockedOutpoints'[o] # mapLockedOutpoints[o]) =>
            /\ mapLockedOutpoints'[o] = NoTx
            /\ \E i \in 1..Len(chain) :
                  /\ chain[i] # NoTx /\ o \in Inputs[chain[i]]
                  /\ pCurrentBlockIndex - i > nInstantSendKeepLock]_vars

\* The candidates all of whose inputs have enough votes.
Complete == {t \in mapTxLockCandidates : IsAllOutPointsReady(t, mapMasternodeVotes)}

Abstract == INSTANCE OutpointLocks WITH lock <- mapLockedOutpoints, quorum <- Complete

\* The collection of votes, orphans, replays and expiry implement OutpointLocks: locks are
\* taken for all inputs in one step by a transaction with all its votes, and never stolen.
ImplementsOutpointLocks == Abstract!Spec

\* A handler that took cs_main and cs_instantsend gives them back: the loops of
\* ProcessOrphanTxLockVotes() and the recursion of ResolveConflicts() come to an end.
LocksReleased == Busy ~> ~ Busy

=============================================================================
