---------------------------- MODULE MasternodeSync ----------------------------
(***************************************************************************)
(* CMasternodeSync: how a starting node fetches sporks, the masternode     *)
(* list, payment votes and governance objects from its peers, one asset    *)
(* after the other, and starts over when it failed, slept or lost its      *)
(* list.  ProcessTick runs in the PrivateSend thread without a lock: the   *)
(* step that opens a tick and the visit of each peer are steps of their    *)
(* own, and the handlers of the message thread, the RPC commands and other *)
(* callers of IsBlockchainSynced run between them.                         *)
(* Times are kept as ages in seconds, counted up to MaxAge.  The code's    *)
(* nTimeLastMasternodeList, nTimeLastPaymentVote, nTimeLastGovernanceItem  *)
(* and nTimeLastFailure are each set when their asset (or the failed       *)
(* state) is entered and read only in it, so one age stands for the four.  *)
(***************************************************************************)
EXTENDS Naturals, Sequences, FiniteSets

CONSTANTS
    Peer,                \* addresses of the nodes we connect to
    Temporary,           \* masternode connections, skipped by a sync
    FirstNodes,          \* connections the node may have at the first tick
    TICK_SECONDS,        \* MASTERNODE_SYNC_TICK_SECONDS
    TIMEOUT_SECONDS,     \* MASTERNODE_SYNC_TIMEOUT_SECONDS
    COOLDOWN_SECONDS,    \* wait after a failure
    FEW_VOTES,           \* fewer new votes than this end the governance asset
    MaxAge,              \* ages are counted up to here
    MaxAttempt,          \* nRequestedMasternodeAttempt is counted up to here
    MaxEvents            \* number of steps of the surroundings

ASSUME SyncAssumption ==
    /\ Temporary \subseteq Peer
    /\ FirstNodes \subseteq Seq(Peer)
    /\ {TICK_SECONDS, TIMEOUT_SECONDS, COOLDOWN_SECONDS, FEW_VOTES,
        MaxAge, MaxAttempt, MaxEvents} \subseteq Nat
    /\ TICK_SECONDS > 0 /\ FEW_VOTES > 0
    /\ MaxAge > TIMEOUT_SECONDS
    /\ MaxAge > COOLDOWN_SECONDS /\ MaxAttempt > 1

Assets == {"FAILED", "INITIAL", "SPORKS", "LIST", "MNW", "GOVERNANCE", "FINISHED"}
Requests == {"spork", "list", "votes", "governance", "full"}
Asking == {"list", "votes", "governance"}

VARIABLES
    sync,                \* members: asset, attempt, age of the last item
    fBlockchainSynced,   \* statics of IsBlockchainSynced
    fFirstBlockAccepted,
    processed,           \* age of nTimeLastProcess
    slept,               \* nTimeLastProcess is more than an hour old
    nTick,               \* static of ProcessTick, modulo TICK_SECONDS
    noObjectsLeft,       \* 0, or 1 + age of nTimeNoObjectsLeft
    checkedThisTick,     \* nLastTick = nTick
    nLastVotes,
    pc, todo,            \* the running ProcessTick and its rest of vNodesCopy
    vNodes, fDisconnect, \* connected peers, and those marked for disconnection
    nVersion0,           \* connected peers whose version message is still to come
    fulfilled,           \* netfulfilledman: unexpired requests per address
    weAsked,             \* mWeAskedForMasternodeList
    haveList,            \* mnodeman.CountMasternodes() > 0
    votes,               \* governance.GetVoteCount()
    importing, peersAgree, tipRecent,    \* state of the block chain
    asked, twice, byHand,   \* observed: who was asked in this go, what was
                            \* asked twice of a peer, an RPC moved the asset
    events

ticker == <<nTick, pc, todo>>
statics == <<noObjectsLeft, checkedThisTick, nLastVotes>>
chain == <<fBlockchainSynced, fFirstBlockAccepted, processed, slept>>
net == <<vNodes, fDisconnect, nVersion0, fulfilled, weAsked>>
data == <<haveList, votes, importing, peersAgree, tipRecent>>
seen == <<asked, twice, byHand>>
vars == <<sync, chain, ticker, statics, net, data, seen, events>>

Usable(p) == p \notin Temporary

Connected == {vNodes[i] : i \in DOMAIN vNodes}

TimedAsset(s) == s.asset \in {"FAILED", "LIST", "MNW", "GOVERNANCE"}

Older(n) == IF n < MaxAge THEN n + 1 ELSE n

-----------------------------------------------------------------------------
(* The members, and the operations on them.                                *)

Reset == [asset |-> "INITIAL", attempt |-> 0, age |-> 0]

Fail(s) == [s EXCEPT !.asset = "FAILED", !.age = 0]

NextAsset(asset) ==
    CASE asset = "INITIAL" -> "SPORKS"
      [] asset = "SPORKS" -> "LIST"
      [] asset = "LIST" -> "MNW"
      [] asset = "MNW" -> "GOVERNANCE"
      [] OTHER -> "FINISHED"

\* SwitchToNextAsset without its effect on netfulfilledman.  The last switch
\* returns before it zeroes the attempts when cs_vNodes is taken.
SwitchToNextAsset(s, locked) ==
    [asset |-> NextAsset(s.asset), age |-> 0,
     attempt |-> IF s.asset = "GOVERNANCE" /\ ~locked THEN s.attempt ELSE 0]

\* What the switch does to the connected peers' entries of netfulfilledman.
SwitchFulfilled(s, locked) ==
    [p \in Peer |->
        IF ~locked \/ p \notin Connected THEN fulfilled[p]
        ELSE IF s.asset = "INITIAL" THEN {}
        ELSE IF s.asset = "GOVERNANCE" THEN fulfilled[p] \cup {"full"}
        ELSE fulfilled[p]]

\* IsBlockchainSynced(accepted), called with the members s: the members and
\* statics it leaves and the answer.
IsBlockchainSynced(s, accepted) ==
    LET s1 == IF slept THEN Reset ELSE s
        known == fBlockchainSynced /\ ~slept
        now == known \/ peersAgree \/ (fFirstBlockAccepted /\ tipRecent)
    IN  IF importing
        THEN [sync |-> s, known |-> fBlockchainSynced, first |-> fFirstBlockAccepted,
              processed |-> processed, slept |-> slept, answer |-> FALSE]
        ELSE IF accepted /\ s1.asset # "FINISHED"
        THEN [sync |-> s1, known |-> FALSE, first |-> TRUE,
              processed |-> 0, slept |-> FALSE, answer |-> FALSE]
        ELSE IF ~accepted /\ ~slept /\ processed < TICK_SECONDS
        THEN [sync |-> s1, known |-> known, first |-> fFirstBlockAccepted,
              processed |-> processed, slept |-> FALSE, answer |-> known]
        ELSE [sync |-> s1, known |-> now, first |-> fFirstBlockAccepted,
              processed |-> 0, slept |-> FALSE, answer |-> now]

UpdateChain(r) ==
    /\ fBlockchainSynced' = r.known
    /\ fFirstBlockAccepted' = r.first
    /\ processed' = r.processed
    /\ slept' = r.slept

\* The state at the first tick: the network threads may have connected to peers
\* since the thread was started, and have had their version.
Init ==
    /\ sync = Reset
    /\ fBlockchainSynced = FALSE /\ fFirstBlockAccepted = FALSE
    /\ processed = 0 /\ slept = FALSE
    /\ nTick = 0 /\ pc = "idle" /\ todo = <<>>
    /\ noObjectsLeft = 0 /\ checkedThisTick = FALSE /\ nLastVotes = 0
    /\ vNodes \in FirstNodes
    /\ fDisconnect = {} /\ nVersion0 = {}
    /\ fulfilled = [p \in Peer |-> {}] /\ weAsked = {}
    /\ haveList \in BOOLEAN /\ votes = 0
    /\ importing = TRUE /\ peersAgree \in BOOLEAN /\ tipRecent = FALSE
    /\ asked = [a \in Asking |-> {}] /\ twice = {} /\ byHand = FALSE
    /\ events = 0

-----------------------------------------------------------------------------
(* The PrivateSend thread.                                                 *)

\* One second passes and ProcessTick is called; all but each TICK_SECONDS-th
\* call returns at once.
Second ==
    /\ pc = "idle"
    /\ sync' = [sync EXCEPT !.age = IF TimedAsset(sync) THEN Older(@) ELSE @]
    /\ processed' = IF processed < TICK_SECONDS THEN processed + 1 ELSE processed
    /\ noObjectsLeft' = IF noObjectsLeft \in 1..MaxAge THEN noObjectsLeft + 1
                                                       ELSE noObjectsLeft
    /\ nTick' = (nTick + 1) % TICK_SECONDS
    /\ pc' = IF nTick = 0 THEN "tick" ELSE "idle"
    /\ checkedThisTick' = FALSE
    /\ UNCHANGED <<fBlockchainSynced, fFirstBlockAccepted, slept, todo,
                   nLastVotes, net, data, seen, events>>

\* ProcessTick up to its loop over the peers.
TickFinished ==
    /\ pc = "tick" /\ sync.asset = "FINISHED" /\ haveList
    /\ pc' = "idle"
    /\ UNCHANGED <<sync, chain, nTick, todo, statics, net, data, seen, events>>

TickFailed ==
    /\ pc = "tick" /\ sync.asset = "FAILED"
    /\ sync' = IF sync.age > COOLDOWN_SECONDS THEN Reset ELSE sync
    /\ pc' = "idle"
    /\ UNCHANGED <<chain, nTick, todo, statics, net, data, seen, events>>

TickBegin(locked) ==
    LET s0 == IF sync.asset = "FINISHED" THEN Reset ELSE sync
        r == IsBlockchainSynced(s0, FALSE)
        s1 == r.sync
    IN  /\ pc = "tick" /\ sync.asset # "FAILED"
        /\ sync.asset = "FINISHED" => ~haveList
        /\ UpdateChain(r)
        /\ IF ~r.answer /\ s1.asset \notin {"FAILED", "INITIAL", "SPORKS"}
           THEN /\ sync' = [s1 EXCEPT !.age = 0]
                /\ pc' = "idle"
                /\ UNCHANGED <<todo, fulfilled, seen>>
           ELSE /\ pc' = "loop" /\ todo' = vNodes
                /\ IF \/ s1.asset = "INITIAL"
                      \/ s1.asset = "SPORKS" /\ r.answer
                   THEN /\ sync' = SwitchToNextAsset(s1, locked)
                        /\ fulfilled' = SwitchFulfilled(s1, locked)
                        /\ IF s1.asset = "INITIAL"
                           THEN /\ asked' = [a \in Asking |-> {}]
                                /\ byHand' = FALSE
                           ELSE UNCHANGED <<asked, byHand>>
                        /\ UNCHANGED twice
                   ELSE sync' = s1 /\ UNCHANGED <<fulfilled, seen>>
        /\ UNCHANGED <<nTick, statics, vNodes, fDisconnect, nVersion0, weAsked, data, events>>

-----------------------------------------------------------------------------
(* The visit of one peer p in the loop.                                    *)

Visiting(p) == pc = "loop" /\ todo # <<>> /\ Head(todo) = p

Continue == todo' = Tail(todo) /\ pc' = "loop"
Return == todo' = <<>> /\ pc' = "idle"

MarkLast(p, what) == fulfilled' = [fulfilled EXCEPT ![p] = {what}]      \* mutant

Mark(p, what) == fulfilled' = [fulfilled EXCEPT ![p] = @ \cup {what}]

\* A request for an asset goes to p: what the observer records.
Record(p, what) ==
    /\ asked' = [asked EXCEPT ![what] = @ \cup {p}]
    /\ twice' = twice \cup (IF p \in asked[what] /\ ~slept THEN {what} ELSE {})
    /\ UNCHANGED byHand

MoreAttempts == [sync EXCEPT !.attempt = IF @ < MaxAttempt THEN @ + 1 ELSE @]

\* Temporary connections are skipped, peers we have fully synced from are
\* disconnected, and a peer is asked for sporks before anything else.
VisitFirst(p) ==
    /\ Visiting(p)
    /\ \/ ~Usable(p) /\ UNCHANGED <<fDisconnect, fulfilled>>
       \/ /\ Usable(p) /\ "full" \in fulfilled[p]
          /\ fDisconnect' = fDisconnect \cup ({p} \cap Connected)
          /\ UNCHANGED fulfilled
       \/ /\ Usable(p) /\ "full" \notin fulfilled[p]
          /\ "spork" \notin fulfilled[p]
          /\ Mark(p, "spork")
          /\ UNCHANGED fDisconnect
    /\ Continue
    /\ UNCHANGED <<sync, chain, nTick, statics, vNodes, nVersion0, weAsked, data, seen, events>>

Ready(p) == Visiting(p) /\ Usable(p) /\ "full" \notin fulfilled[p] /\ "spork" \in fulfilled[p]

VisitIdle(p) ==
    /\ Ready(p) /\ sync.asset \notin {"LIST", "MNW", "GOVERNANCE"}
    /\ Continue
    /\ UNCHANGED <<sync, chain, nTick, statics, net, data, seen, events>>

\* mutant
OverdueButList(s) == s.asset \in {"MNW", "GOVERNANCE"} /\ s.age > TIMEOUT_SECONDS

Overdue(s) == s.asset \in {"LIST", "MNW", "GOVERNANCE"} /\ s.age > TIMEOUT_SECONDS

NobodyAskedUnchecked(s) == FALSE      \* mutant

\* "there is no way we can continue without Masternode list, fail here and try later"
NobodyAsked(s) == s.asset \in {"LIST", "MNW"} /\ s.attempt = 0

\* No item of the asset for TIMEOUT_SECONDS: the list and the votes fail when
\* nobody was asked, otherwise the next asset is begun.
VisitTimeout(p, locked) ==
    /\ Ready(p) /\ Overdue(sync)
    /\ IF NobodyAsked(sync)
       THEN sync' = Fail(sync) /\ UNCHANGED fulfilled
       ELSE /\ sync' = SwitchToNextAsset(sync, locked)
            /\ fulfilled' = SwitchFulfilled(sync, locked)
    /\ Return
    /\ UNCHANGED <<chain, nTick, statics, vNodes, fDisconnect, nVersion0, weAsked, data, seen, events>>

\* mnpayments.IsEnoughData() is left open.
VisitEnoughVotes(p) ==
    /\ Ready(p) /\ sync.asset = "MNW" /\ ~Overdue(sync)
    /\ sync.attempt > 1
    /\ sync' = SwitchToNextAsset(sync, TRUE)
    /\ Return
    /\ UNCHANGED <<chain, nTick, statics, net, data, seen, events>>

\* GetMinMasternodePaymentsProto() is 0 or 1, whether SPORK_10 is active: only
\* a peer without a version is below it.
BelowMinProto(p, spork10) == spork10 /\ p \in nVersion0

\* SsegUpdate stays silent for a peer asked within SSEG_UPDATE_SECONDS; the
\* attempt counts all the same.
VisitList(p, spork10) ==
    /\ Ready(p) /\ sync.asset = "LIST" /\ ~Overdue(sync)
    /\ IF "list" \in fulfilled[p]
       THEN Continue /\ UNCHANGED <<sync, fulfilled, weAsked, seen>>
       ELSE /\ Mark(p, "list")
            /\ IF BelowMinProto(p, spork10)
               THEN Continue /\ UNCHANGED <<sync, weAsked, seen>>
               ELSE /\ sync' = MoreAttempts
                    /\ weAsked' = weAsked \cup {p}
                    /\ Record(p, "list")
                    /\ Return
    /\ UNCHANGED <<chain, nTick, statics, vNodes, fDisconnect, nVersion0, data, events>>

VisitVotes(p, spork10) ==
    /\ Ready(p) /\ sync.asset = "MNW" /\ ~Overdue(sync)
    /\ IF "votes" \in fulfilled[p]
       THEN Continue /\ UNCHANGED <<sync, fulfilled, seen>>
       ELSE /\ Mark(p, "votes")
            /\ IF BelowMinProto(p, spork10)
               THEN Continue /\ UNCHANGED <<sync, seen>>
               ELSE sync' = MoreAttempts /\ Record(p, "votes") /\ Return
    /\ UNCHANGED <<chain, nTick, statics, vNodes, fDisconnect, nVersion0, weAsked, data, events>>

\* A peer already asked for objects is asked for votes; left is the answer of
\* RequestGovernanceObjectVotes.
NothingLeft(p, left) == "governance" \in fulfilled[p] /\ left = 0

Waited == noObjectsLeft > 1 + TIMEOUT_SECONDS

FewNewVotes == votes < nLastVotes + FEW_VOTES

VisitGovernanceDone(p, left, locked) ==
    /\ Ready(p) /\ sync.asset = "GOVERNANCE" /\ ~Overdue(sync)
    /\ NothingLeft(p, left) /\ ~checkedThisTick
    /\ Waited /\ FewNewVotes
    /\ noObjectsLeft' = 0
    /\ sync' = SwitchToNextAsset(sync, locked)
    /\ fulfilled' = SwitchFulfilled(sync, locked)
    /\ Return
    /\ UNCHANGED <<chain, nTick, checkedThisTick, nLastVotes, vNodes, fDisconnect, nVersion0,
                   weAsked, data, seen, events>>

\* Otherwise the objects are asked for, again when they were before.
VisitGovernance(p, left) ==
    /\ Ready(p) /\ sync.asset = "GOVERNANCE" /\ ~Overdue(sync)
    /\ ~(NothingLeft(p, left) /\ ~checkedThisTick /\ Waited /\ FewNewVotes)
    /\ noObjectsLeft' = IF NothingLeft(p, left) /\ noObjectsLeft = 0
                        THEN 1 ELSE noObjectsLeft
    /\ IF NothingLeft(p, left) /\ checkedThisTick
       THEN /\ Continue
            /\ UNCHANGED <<sync, fulfilled, checkedThisTick, nLastVotes, seen>>
       ELSE /\ IF NothingLeft(p, left)
               THEN checkedThisTick' = TRUE /\ nLastVotes' = votes
               ELSE UNCHANGED <<checkedThisTick, nLastVotes>>
            /\ Mark(p, "governance")
            /\ IF p \in nVersion0
               THEN Continue /\ UNCHANGED <<sync, seen>>
               ELSE sync' = MoreAttempts /\ Record(p, "governance") /\ Return
    /\ UNCHANGED <<chain, nTick, vNodes, fDisconnect, nVersion0, weAsked, data, events>>

LoopEnd ==
    /\ pc = "loop" /\ todo = <<>>
    /\ pc' = "idle"
    /\ UNCHANGED <<sync, chain, nTick, todo, statics, net, data, seen, events>>

Ticker ==
    \/ Second \/ TickFinished \/ TickFailed \/ LoopEnd
    \/ \E locked \in BOOLEAN : TickBegin(locked)
    \/ \E p \in Peer :
        \/ VisitFirst(p) \/ VisitIdle(p) \/ VisitEnoughVotes(p)
        \/ \E spork10 \in BOOLEAN : VisitList(p, spork10) \/ VisitVotes(p, spork10)
        \/ \E locked \in BOOLEAN : VisitTimeout(p, locked)
        \/ \E left \in {0, 1} :
            \/ VisitGovernance(p, left)
            \/ \E locked \in BOOLEAN : VisitGovernanceDone(p, left, locked)

-----------------------------------------------------------------------------
(* The other threads.                                                      *)

Event == events < MaxEvents /\ events' = events + 1

Fresh(asset) == IF sync.asset = asset THEN [sync EXCEPT !.age = 0] ELSE sync

\* The handlers of mnb, mnw, govobj and govobjvote report a new item.
AddedMasternodeList ==
    /\ Event
    /\ sync' = Fresh("LIST")
    /\ haveList' = TRUE
    /\ UNCHANGED <<chain, ticker, statics, net, votes, importing, peersAgree,
                   tipRecent, seen>>

AddedPaymentVote ==
    /\ Event
    /\ sync' = Fresh("MNW")
    /\ UNCHANGED <<chain, ticker, statics, net, data, seen>>

AddedGovernanceItem ==
    /\ Event
    /\ sync' = Fresh("GOVERNANCE")
    /\ \E n \in {0, FEW_VOTES} : votes' = votes + n
    /\ UNCHANGED <<chain, ticker, statics, net, haveList, importing, peersAgree,
                   tipRecent, seen>>

\* mnodeman loses its masternodes.
LostMasternodes ==
    /\ Event /\ haveList
    /\ haveList' = FALSE
    /\ UNCHANGED <<sync, chain, ticker, statics, net, votes, importing, peersAgree,
                   tipRecent, seen>>

\* ProcessNewBlock accepts a block; the tip and the peers' heights move.
BlockAccepted ==
    LET r == IsBlockchainSynced(sync, TRUE) IN
    /\ Event
    /\ sync' = r.sync /\ UpdateChain(r)
    /\ peersAgree' \in BOOLEAN /\ tipRecent' \in BOOLEAN
    /\ UNCHANGED <<ticker, statics, net, haveList, votes, importing, seen>>

\* A handler, the PrivateSend thread or an RPC asks IsBlockchainSynced().
AskedIfSynced ==
    LET r == IsBlockchainSynced(sync, FALSE) IN
    /\ Event
    /\ sync' = r.sync /\ UpdateChain(r)
    /\ UNCHANGED <<ticker, statics, net, data, seen>>

ImportEnds ==
    /\ importing
    /\ importing' = FALSE
    /\ UNCHANGED <<sync, chain, ticker, statics, net, haveList, votes, peersAgree,
                   tipRecent, seen, events>>

\* RPC mnsync next and mnsync reset.  SwitchToNextAsset throws when failed.
MnsyncNext(locked) ==
    /\ Event /\ sync.asset # "FAILED"
    /\ sync' = SwitchToNextAsset(sync, locked)
    /\ fulfilled' = SwitchFulfilled(sync, locked)
    /\ byHand' = TRUE
    /\ asked' = IF sync.asset = "INITIAL" THEN [a \in Asking |-> {}] ELSE asked
    /\ UNCHANGED <<chain, ticker, statics, vNodes, fDisconnect, nVersion0, weAsked, data, twice>>

MnsyncReset ==
    /\ Event
    /\ sync' = Reset
    /\ UNCHANGED <<chain, ticker, statics, net, data, seen>>

\* The computer sleeps for more than an hour: the entries of netfulfilledman
\* expire, and every age is at its limit.
Sleep ==
    /\ Event
    /\ sync' = [sync EXCEPT !.age = IF TimedAsset(sync) THEN MaxAge ELSE @]
    /\ processed' = TICK_SECONDS /\ slept' = TRUE
    /\ noObjectsLeft' = IF noObjectsLeft = 0 THEN 0 ELSE MaxAge + 1
    /\ fulfilled' = [p \in Peer |-> {}]
    /\ weAsked' \in {weAsked, {}}
    /\ UNCHANGED <<fBlockchainSynced, fFirstBlockAccepted, ticker, checkedThisTick,
                   nLastVotes, vNodes, fDisconnect, nVersion0, data, seen>>

\* The node is restarted: members and statics are those of a new process, and
\* netfulfilled.dat and mncache.dat bring back the requests (nothing after a
\* crash before the first dump).
Restart ==
    /\ Event
    /\ sync' = Reset
    /\ fBlockchainSynced' = FALSE /\ fFirstBlockAccepted' = FALSE
    /\ processed' = 0 /\ slept' = FALSE
    /\ nTick' = 0 /\ pc' = "idle" /\ todo' = <<>>
    /\ noObjectsLeft' = 0 /\ checkedThisTick' = FALSE /\ nLastVotes' = 0
    /\ vNodes' = <<>> /\ fDisconnect' = {} /\ nVersion0' = {}
    /\ fulfilled' \in {fulfilled, [p \in Peer |-> {}]}
    /\ weAsked' \in {weAsked, {}} /\ haveList' = haveList
    /\ importing' = TRUE /\ peersAgree' = FALSE
    /\ UNCHANGED <<votes, tipRecent, seen>>

Connect(p) ==
    /\ Event
    /\ p \notin Connected
    /\ vNodes' = Append(vNodes, p)
    /\ nVersion0' = nVersion0 \cup {p}
    /\ UNCHANGED <<sync, chain, ticker, statics, fDisconnect, fulfilled, weAsked,
                   data, seen>>

\* A connected peer sends its version message.
Version(p) ==
    /\ p \in nVersion0
    /\ nVersion0' = nVersion0 \ {p}
    /\ UNCHANGED <<sync, chain, ticker, statics, vNodes, fDisconnect, fulfilled,
                   weAsked, data, seen, events>>

\* v without its i-th element.
Without(v, i) == [j \in 1..(Len(v) - 1) |-> v[IF j < i THEN j ELSE j + 1]]

\* The socket thread drops a marked peer, or the peer goes away.
Disconnect(p) ==
    /\ p \in Connected
    /\ IF p \in fDisconnect THEN UNCHANGED events ELSE Event
    /\ \E i \in DOMAIN vNodes : vNodes[i] = p /\ vNodes' = Without(vNodes, i)
    /\ fDisconnect' = fDisconnect \ {p}
    /\ nVersion0' = nVersion0 \ {p}
    /\ UNCHANGED <<sync, chain, ticker, statics, fulfilled, weAsked, data, seen>>

Surroundings ==
    \/ AddedMasternodeList \/ AddedPaymentVote \/ AddedGovernanceItem
    \/ LostMasternodes \/ BlockAccepted \/ AskedIfSynced \/ ImportEnds
    \/ MnsyncReset \/ Sleep \/ Restart
    \/ \E locked \in BOOLEAN : MnsyncNext(locked)
    \/ \E p \in Peer : Connect(p) \/ Version(p) \/ Disconnect(p)

Next == Ticker \/ Surroundings

Spec == Init /\ [][Next]_vars

(* The thread never stops, cs_vNodes is not taken at every single restart, *)
(* the import ends, peers send their version (the socket thread drops one  *)
(* that sends nothing for 60 seconds) and marked peers are dropped.        *)
Fairness ==
    /\ WF_vars(Ticker)
    /\ SF_vars(sync.asset = "INITIAL" /\ TickBegin(TRUE))
    /\ SF_vars(sync.asset = "FINISHED" /\ TickBegin(TRUE))
    /\ WF_vars(ImportEnds)
    /\ WF_vars(\E p \in Peer : Version(p))
    /\ WF_vars(\E p \in fDisconnect : Disconnect(p))

FairSpec == Spec /\ Fairness

-----------------------------------------------------------------------------
(* Properties.                                                             *)

TypeOK ==
    /\ sync \in [asset : Assets, attempt : 0..MaxAttempt, age : 0..MaxAge]
    /\ fBlockchainSynced \in BOOLEAN /\ fFirstBlockAccepted \in BOOLEAN
    /\ processed \in 0..TICK_SECONDS /\ slept \in BOOLEAN
    /\ nTick \in 0..(TICK_SECONDS - 1) /\ pc \in {"idle", "tick", "loop"}
    /\ todo \in Seq(Peer) /\ vNodes \in Seq(Peer)
    /\ noObjectsLeft \in 0..(MaxAge + 1) /\ checkedThisTick \in BOOLEAN
    /\ fDisconnect \subseteq Connected /\ nVersion0 \subseteq Connected
    /\ fulfilled \in [Peer -> SUBSET Requests] /\ weAsked \subseteq Peer
    /\ votes \in Nat /\ nLastVotes \in 0..votes
    /\ {haveList, importing, peersAgree, tipRecent, byHand} \subseteq BOOLEAN
    /\ asked \in [Asking -> SUBSET Peer] /\ twice \subseteq Asking
    /\ events \in 0..MaxEvents

\* No peer is sent a second request for the list or for payment votes in one
\* go, whatever connects, fails, restarts or sleeps in between (a peer answers
\* repeated requests with a ban score).
AskedOnce == twice \cap {"list", "votes"} = {}

\* Unless an operator moved the sync by hand, the assets that build on the
\* masternode list are reached only in a go in which some peer was asked for
\* the list, and our record of that request is still there.
ListRequested ==
    sync.asset \in {"MNW", "GOVERNANCE", "FINISHED"} /\ ~byHand /\ ~slept
        => asked["list"] \cap weAsked # {}

\* When things calm down, the sync does not hang at an asset: it finishes, or
\* the block chain stays behind, or no peer that can serve us is left.
Starved ==
    \/ ~fBlockchainSynced
    \/ Connected \subseteq Temporary
SyncEnds == []<>(sync.asset = "FINISHED") \/ <>[]Starved
=============================================================================
