---------------------------- MODULE MasternodeList ----------------------------
(***************************************************************************)
(* CMasternodeMan's list as one ordinary node keeps it: the state of each  *)
(* masternode's entry, driven by broadcasts and pings that arrive late,    *)
(* again and out of order, by the passing of time and blocks, and by the   *)
(* recovery of entries that have expired for good: other masternodes are   *)
(* asked for their copy of the broadcast, and a new ping in enough answers *)
(* brings the entry back.                                                  *)
(*                                                                         *)
(* GetMinMasternodePaymentsProto() returns the truth value of a spork, so  *)
(* no protocol version is ever below it and MASTERNODE_UPDATE_REQUIRED     *)
(* cannot be reached; MASTERNODE_WATCHDOG_EXPIRED is commented out.        *)
(***************************************************************************)
EXTENDS Naturals, Integers, Sequences, SequencesExt, FiniteSets

CONSTANTS
    MN,                  \* masternodes
    Peer,                \* masternodes that can be asked for a broadcast
    SigTimes,            \* when broadcasts are signed
    PingTimes,           \* when pings are signed
    MIN_MNB,             \* MASTERNODE_MIN_MNB_SECONDS
    MIN_MNP,             \* MASTERNODE_MIN_MNP_SECONDS
    MNP_SLACK,           \* how much earlier than that a ping may come, 60 s
    EXPIRATION,          \* MASTERNODE_EXPIRATION_SECONDS
    NEW_START,           \* MASTERNODE_NEW_START_REQUIRED_SECONDS
    BAN_MAX_SCORE,       \* MASTERNODE_POSE_BAN_MAX_SCORE
    QUORUM_REQUIRED,     \* MNB_RECOVERY_QUORUM_REQUIRED
    RECOVERY_WAIT,       \* MNB_RECOVERY_WAIT_SECONDS
    RECOVERY_RETRY,      \* MNB_RECOVERY_RETRY_SECONDS
    MaxTime,             \* bound of the clock
    MaxEvents            \* bound of blocks, verifications, spends and restarts

ASSUME ListAssumption ==
    /\ IsFiniteSet(MN) /\ IsFiniteSet(SigTimes)
    /\ SigTimes \subseteq Nat \ {0} /\ PingTimes \subseteq Nat \ {0}
    /\ {MIN_MNB, MIN_MNP, MNP_SLACK, EXPIRATION, NEW_START, BAN_MAX_SCORE, QUORUM_REQUIRED,
        RECOVERY_WAIT, RECOVERY_RETRY, MaxTime, MaxEvents} \subseteq Nat
    /\ QUORUM_REQUIRED > 0 /\ MaxTime > 0 /\ MIN_MNP > MNP_SLACK /\ MIN_MNP <= EXPIRATION
    /\ EXPIRATION <= NEW_START

State == {"PRE_ENABLED", "ENABLED", "EXPIRED", "OUTPOINT_SPENT",
          "NEW_START_REQUIRED", "POSE_BAN"}

VARIABLES
    now,       \* GetTime(), GetAdjustedTime()
    height,    \* chainActive.Height()
    unspent,   \* masternodes whose collateral is in the UTXO set
    synced,    \* masternodeSync: the list is synced
    entries,   \* vMasternodes, by masternode
    seen,      \* mapSeenMasternodeBroadcast, by masternode and sigTime: the last
               \* ping, and whether the broadcast is there or operator[] made one
    seenPing,  \* mapSeenMasternodePing
    requests,  \* mMnbRecoveryRequests
    replies,   \* mMnbRecoveryGoodReplies
    events

listVars == <<now, height, unspent, synced, entries, seen, seenPing, requests, replies, events>>
chain == <<now, height, unspent, synced, events>>

ListInit ==
    /\ now = 1 /\ height = 0 /\ unspent = MN /\ synced = TRUE
    /\ entries = <<>> /\ seen = <<>> /\ seenPing = {}
    /\ requests = <<>> /\ replies = <<>> /\ events = 0

Listed == DOMAIN entries

\* CMasternode(mnb): the entry of a broadcast.
EntryOf(s, p, state) == [state |-> state, sig |-> s, ping |-> p, score |-> 0, until |-> 0]

\* CMasternodeBroadcast(*pmn).GetHash(): lastPing is not hashed.
HashOf(m, e) == <<m, e.sig>>

\* A map after map[k] = v, insert(k, v) and erase of keys.
With(f, k, v) == [x \in DOMAIN f \cup {k} |-> IF x = k THEN v ELSE f[x]]
Insert(f, k, v) == IF k \in DOMAIN f THEN f ELSE With(f, k, v)
Without(f, keys) == [k \in DOMAIN f \ keys |-> f[k]]

-----------------------------------------------------------------------------

Alive(e) ==
    [e EXCEPT !.state = IF e.ping - e.sig < MIN_MNP THEN "PRE_ENABLED" ELSE "ENABLED"]

\* The end of CMasternode::Check, by the age of the last ping.
ByAge(e) ==
    IF ~ synced /\ now - e.ping >= MIN_MNP
    THEN IF e.state \in {"EXPIRED", "NEW_START_REQUIRED"} THEN e ELSE Alive(e)
    ELSE IF now - e.ping >= NEW_START THEN [e EXCEPT !.state = "NEW_START_REQUIRED"]
    ELSE IF now - e.ping >= EXPIRATION THEN [e EXCEPT !.state = "EXPIRED"]
    ELSE Alive(e)

\* CMasternode::Check, when its rate limit lets it run.
Check(m, e) ==
    IF e.state = "OUTPOINT_SPENT" THEN e
    ELSE IF m \notin unspent THEN [e EXCEPT !.state = "OUTPOINT_SPENT"]
    ELSE IF e.state = "POSE_BAN"
    THEN IF height < e.until THEN e
         ELSE ByAge([e EXCEPT !.score = IF @ > -BAN_MAX_SCORE THEN @ - 1 ELSE @])
    ELSE IF e.score >= BAN_MAX_SCORE
    THEN [e EXCEPT !.state = "POSE_BAN", !.until = height + Cardinality(Listed)]
    ELSE ByAge(e)

TooEarlyNever(e, p) == FALSE      \* mutant

\* CMasternodePing::CheckAndUpdate: the ping is too early after the last one.
TooEarly(e, p) == p - e.ping < MIN_MNP - MNP_SLACK

\* UpdateFromNewBroadcast, with the ping taken or not, and the Check after it.
UpdateFromNewBroadcast(m, e, s, p, pinged) ==
    Check(m, [e EXCEPT !.sig = s, !.score = 0, !.until = 0,
                       !.ping = IF pinged THEN p ELSE @])

\* A masternode under a PoSe ban stays as it is.
Refused(e) == e.state = "POSE_BAN"

IsBroadcastedWithin(e) == now - e.sig < MIN_MNB

\* CMasternodeBroadcast::Update.  The Check may be skipped (checked), the
\* block of the ping may be unknown (known).
Update(m, e, s, p, fRecovery, checked, known) ==
    LET f == IF checked THEN Check(m, e) ELSE e
        pinged == known /\ ~ TooEarly(f, p)
        Same(g, ok) == [entry |-> g, ok |-> ok, pinged |-> FALSE]
    IN IF s < e.sig \/ (s = e.sig /\ ~ fRecovery) THEN Same(e, FALSE)
       ELSE IF Refused(f) THEN Same(f, FALSE)
       ELSE IF IsBroadcastedWithin(f) THEN Same(f, TRUE)
       ELSE [entry |-> UpdateFromNewBroadcast(m, f, s, p, pinged), ok |-> TRUE,
             pinged |-> pinged]

-----------------------------------------------------------------------------
(* MNANNOUNCE: CheckMnbAndUpdateMasternodeList.  It works on a record of   *)
(* the entries, the broadcasts and the pings seen.                         *)

Inserted(st, hash, p) ==
    [st EXCEPT !.seen = Insert(@, hash, [ping |-> p, real |-> TRUE])]

\* The masternode is in the list.  The broadcast of its entry is looked up with
\* operator[], which makes an empty one, never found by its hash, when it is
\* missing; a successful update erases the one it found.
UpdateKnown(st, m, s, p, fRecovery, checked, known) ==
    LET hash == <<m, s>>
        old == HashOf(m, st.entries[m])
        u == Update(m, st.entries[m], s, p, fRecovery, checked, known)
        both == Insert(Inserted(st, hash, p).seen, old, [ping |-> 0, real |-> FALSE])
        pinged == IF u.pinged THEN [both EXCEPT ![hash].ping = p] ELSE both
    IN [entries |-> [st.entries EXCEPT ![m] = u.entry],
        seen |-> IF u.ok /\ old # hash /\ both[old].real THEN Without(pinged, {old})
                 ELSE pinged,
        pings |-> IF u.pinged /\ u.entry.state = "ENABLED" THEN st.pings \cup {<<m, p>>}
                  ELSE st.pings]

\* It is not: CheckOutpoint and Add.  A collateral that is spent or whose block
\* is newer than the signature leaves the broadcast seen.
AddNew(st, m, s, p, checked, known) ==
    IF m \in unspent /\ checked
    THEN [Inserted(st, <<m, s>>, p) EXCEPT
            !.entries = With(@, m, EntryOf(s, p, IF known THEN "ENABLED" ELSE "EXPIRED"))]
    ELSE Inserted(st, <<m, s>>, p)

Process(st, m, s, p, fRecovery, checked, known) ==
    IF m \in DOMAIN st.entries THEN UpdateKnown(st, m, s, p, fRecovery, checked, known)
    ELSE AddNew(st, m, s, p, checked, known)

\* Not seen before.  A collateral with too few confirmations changes nothing:
\* the broadcast may come again.
NewBroadcast(m, s, p) ==
    /\ <<m, s>> \notin DOMAIN seen
    /\ \E checked, known \in BOOLEAN :
         LET st == Process([entries |-> entries, seen |-> seen, pings |-> seenPing],
                           m, s, p, FALSE, checked, known)
         IN entries' = st.entries /\ seen' = st.seen /\ seenPing' = st.pings
    /\ UNCHANGED <<chain, requests, replies>>

AnsweredUnnoticed(hash, peer) == requests      \* mutant

\* "do not allow node to send same mnb multiple times in recovery mode"
Answered(hash, peer) == [requests EXCEPT ![hash].peers = @ \ {peer}]

\* Seen before: only an answer of a peer that was asked, with a newer ping
\* that makes the masternode look alive, counts.
Reply(m, s, p, peer) ==
    LET hash == <<m, s>>
        simulated == Check(m, EntryOf(s, p, "ENABLED"))
        good == p > seen[hash].ping /\
                  simulated.state \in {"ENABLED", "PRE_ENABLED", "EXPIRED"}
    IN /\ hash \in DOMAIN seen /\ hash \in DOMAIN requests
       /\ now < requests[hash].until /\ peer \in requests[hash].peers
       /\ requests' = Answered(hash, peer)
       /\ replies' = IF ~ good THEN replies
                     ELSE IF hash \in DOMAIN replies
                     THEN [replies EXCEPT ![hash] = Append(@, [peer |-> peer, ping |-> p])]
                     ELSE With(replies, hash, <<[peer |-> peer, ping |-> p]>>)
       /\ UNCHANGED <<chain, entries, seen, seenPing>>

Announce(m, s, p) ==
    /\ s <= p /\ p <= now
    /\ \/ NewBroadcast(m, s, p)
       \/ \E peer \in Peer : Reply(m, s, p, peer)

\* MNPING.  A ping of an unknown block is only remembered.
Ping(m, p) ==
    /\ p <= now /\ <<m, p>> \notin seenPing
    /\ seenPing' = seenPing \cup {<<m, p>>}
    /\ \/ UNCHANGED <<entries, seen>>
       \/ /\ m \in Listed /\ entries[m].state # "NEW_START_REQUIRED"
          /\ ~ TooEarly(entries[m], p)
          /\ LET e == [entries[m] EXCEPT !.ping = p]
             IN /\ entries' = [entries EXCEPT ![m] = Check(m, e)]
                /\ seen' = IF HashOf(m, e) \in DOMAIN seen
                           THEN [seen EXCEPT ![HashOf(m, e)].ping = p] ELSE seen
    /\ UNCHANGED <<chain, requests, replies>>

-----------------------------------------------------------------------------
(* The pool thread.                                                        *)

\* CMasternodeMan::Check, for some of the entries.
CheckAll ==
    /\ Listed # {}
    /\ \E checked \in SUBSET Listed :
         entries' = [m \in Listed |-> IF m \in checked THEN Check(m, entries[m]) ELSE entries[m]]
    /\ UNCHANGED <<chain, seen, seenPing, requests, replies>>

\* The answers have had their time.
Due(h) == requests[h].until < now

\* The answers processed, in the order of the map.
Recovered(start, order, checked, known) ==
    LET st[i \in 0..Len(order)] ==
          IF i = 0 THEN start
          ELSE Process(st[i - 1], order[i][1], order[i][2], replies[order[i]][1].ping, TRUE,
                       checked, known)
    IN st[Len(order)]

\* CheckAndRemove: spent entries go, expired ones are asked for (some of them,
\* once the node is fully synced), answers that had their time are processed,
\* and old requests and pings dropped.
CheckAndRemove ==
    /\ synced
    /\ \E rechecked \in SUBSET Listed, checked, known \in BOOLEAN :
       LET fresh == [m \in Listed |-> IF m \in rechecked THEN Check(m, entries[m]) ELSE entries[m]]
           spent == {m \in Listed : fresh[m].state = "OUTPOINT_SPENT"}
           kept == [m \in Listed \ spent |-> fresh[m]]
           wanted == {HashOf(m, kept[m]) : m \in
                        {n \in DOMAIN kept : kept[n].state = "NEW_START_REQUIRED"}}
           due == {h \in DOMAIN replies : Due(h)}
           good == {h \in due : Len(replies[h]) >= QUORUM_REQUIRED}
           start == [entries |-> kept, pings |-> seenPing,
                     seen |-> Without(seen, {HashOf(m, fresh[m]) : m \in spent})]
       IN \E order \in SetToSeqs(good), ask \in SUBSET (wanted \ DOMAIN requests) :
          \E asked \in [ask -> SUBSET Peer] :
            LET st == Recovered(start, order, checked, known)
                all == [h \in ask \cup DOMAIN requests |->
                          IF h \in ask THEN [until |-> now + RECOVERY_WAIT, peers |-> asked[h]]
                          ELSE requests[h]]
            IN /\ entries' = st.entries /\ seen' = st.seen
               /\ seenPing' = {x \in st.pings : now - x[2] <= NEW_START}
               /\ replies' = Without(replies, due)
               /\ requests' = [h \in {k \in DOMAIN all : now - all[k].until <= RECOVERY_RETRY}
                                |-> all[h]]
    /\ UNCHANGED chain

-----------------------------------------------------------------------------
(* Surroundings.                                                           *)

Tick ==
    /\ now < MaxTime /\ now' = now + 1
    /\ UNCHANGED <<height, unspent, synced, entries, seen, seenPing, requests, replies, events>>

Event == events < MaxEvents /\ events' = events + 1

Block ==
    /\ Event /\ height' = height + 1
    /\ UNCHANGED <<now, unspent, synced, entries, seen, seenPing, requests, replies>>

\* The collateral is spent, or a reorganisation brings it back.
Spend(m) ==
    /\ Event /\ unspent' = IF m \in unspent THEN unspent \ {m} ELSE unspent \cup {m}
    /\ UNCHANGED <<now, height, synced, entries, seen, seenPing, requests, replies>>

\* IncreasePoSeBanScore and DecreasePoSeBanScore, by CheckSameAddr and the
\* answers to verification requests.
Verify(m) ==
    /\ Event /\ m \in Listed
    /\ \E score \in {entries[m].score - 1, entries[m].score + 1} :
         /\ score \in (-BAN_MAX_SCORE)..BAN_MAX_SCORE
         /\ entries' = [entries EXCEPT ![m].score = score]
    /\ UNCHANGED <<now, height, unspent, synced, seen, seenPing, requests, replies>>

\* mncache.dat brings everything back; the list has to be synced again.
Restart ==
    /\ Event /\ synced' = FALSE
    /\ UNCHANGED <<now, height, unspent, entries, seen, seenPing, requests, replies>>

Synced ==
    /\ ~ synced /\ synced' = TRUE
    /\ UNCHANGED <<now, height, unspent, entries, seen, seenPing, requests, replies, events>>

ListNext ==
    \/ \E m \in MN, s \in SigTimes, p \in PingTimes : Announce(m, s, p)
    \/ \E m \in MN, p \in PingTimes : Ping(m, p)
    \/ CheckAll \/ CheckAndRemove
    \/ Tick \/ Block \/ Restart \/ Synced
    \/ \E m \in MN : Spend(m) \/ Verify(m)

ListSpec == ListInit /\ [][ListNext]_listVars

-----------------------------------------------------------------------------

\* Every map holds what its declaration says.
ListTypeOK ==
    /\ now \in 1..MaxTime /\ height \in Nat /\ unspent \subseteq MN /\ synced \in BOOLEAN
    /\ Listed \subseteq MN
    /\ \A m \in Listed : entries[m] \in
         [state : State, sig : SigTimes, ping : PingTimes,
          score : (-BAN_MAX_SCORE)..BAN_MAX_SCORE, until : Nat]
    /\ DOMAIN seen \subseteq MN \X SigTimes
    /\ \A h \in DOMAIN seen : seen[h] \in [ping : PingTimes \cup {0}, real : BOOLEAN]
    /\ seenPing \subseteq MN \X PingTimes
    /\ DOMAIN requests \subseteq MN \X SigTimes /\ DOMAIN replies \subseteq DOMAIN requests
    /\ \A h \in DOMAIN requests : requests[h] \in [until : Nat, peers : SUBSET Peer]
    /\ \A h \in DOMAIN replies : replies[h] \in Seq([peer : Peer, ping : PingTimes])

\* What an entry says of its masternode only ever becomes newer, whatever
\* order broadcasts, pings and recovered copies arrive in (a spent entry may be
\* removed and, its collateral back, added anew).
NewsOnlyNewer ==
    [][\A m \in Listed \cap Listed' : entries[m].state # "OUTPOINT_SPENT" =>
         entries'[m].sig >= entries[m].sig /\ entries'[m].ping >= entries[m].ping]_listVars

\* "Masternode is completely expired, new start is required": the ping of
\* such an entry is not renewed by a ping, only by a newer broadcast or by the
\* answers of a quorum of different peers that were asked for their copy and
\* given the time to answer (CMasternodePing::CheckAndUpdate, CheckAndRemove).
ExpiredNeedsNewStart ==
    [][\A m \in Listed \cap Listed' :
         entries[m].state = "NEW_START_REQUIRED" /\ entries'[m].ping # entries[m].ping =>
           \/ entries'[m].sig > entries[m].sig
           \/ LET h == HashOf(m, entries[m])
              IN h \in DOMAIN replies /\ now > requests[h].until /\
                 Cardinality({replies[h][i].peer : i \in DOMAIN replies[h]}) >= QUORUM_REQUIRED
      ]_listVars
=============================================================================
