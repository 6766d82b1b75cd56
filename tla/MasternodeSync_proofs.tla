------------------------ MODULE MasternodeSync_proofs ------------------------
(***************************************************************************)
(* Theorems about the masternode sync: what is recorded keeps its type, no *)
(* peer is asked twice in a go, and what builds on the masternode list is  *)
(* reached only when somebody was asked for it.                            *)
(***************************************************************************)
EXTENDS MasternodeSync, SequenceTheorems, TLAPS

-----------------------------------------------------------------------------
(* The inductive invariant.                                                *)

\* While a go runs and the machine did not sleep in it, whoever was asked for
\* the list or for votes has an entry of netfulfilledman that says so.
Remembered ==
    ~slept /\ sync.asset # "INITIAL" =>
        \A a \in {"list", "votes"} : \A p \in asked[a] : a \in fulfilled[p]

\* The attempts of the LIST asset count requests that are on record.
PastList == \/ sync.asset \in {"MNW", "GOVERNANCE", "FINISHED"}
            \/ sync.asset = "LIST" /\ sync.attempt > 0

ListAskedOf == PastList /\ ~byHand /\ ~slept => asked["list"] \cap weAsked # {}

Inv == TypeOK /\ Remembered /\ AskedOnce /\ ListAskedOf

-----------------------------------------------------------------------------
(* The type invariant in parts, and the operations on the members.         *)

Members == [asset : Assets, attempt : 0..MaxAttempt, age : 0..MaxAge]

ChainType ==
    /\ fBlockchainSynced \in BOOLEAN /\ fFirstBlockAccepted \in BOOLEAN
    /\ processed \in 0..TICK_SECONDS /\ slept \in BOOLEAN

TickType ==
    /\ nTick \in 0..(TICK_SECONDS - 1) /\ pc \in {"idle", "tick", "loop"}
    /\ todo \in Seq(Peer)

StaticsType == noObjectsLeft \in 0..(MaxAge + 1) /\ checkedThisTick \in BOOLEAN

NetType ==
    /\ vNodes \in Seq(Peer)
    /\ fDisconnect \subseteq Connected /\ nVersion0 \subseteq Connected

AskType == fulfilled \in [Peer -> SUBSET Requests] /\ weAsked \subseteq Peer

DataType ==
    /\ votes \in Nat /\ nLastVotes \in 0..votes
    /\ haveList \in BOOLEAN /\ importing \in BOOLEAN
    /\ peersAgree \in BOOLEAN /\ tipRecent \in BOOLEAN

SeenType ==
    /\ asked \in [Asking -> SUBSET Peer] /\ twice \subseteq Asking
    /\ byHand \in BOOLEAN /\ events \in 0..MaxEvents

LEMMA TypeParts ==
    TypeOK <=> /\ sync \in Members /\ ChainType /\ TickType /\ StaticsType
               /\ NetType /\ AskType /\ DataType /\ SeenType
BY DEF TypeOK, Members, ChainType, TickType, StaticsType, NetType, AskType, DataType, SeenType

LEMMA TypePartsNext ==
    TypeOK' <=> /\ sync' \in Members /\ ChainType' /\ TickType' /\ StaticsType'
                /\ NetType' /\ AskType' /\ DataType' /\ SeenType'
BY DEF TypeOK, Members, ChainType, TickType, StaticsType, NetType, AskType, DataType, SeenType,
       Connected

LEMMA Constants ==
    /\ TICK_SECONDS \in Nat /\ TICK_SECONDS > 0 /\ TIMEOUT_SECONDS \in Nat
    /\ COOLDOWN_SECONDS \in Nat /\ FEW_VOTES \in Nat /\ FEW_VOTES > 0
    /\ MaxAge \in Nat /\ MaxAttempt \in Nat /\ MaxEvents \in Nat /\ MaxAttempt > 1
    /\ FirstNodes \subseteq Seq(Peer) /\ Temporary \subseteq Peer
BY SyncAssumption

LEMMA MembersKept ==
    ASSUME NEW s \in Members, NEW locked \in BOOLEAN
    PROVE  /\ Reset \in Members /\ Fail(s) \in Members
           /\ SwitchToNextAsset(s, locked) \in Members
           /\ [s EXCEPT !.age = 0] \in Members
           /\ [s EXCEPT !.age = IF TimedAsset(s) THEN Older(@) ELSE @] \in Members
           /\ [s EXCEPT !.age = IF TimedAsset(s) THEN MaxAge ELSE @] \in Members
           /\ [s EXCEPT !.attempt = IF @ < MaxAttempt THEN @ + 1 ELSE @] \in Members
<1>1. Reset \in Members
  BY Constants DEF Reset, Members, Assets
<1>2. Fail(s) \in Members /\ [s EXCEPT !.age = 0] \in Members
  <2>1. 0 \in 0..MaxAge /\ "FAILED" \in Assets
    BY Constants DEF Assets
  <2> QED
    BY <2>1 DEF Fail, Members
<1>3. SwitchToNextAsset(s, locked) \in Members
  <2>1. NextAsset(s.asset) \in Assets
    BY DEF NextAsset, Members, Assets
  <2>2. s.attempt \in 0..MaxAttempt /\ 0 \in 0..MaxAttempt /\ 0 \in 0..MaxAge
    BY Constants DEF Members
  <2> QED
    BY <2>1, <2>2 DEF SwitchToNextAsset, Members
<1>4. \A a \in 0..MaxAge : Older(a) \in 0..MaxAge
  BY Constants DEF Older
<1>5. s.age \in 0..MaxAge /\ s.attempt \in 0..MaxAttempt /\ MaxAge \in 0..MaxAge
  BY Constants DEF Members
<1>6. /\ [s EXCEPT !.age = IF TimedAsset(s) THEN Older(@) ELSE @] \in Members
      /\ [s EXCEPT !.age = IF TimedAsset(s) THEN MaxAge ELSE @] \in Members
  BY <1>4, <1>5 DEF Members
<1>7. [s EXCEPT !.attempt = IF @ < MaxAttempt THEN @ + 1 ELSE @] \in Members
  <2>1. (IF s.attempt < MaxAttempt THEN s.attempt + 1 ELSE s.attempt) \in 0..MaxAttempt
    BY <1>5, Constants
  <2> QED
    BY <2>1 DEF Members
<1> QED
  BY <1>1, <1>2, <1>3, <1>6, <1>7

\* The next asset is never INITIAL, so a switch begins a go only from there.
LEMMA NextAssets ==
    ASSUME NEW s \in Members, NEW locked \in BOOLEAN
    PROVE  /\ SwitchToNextAsset(s, locked).asset = NextAsset(s.asset)
           /\ NextAsset(s.asset) # "INITIAL"
           /\ s.asset = "INITIAL" => NextAsset(s.asset) = "SPORKS"
           /\ s.asset = "SPORKS" => /\ NextAsset(s.asset) = "LIST"
                                    /\ SwitchToNextAsset(s, locked).attempt = 0
BY DEF SwitchToNextAsset, NextAsset, Members, Assets

\* IsBlockchainSynced leaves the members alone or resets them, and resets them
\* whenever it ends a sleep.
LEMMA BlockchainAnswer ==
    ASSUME ChainType, DataType, NEW s \in Members, NEW accepted \in BOOLEAN,
           NEW r, r = IsBlockchainSynced(s, accepted)
    PROVE  /\ r.sync \in {s, Reset}
           /\ r.known \in BOOLEAN /\ r.first \in BOOLEAN
           /\ r.processed \in 0..TICK_SECONDS /\ r.slept \in BOOLEAN /\ r.answer \in BOOLEAN
           /\ ~slept => ~r.slept /\ r.sync = s
           /\ slept /\ ~r.slept => r.sync = Reset
<1>1. 0 \in 0..TICK_SECONDS
  BY Constants
<1> QED
  BY <1>1 DEF IsBlockchainSynced, ChainType, DataType

\* A switch of asset forgets requests only at the start of a go.
LEMMA SwitchMarks ==
    ASSUME AskType, NEW s \in Members, NEW locked \in BOOLEAN
    PROVE  /\ SwitchFulfilled(s, locked) \in [Peer -> SUBSET Requests]
           /\ s.asset # "INITIAL" =>
                 \A p \in Peer : fulfilled[p] \subseteq SwitchFulfilled(s, locked)[p]
BY DEF AskType, SwitchFulfilled, Requests

-----------------------------------------------------------------------------
(* Steps that leave the go as it is, reset it or fall asleep.              *)

LEMMA GoKept ==
    ASSUME Inv, UNCHANGED twice,
           \/ sync'.asset = "INITIAL"
           \/ slept'
           \/ /\ sync'.asset = sync.asset /\ sync'.attempt = sync.attempt
              /\ UNCHANGED <<slept, asked, byHand, weAsked>>
              /\ \A p \in Peer : fulfilled[p] \subseteq fulfilled'[p]
    PROVE  Remembered' /\ AskedOnce' /\ ListAskedOf'
<1>1. AskedOnce'
  BY DEF Inv, AskedOnce
<1>2. \A a \in {"list", "votes"} : asked[a] \subseteq Peer
  BY DEF Inv, TypeOK, Asking
<1>3. Remembered'
  BY <1>2 DEF Inv, Remembered
<1>4. ListAskedOf'
  BY DEF Inv, ListAskedOf, PastList
<1> QED
  BY <1>1, <1>3, <1>4

LEMMA InitInv == Init => Inv
<1> SUFFICES ASSUME Init PROVE Inv
  OBVIOUS
<1>1. sync \in Members /\ sync.asset = "INITIAL"
  BY Constants DEF Init, Reset, Members, Assets
<1>2. 0 \in 0..TICK_SECONDS /\ 0 \in 0..(TICK_SECONDS - 1) /\ 0 \in 0..(MaxAge + 1)
  BY Constants
<1>3. ChainType /\ StaticsType
  BY <1>2, Zenon DEF Init, ChainType, StaticsType
<1>4. TickType
  <2>1. <<>> \in Seq(Peer)
    OBVIOUS
  <2> QED
    BY <1>2, <2>1, Zenon DEF Init, TickType
<1>5. NetType
  BY Constants DEF Init, NetType
<1>6. AskType /\ DataType
  <2>1. AskType
    BY DEF Init, AskType
  <2>2. 0 \in Nat /\ 0 \in 0..0
    OBVIOUS
  <2> QED
    BY <2>1, <2>2, Zenon DEF Init, DataType
<1>7. SeenType
  <2>1. 0 \in 0..MaxEvents
    BY Constants
  <2>2. asked \in [Asking -> SUBSET Peer] /\ twice \subseteq Asking
    BY DEF Init
  <2> QED
    BY <2>1, <2>2, Zenon DEF Init, SeenType
<1>8. Remembered /\ AskedOnce /\ ListAskedOf
  BY <1>1 DEF Init, Remembered, AskedOnce, ListAskedOf, PastList
<1> QED
  BY <1>1, <1>2, <1>3, <1>4, <1>5, <1>6, <1>7, <1>8, TypeParts DEF Inv

LEMMA SecondInv == Inv /\ Second => Inv'
<1> SUFFICES ASSUME Inv, Second PROVE Inv'
  OBVIOUS
<1>1. sync' \in Members /\ sync'.asset = sync.asset /\ sync'.attempt = sync.attempt
  <2>1. sync \in Members /\ sync' = [sync EXCEPT !.age = IF TimedAsset(sync) THEN Older(@) ELSE @]
    BY TypeParts DEF Inv, Second
  <2> QED
    BY <2>1, MembersKept DEF Members
<1>2. processed' \in 0..TICK_SECONDS
  <2>1. processed \in 0..TICK_SECONDS
    BY DEF Inv, TypeOK
  <2> QED
    BY <2>1, Constants DEF Second
<1>3. noObjectsLeft' \in 0..(MaxAge + 1)
  <2>1. noObjectsLeft \in 0..(MaxAge + 1)
    BY DEF Inv, TypeOK
  <2> QED
    BY <2>1, Constants DEF Second
<1>4. nTick' \in 0..(TICK_SECONDS - 1)
  <2>1. nTick \in Nat
    BY Constants DEF Inv, TypeOK
  <2>2. \A n \in Nat : n % TICK_SECONDS \in 0..(TICK_SECONDS - 1)
    BY Constants
  <2> QED
    BY <2>1, <2>2 DEF Second
<1>5. ChainType' /\ TickType' /\ StaticsType'
  BY <1>2, <1>3, <1>4, TypeParts DEF Inv, Second, ChainType, TickType, StaticsType
<1>6. NetType' /\ AskType' /\ DataType' /\ SeenType'
  BY TypeParts DEF Inv, Second, NetType, Connected, AskType, DataType, SeenType, net, data, seen
<1>7. TypeOK'
  BY <1>1, <1>5, <1>6, TypePartsNext
<1>8. Remembered' /\ AskedOnce' /\ ListAskedOf'
  BY <1>1, GoKept DEF Second, net, seen
<1> QED
  BY <1>7, <1>8 DEF Inv

LEMMA TickEndInv == Inv /\ (TickFinished \/ TickFailed \/ LoopEnd) => Inv'
<1> SUFFICES ASSUME Inv, TickFinished \/ TickFailed \/ LoopEnd PROVE Inv'
  OBVIOUS
<1>1. sync' \in Members /\ (sync' = sync \/ sync'.asset = "INITIAL")
  <2>1. sync \in Members /\ (sync' = sync \/ sync' = Reset) /\ Reset.asset = "INITIAL"
    BY TypeParts DEF Inv, TickFinished, TickFailed, LoopEnd, Reset
  <2> QED
    BY <2>1, MembersKept
<1>2. TickType'
  BY TypeParts DEF Inv, TickFinished, TickFailed, LoopEnd, TickType
<1>3. UNCHANGED <<chain, statics, net, data, seen, events>>
  BY DEF TickFinished, TickFailed, LoopEnd
<1>4. ChainType' /\ StaticsType' /\ NetType' /\ AskType' /\ DataType' /\ SeenType'
  BY <1>3, TypeParts DEF Inv, ChainType, StaticsType, NetType, Connected, AskType, DataType,
     SeenType, chain, statics, net, data, seen
<1>5. TypeOK'
  BY <1>1, <1>2, <1>4, TypePartsNext
<1>6. Remembered' /\ AskedOnce' /\ ListAskedOf'
  BY <1>1, <1>3, GoKept DEF chain, net, seen
<1> QED
  BY <1>5, <1>6 DEF Inv

-----------------------------------------------------------------------------
(* The beginning of a tick.                                                *)

LEMMA TickBeginInv ==
    ASSUME Inv, NEW locked \in BOOLEAN, TickBegin(locked)
    PROVE  Inv'
<1> DEFINE s0 == IF sync.asset = "FINISHED" THEN Reset ELSE sync
           r == IsBlockchainSynced(s0, FALSE)
           s1 == r.sync
           ends == ~r.answer /\ s1.asset \notin {"FAILED", "INITIAL", "SPORKS"}
           starts == s1.asset = "INITIAL"
           goesOn == s1.asset = "SPORKS" /\ r.answer
<1>1. s0 \in Members /\ sync \in Members /\ Reset \in Members /\ Reset.asset = "INITIAL"
  BY TypeParts, MembersKept DEF Inv, Reset
<1>2. ChainType /\ DataType /\ AskType /\ TickType /\ NetType /\ StaticsType /\ SeenType
  BY TypeParts DEF Inv
<1>3. /\ s1 \in {s0, Reset}
      /\ r.known \in BOOLEAN /\ r.first \in BOOLEAN
      /\ r.processed \in 0..TICK_SECONDS /\ r.slept \in BOOLEAN /\ r.answer \in BOOLEAN
      /\ ~slept => ~r.slept /\ s1 = s0
      /\ slept /\ ~r.slept => s1 = Reset
  <2> HIDE DEF s0
  <2> QED
    BY <1>1, <1>2, BlockchainAnswer
<1>4. /\ UpdateChain(r)
      /\ ends => /\ sync' = [s1 EXCEPT !.age = 0] /\ pc' = "idle"
                 /\ UNCHANGED <<todo, fulfilled, seen>>
      /\ ~ends => pc' = "loop" /\ todo' = vNodes /\ UNCHANGED twice
      /\ ~ends /\ (starts \/ goesOn) =>
           /\ sync' = SwitchToNextAsset(s1, locked)
           /\ fulfilled' = SwitchFulfilled(s1, locked)
      /\ ~ends /\ starts => asked' = [a \in Asking |-> {}] /\ byHand' = FALSE
      /\ ~ends /\ ~starts => UNCHANGED <<asked, byHand>>
      /\ ~ends /\ ~starts /\ ~goesOn => sync' = s1 /\ UNCHANGED fulfilled
      /\ UNCHANGED <<nTick, statics, vNodes, fDisconnect, nVersion0, weAsked, data, events>>
  BY DEF TickBegin, seen
<1>5. s0 = sync \/ s0 = Reset
  OBVIOUS
<1> HIDE DEF s0, s1, r
<1>6. s1 \in Members /\ (s1.asset # "INITIAL" => s1 = sync)
  BY <1>1, <1>3, <1>5
<1>7. TypeOK'
  <2>1. sync' \in Members
    <3>1. /\ [s1 EXCEPT !.age = 0] \in Members
          /\ SwitchToNextAsset(s1, locked) \in Members
      BY <1>6, MembersKept
    <3> HIDE DEF ends, starts, goesOn
    <3> QED
      BY <1>4, <1>6, <3>1
  <2>2. ChainType'
    BY <1>3, <1>4, Zenon DEF UpdateChain, ChainType
  <2>3. TickType' /\ NetType' /\ StaticsType' /\ DataType'
    BY <1>2, <1>4 DEF TickType, NetType, Connected, StaticsType, DataType, statics, data
  <2>4. AskType'
    BY <1>2, <1>4, <1>6, SwitchMarks DEF AskType, seen
  <2>5. SeenType'
    <3>1. asked' \in [Asking -> SUBSET Peer] /\ twice' \subseteq Asking
      BY <1>2, <1>4 DEF SeenType, seen
    <3>2. byHand' \in BOOLEAN /\ events' \in 0..MaxEvents
      BY <1>2, <1>4, Zenon DEF SeenType, seen
    <3> QED
      BY <3>1, <3>2, Zenon DEF SeenType
  <2> QED
    BY <2>1, <2>2, <2>3, <2>4, <2>5, TypePartsNext
<1>8. slept' = r.slept
  BY <1>4 DEF UpdateChain
<1>9. Remembered' /\ AskedOnce' /\ ListAskedOf'
  <2>1. CASE slept'
    BY <2>1, <1>4, GoKept DEF seen
  <2>2. CASE ~slept' /\ starts /\ ~ends
    <3>1. sync'.asset = "SPORKS"
      BY <2>2, <1>4, <1>6, NextAssets
    <3>2. asked' = [a \in Asking |-> {}] /\ UNCHANGED twice
      BY <2>2, <1>4
    <3> QED
      BY <3>1, <3>2 DEF Inv, Remembered, AskedOnce, ListAskedOf, PastList, Asking
  <2>3. CASE ~slept' /\ ~starts
    <3>1. ~slept /\ s1 = sync
      BY <2>3, <1>1, <1>3, <1>6, <1>8
    <3>2. CASE ~ends /\ goesOn
      <4>1. sync'.asset = "LIST" /\ sync'.attempt = 0
        BY <3>2, <1>4, <1>6, NextAssets
      <4>2. UNCHANGED <<asked, twice>> /\ \A p \in Peer : fulfilled[p] \subseteq fulfilled'[p]
        BY <2>3, <3>2, <1>2, <1>4, <1>6, SwitchMarks DEF seen
      <4>3. \A a \in {"list", "votes"} : asked[a] \subseteq Peer
        BY <1>2 DEF SeenType, Asking
      <4>4. Remembered'
        BY <3>1, <2>3, <4>2, <4>3 DEF Inv, Remembered
      <4> QED
        BY <4>1, <4>2, <4>4 DEF Inv, AskedOnce, ListAskedOf, PastList
    <3>3. CASE ends \/ ~goesOn
      <4>1. sync'.asset = sync.asset /\ sync'.attempt = sync.attempt
        BY <2>3, <3>1, <3>3, <1>1, <1>4 DEF Members
      <4>2. UNCHANGED <<fulfilled, asked, twice, byHand, weAsked, slept>>
        BY <2>3, <3>1, <3>3, <1>2, <1>3, <1>4, <1>8 DEF seen, ChainType
      <4> QED
        BY <4>1, <4>2, GoKept
    <3> QED
      BY <3>2, <3>3
  <2> QED
    BY <2>1, <2>2, <2>3
<1> QED
  BY <1>7, <1>9 DEF Inv

-----------------------------------------------------------------------------
(* The visits of the peers.                                                *)

LEMMA VisitTick ==
    ASSUME Inv, NEW p \in Peer, Visiting(p), Continue \/ Return, UNCHANGED nTick
    PROVE  TickType'
<1>1. TickType
  BY TypeParts DEF Inv
<1>2. todo # <<>> => Tail(todo) \in Seq(Peer)
  BY <1>1 DEF TickType
<1>3. <<>> \in Seq(Peer)
  OBVIOUS
<1>4. todo' \in Seq(Peer) /\ pc' \in {"idle", "tick", "loop"}
  BY <1>2, <1>3 DEF Visiting, Continue, Return
<1> QED
  BY <1>1, <1>4 DEF TickType

\* What a visit leaves alone keeps its type.
LEMMA VisitRest ==
    ASSUME Inv, UNCHANGED <<chain, vNodes, nVersion0, data, events>>
    PROVE  /\ ChainType'
           /\ fDisconnect' \subseteq Connected => NetType'
           /\ nLastVotes' \in 0..votes => DataType'
           /\ asked' \in [Asking -> SUBSET Peer] /\ twice' \subseteq Asking
                 /\ byHand' = byHand => SeenType'
BY TypeParts DEF Inv, ChainType, NetType, Connected, DataType, SeenType, chain, data

LEMMA VisitFirstInv ==
    ASSUME Inv, NEW p \in Peer, VisitFirst(p) \/ VisitIdle(p)
    PROVE  Inv'
<1>1. /\ Visiting(p) /\ Continue
      /\ UNCHANGED <<sync, chain, nTick, statics, vNodes, nVersion0, weAsked, data, seen, events>>
  BY DEF VisitFirst, VisitIdle, Ready, net
<1>2. /\ sync \in Members /\ StaticsType /\ AskType /\ SeenType /\ NetType /\ DataType
  BY TypeParts DEF Inv
<1>3. fDisconnect' \subseteq Connected
  BY <1>2 DEF VisitFirst, VisitIdle, net, NetType
<1>4. /\ fulfilled' \in [Peer -> SUBSET Requests]
      /\ \A q \in Peer : fulfilled[q] \subseteq fulfilled'[q]
  BY <1>2 DEF VisitFirst, VisitIdle, net, AskType, Mark, Requests
<1>5. TypeOK'
  <2>1. TickType'
    BY <1>1, VisitTick
  <2>2. StaticsType' /\ AskType' /\ sync' \in Members
    BY <1>1, <1>2, <1>4 DEF StaticsType, AskType, statics
  <2>3. ChainType' /\ NetType' /\ DataType' /\ SeenType'
    BY <1>1, <1>2, <1>3, VisitRest DEF statics, seen, DataType, SeenType
  <2> QED
    BY <2>1, <2>2, <2>3, TypePartsNext
<1>6. Remembered' /\ AskedOnce' /\ ListAskedOf'
  BY <1>1, <1>4, GoKept DEF chain, seen
<1> QED
  BY <1>5, <1>6 DEF Inv

\* A switch to the next asset from the list, the votes or the objects.
LEMMA SwitchKept ==
    ASSUME Inv, NEW locked \in BOOLEAN, sync.asset \in {"LIST", "MNW", "GOVERNANCE"},
           sync.asset = "LIST" => sync.attempt > 0,
           sync' = SwitchToNextAsset(sync, locked),
           UNCHANGED <<slept, asked, twice, byHand, weAsked>>,
           \A p \in Peer : fulfilled[p] \subseteq fulfilled'[p]
    PROVE  Remembered' /\ AskedOnce' /\ ListAskedOf'
<1>1. AskedOnce'
  BY DEF Inv, AskedOnce
<1>2. \A a \in {"list", "votes"} : asked[a] \subseteq Peer
  BY DEF Inv, TypeOK, Asking
<1>3. Remembered'
  BY <1>2 DEF Inv, Remembered
<1>4. ListAskedOf'
  BY DEF Inv, ListAskedOf, PastList
<1> QED
  BY <1>1, <1>3, <1>4

LEMMA VisitTimeoutInv ==
    ASSUME Inv, NEW p \in Peer, NEW locked \in BOOLEAN, VisitTimeout(p, locked)
    PROVE  Inv'
<1>1. /\ Visiting(p) /\ Return
      /\ UNCHANGED <<chain, nTick, statics, vNodes, fDisconnect, nVersion0, weAsked, data, seen, events>>
      /\ sync.asset \in {"LIST", "MNW", "GOVERNANCE"}
  BY DEF VisitTimeout, Ready, Overdue
<1>2. /\ sync \in Members /\ StaticsType /\ AskType /\ SeenType /\ NetType /\ DataType
  BY TypeParts DEF Inv
<1>3. sync' \in Members
  BY <1>2, MembersKept DEF VisitTimeout
<1>4. /\ fulfilled' \in [Peer -> SUBSET Requests]
      /\ \A q \in Peer : fulfilled[q] \subseteq fulfilled'[q]
  BY <1>1, <1>2, SwitchMarks DEF VisitTimeout, AskType
<1>5. TypeOK'
  <2>1. TickType'
    BY <1>1, VisitTick
  <2>2. StaticsType' /\ AskType'
    BY <1>1, <1>2, <1>4 DEF StaticsType, AskType, statics
  <2>3. ChainType' /\ NetType' /\ DataType' /\ SeenType'
    BY <1>1, <1>2, VisitRest DEF statics, seen, DataType, SeenType, NetType
  <2> QED
    BY <1>3, <2>1, <2>2, <2>3, TypePartsNext
<1>6. Remembered' /\ AskedOnce' /\ ListAskedOf'
  <2>1. CASE NobodyAsked(sync)
    <3>1. sync'.asset = "FAILED" /\ fulfilled' = fulfilled
      BY <1>2, <2>1 DEF VisitTimeout, Fail, Members
    <3> QED
      BY <1>1, <3>1 DEF Inv, Remembered, AskedOnce, ListAskedOf, PastList, chain, seen
  <2>2. CASE ~NobodyAsked(sync)
    <3>1. sync' = SwitchToNextAsset(sync, locked) /\ (sync.asset = "LIST" => sync.attempt > 0)
      BY <1>2, <2>2, Constants DEF VisitTimeout, NobodyAsked, Members
    <3> QED
      BY <1>1, <1>4, <3>1, SwitchKept DEF chain, seen
  <2> QED
    BY <2>1, <2>2
<1> QED
  BY <1>5, <1>6 DEF Inv

LEMMA VisitEnoughVotesInv ==
    ASSUME Inv, NEW p \in Peer, VisitEnoughVotes(p)
    PROVE  Inv'
<1>1. /\ Visiting(p) /\ Return
      /\ UNCHANGED <<chain, nTick, statics, net, data, seen, events>>
      /\ sync.asset = "MNW" /\ sync' = SwitchToNextAsset(sync, TRUE)
  BY DEF VisitEnoughVotes, Ready
<1>2. /\ sync \in Members /\ StaticsType /\ AskType /\ SeenType /\ NetType /\ DataType
  BY TypeParts DEF Inv
<1>3. TypeOK'
  <2>1. TickType' /\ sync' \in Members
    BY <1>1, <1>2, VisitTick, MembersKept
  <2>2. StaticsType' /\ AskType'
    BY <1>1, <1>2 DEF StaticsType, AskType, statics, net
  <2>3. ChainType' /\ NetType' /\ DataType' /\ SeenType'
    BY <1>1, <1>2, VisitRest DEF statics, seen, net, DataType, SeenType, NetType
  <2> QED
    BY <2>1, <2>2, <2>3, TypePartsNext
<1>4. Remembered' /\ AskedOnce' /\ ListAskedOf'
  <2>1. \A q \in Peer : fulfilled[q] \subseteq fulfilled'[q]
    BY <1>1 DEF net
  <2> QED
    BY <1>1, <2>1, SwitchKept DEF chain, net, seen
<1> QED
  BY <1>3, <1>4 DEF Inv

\* A request to p: the members, the entry of netfulfilledman and what the
\* observer sees of it.
LEMMA Asked ==
    ASSUME Inv, NEW p \in Peer, NEW what \in Asking,
           what \notin fulfilled[p] \/ what = "governance",
           sync.asset \in {"LIST", "MNW", "GOVERNANCE"},
           sync' = MoreAttempts, Mark(p, what), Record(p, what), UNCHANGED slept,
           \/ what = "list" /\ sync.asset = "LIST" /\ weAsked' = weAsked \cup {p}
           \/ what # "list" /\ sync.asset # "LIST" /\ UNCHANGED weAsked
    PROVE  /\ sync' \in Members /\ AskType'
           /\ asked' \in [Asking -> SUBSET Peer] /\ twice' \subseteq Asking /\ byHand' = byHand
           /\ Remembered' /\ AskedOnce' /\ ListAskedOf'
<1>1. sync \in Members /\ AskType /\ SeenType
  BY TypeParts DEF Inv
<1>2. sync' \in Members /\ sync'.asset = sync.asset
  BY <1>1, MembersKept DEF MoreAttempts, Members
<1>3. /\ fulfilled' \in [Peer -> SUBSET Requests] /\ weAsked' \subseteq Peer
      /\ what \in fulfilled'[p]
      /\ \A q \in Peer : fulfilled[q] \subseteq fulfilled'[q]
  BY <1>1 DEF AskType, Mark, Asking, Requests
<1>4. /\ asked' \in [Asking -> SUBSET Peer] /\ twice' \subseteq Asking /\ byHand' = byHand
      /\ p \in asked'[what]
      /\ \A a \in Asking : asked[a] \subseteq asked'[a] /\ \A q \in asked'[a] :
            q \in asked[a] \/ (a = what /\ q = p)
  BY <1>1 DEF SeenType, Record
<1>5. Remembered'
  <2> SUFFICES ASSUME ~slept, NEW a \in {"list", "votes"}, NEW q \in asked'[a]
               PROVE  a \in fulfilled'[q]
    BY DEF Remembered
  <2>1. a \in Asking /\ q \in Peer
    BY <1>4 DEF Asking
  <2>2. CASE a = what /\ q = p
    BY <2>2, <1>3
  <2>3. CASE q \in asked[a]
    BY <2>1, <2>3, <1>3 DEF Inv, Remembered
  <2> QED
    BY <2>1, <2>2, <2>3, <1>4
<1>6. AskedOnce'
  <2>1. what \in {"list", "votes"} /\ p \in asked[what] => slept
    BY DEF Inv, Remembered
  <2> QED
    BY <2>1 DEF Inv, AskedOnce, Record
<1>7. ListAskedOf'
  <2>1. CASE what = "list"
    <3>1. p \in asked'["list"] \cap weAsked'
      BY <1>4, <2>1
    <3> QED
      BY <3>1 DEF ListAskedOf
  <2>2. CASE what # "list"
    <3>1. asked["list"] \subseteq asked'["list"] /\ UNCHANGED weAsked
      BY <1>4, <2>2 DEF Asking
    <3>2. PastList
      BY <2>2 DEF PastList
    <3> QED
      BY <1>4, <3>1, <3>2 DEF Inv, ListAskedOf
  <2> QED
    BY <2>1, <2>2
<1> QED
  BY <1>2, <1>3, <1>4, <1>5, <1>6, <1>7 DEF AskType

\* A peer that is only marked, or left alone.
LEMMA NotAsked ==
    ASSUME Inv, NEW p \in Peer, NEW what \in Asking,
           Mark(p, what) \/ UNCHANGED fulfilled,
           UNCHANGED <<sync, slept, weAsked, seen>>
    PROVE  /\ sync' \in Members /\ AskType'
           /\ asked' \in [Asking -> SUBSET Peer] /\ twice' \subseteq Asking /\ byHand' = byHand
           /\ Remembered' /\ AskedOnce' /\ ListAskedOf'
<1>1. sync \in Members /\ AskType /\ SeenType
  BY TypeParts DEF Inv
<1>2. /\ fulfilled' \in [Peer -> SUBSET Requests]
      /\ \A q \in Peer : fulfilled[q] \subseteq fulfilled'[q]
  BY <1>1 DEF AskType, Mark, Asking, Requests
<1>3. Remembered' /\ AskedOnce' /\ ListAskedOf'
  BY <1>2, GoKept DEF seen
<1> QED
  BY <1>1, <1>2, <1>3 DEF AskType, SeenType, seen

LEMMA VisitListInv ==
    ASSUME Inv, NEW p \in Peer, NEW spork10 \in BOOLEAN, VisitList(p, spork10)
    PROVE  Inv'
<1>1. /\ Visiting(p) /\ (Continue \/ Return) /\ sync.asset = "LIST"
      /\ UNCHANGED <<chain, nTick, statics, vNodes, fDisconnect, nVersion0, data, events>>
  BY DEF VisitList, Ready
<1>2. "list" \in Asking
  BY DEF Asking
<1>3. /\ sync' \in Members /\ AskType'
      /\ asked' \in [Asking -> SUBSET Peer] /\ twice' \subseteq Asking /\ byHand' = byHand
      /\ Remembered' /\ AskedOnce' /\ ListAskedOf'
  <2>1. CASE UNCHANGED <<sync, weAsked, seen>> /\ (Mark(p, "list") \/ UNCHANGED fulfilled)
    BY <1>1, <1>2, <2>1, NotAsked DEF chain
  <2>2. CASE /\ "list" \notin fulfilled[p] /\ Mark(p, "list") /\ sync' = MoreAttempts
             /\ weAsked' = weAsked \cup {p} /\ Record(p, "list")
    BY <1>1, <1>2, <2>2, Asked DEF chain
  <2> QED
    BY <2>1, <2>2 DEF VisitList
<1>4. StaticsType /\ NetType /\ DataType
  BY TypeParts DEF Inv
<1>5. TickType' /\ ChainType' /\ NetType' /\ DataType' /\ SeenType' /\ StaticsType'
  BY <1>1, <1>3, <1>4, VisitTick, VisitRest DEF statics, DataType, NetType, StaticsType
<1> QED
  BY <1>3, <1>5, TypePartsNext DEF Inv

LEMMA VisitVotesInv ==
    ASSUME Inv, NEW p \in Peer, NEW spork10 \in BOOLEAN, VisitVotes(p, spork10)
    PROVE  Inv'
<1>1. /\ Visiting(p) /\ (Continue \/ Return) /\ sync.asset = "MNW"
      /\ UNCHANGED <<chain, nTick, statics, vNodes, fDisconnect, nVersion0, weAsked, data, events>>
  BY DEF VisitVotes, Ready
<1>2. "votes" \in Asking
  BY DEF Asking
<1>3. /\ sync' \in Members /\ AskType'
      /\ asked' \in [Asking -> SUBSET Peer] /\ twice' \subseteq Asking /\ byHand' = byHand
      /\ Remembered' /\ AskedOnce' /\ ListAskedOf'
  <2>1. CASE UNCHANGED <<sync, seen>> /\ (Mark(p, "votes") \/ UNCHANGED fulfilled)
    BY <1>1, <1>2, <2>1, NotAsked DEF chain
  <2>2. CASE /\ "votes" \notin fulfilled[p] /\ Mark(p, "votes") /\ sync' = MoreAttempts
             /\ Record(p, "votes")
    BY <1>1, <1>2, <2>2, Asked DEF chain
  <2> QED
    BY <2>1, <2>2 DEF VisitVotes
<1>4. StaticsType /\ NetType /\ DataType
  BY TypeParts DEF Inv
<1>5. TickType' /\ ChainType' /\ NetType' /\ DataType' /\ SeenType' /\ StaticsType'
  BY <1>1, <1>3, <1>4, VisitTick, VisitRest DEF statics, DataType, NetType, StaticsType
<1> QED
  BY <1>3, <1>5, TypePartsNext DEF Inv

LEMMA VisitGovernanceInv ==
    ASSUME Inv, NEW p \in Peer, NEW left \in {0, 1}, VisitGovernance(p, left)
    PROVE  Inv'
<1>1. /\ Visiting(p) /\ (Continue \/ Return) /\ sync.asset = "GOVERNANCE"
      /\ UNCHANGED <<chain, nTick, vNodes, fDisconnect, nVersion0, weAsked, data, events>>
  BY DEF VisitGovernance, Ready
<1>2. "governance" \in Asking
  BY DEF Asking
<1>3. /\ sync' \in Members /\ AskType'
      /\ asked' \in [Asking -> SUBSET Peer] /\ twice' \subseteq Asking /\ byHand' = byHand
      /\ Remembered' /\ AskedOnce' /\ ListAskedOf'
  <2>1. CASE UNCHANGED <<sync, seen>> /\ (Mark(p, "governance") \/ UNCHANGED fulfilled)
    BY <1>1, <1>2, <2>1, NotAsked DEF chain
  <2>2. CASE Mark(p, "governance") /\ sync' = MoreAttempts /\ Record(p, "governance")
    BY <1>1, <1>2, <2>2, Asked DEF chain
  <2> QED
    BY <2>1, <2>2 DEF VisitGovernance
<1>4. StaticsType /\ NetType /\ DataType
  BY TypeParts DEF Inv
<1>5. StaticsType' /\ nLastVotes' \in 0..votes
  <2>1. noObjectsLeft' \in {noObjectsLeft, 1} /\ 1 \in 0..(MaxAge + 1)
    BY Constants DEF VisitGovernance
  <2>2. checkedThisTick' = checkedThisTick \/ checkedThisTick' = TRUE
    BY DEF VisitGovernance
  <2>3. nLastVotes' \in {nLastVotes, votes} /\ votes \in 0..votes
    BY <1>4 DEF VisitGovernance, DataType
  <2>4. checkedThisTick' \in BOOLEAN
    BY <1>4, <2>2, Zenon DEF StaticsType
  <2> QED
    BY <1>4, <2>1, <2>3, <2>4 DEF StaticsType, DataType
<1>6. TickType' /\ ChainType' /\ NetType' /\ DataType' /\ SeenType'
  BY <1>1, <1>3, <1>4, <1>5, VisitTick, VisitRest DEF NetType
<1> QED
  BY <1>3, <1>5, <1>6, TypePartsNext DEF Inv

LEMMA VisitGovernanceDoneInv ==
    ASSUME Inv, NEW p \in Peer, NEW left \in {0, 1}, NEW locked \in BOOLEAN,
           VisitGovernanceDone(p, left, locked)
    PROVE  Inv'
<1>1. /\ Visiting(p) /\ Return /\ sync.asset = "GOVERNANCE"
      /\ sync' = SwitchToNextAsset(sync, locked) /\ fulfilled' = SwitchFulfilled(sync, locked)
      /\ noObjectsLeft' = 0
      /\ UNCHANGED <<chain, nTick, checkedThisTick, nLastVotes, vNodes, fDisconnect, nVersion0,
                     weAsked, data, seen, events>>
  BY DEF VisitGovernanceDone, Ready
<1>2. sync \in Members /\ StaticsType /\ AskType /\ SeenType /\ NetType /\ DataType
  BY TypeParts DEF Inv
<1>3. /\ fulfilled' \in [Peer -> SUBSET Requests]
      /\ \A q \in Peer : fulfilled[q] \subseteq fulfilled'[q]
  BY <1>1, <1>2, SwitchMarks
<1>4. TypeOK'
  <2>1. TickType' /\ sync' \in Members
    BY <1>1, <1>2, VisitTick, MembersKept
  <2>2. StaticsType' /\ AskType'
    BY <1>1, <1>2, <1>3, Constants DEF StaticsType, AskType
  <2>3. ChainType' /\ NetType' /\ DataType' /\ SeenType'
    BY <1>1, <1>2, VisitRest DEF seen, DataType, SeenType, NetType
  <2> QED
    BY <2>1, <2>2, <2>3, TypePartsNext
<1>5. Remembered' /\ AskedOnce' /\ ListAskedOf'
  BY <1>1, <1>3, SwitchKept DEF chain, seen
<1> QED
  BY <1>4, <1>5 DEF Inv

LEMMA TickerInv == Inv /\ Ticker => Inv'
BY SecondInv, TickEndInv, TickBeginInv, VisitFirstInv, VisitEnoughVotesInv, VisitListInv,
   VisitVotesInv, VisitTimeoutInv, VisitGovernanceInv, VisitGovernanceDoneInv DEF Ticker

-----------------------------------------------------------------------------
(* The other threads.                                                      *)

LEMMA EventType == Inv /\ Event => events' \in 0..MaxEvents
BY Constants DEF Inv, TypeOK, Event

\* Items that arrive, masternodes that are lost, the import that ends.
LEMMA NewsInv ==
    ASSUME Inv, \/ AddedMasternodeList \/ AddedPaymentVote \/ AddedGovernanceItem
                \/ LostMasternodes \/ ImportEnds
    PROVE  Inv'
<1>1. /\ UNCHANGED <<chain, ticker, statics, net, seen>>
      /\ sync' \in {sync, [sync EXCEPT !.age = 0]}
      /\ Event \/ UNCHANGED events
  BY DEF AddedMasternodeList, AddedPaymentVote, AddedGovernanceItem, LostMasternodes, ImportEnds,
         Fresh
<1>2. /\ sync \in Members /\ ChainType /\ TickType /\ StaticsType
      /\ NetType /\ AskType /\ DataType /\ SeenType
  BY TypeParts DEF Inv
<1>3. sync' \in Members /\ sync'.asset = sync.asset /\ sync'.attempt = sync.attempt
  BY <1>1, <1>2, MembersKept DEF Members
<1>4. ChainType' /\ TickType' /\ StaticsType' /\ NetType' /\ AskType'
  BY <1>1, <1>2 DEF ChainType, TickType, StaticsType, NetType, Connected, AskType,
                    chain, ticker, statics, net
<1>5. SeenType'
  BY <1>1, <1>2, EventType DEF SeenType, seen
<1>6. votes' \in Nat /\ nLastVotes' \in 0..votes'
  <2>1. votes' \in {votes, votes + 0, votes + FEW_VOTES}
    BY DEF AddedMasternodeList, AddedPaymentVote, AddedGovernanceItem, LostMasternodes,
           ImportEnds, data
  <2>2. votes \in Nat /\ nLastVotes \in 0..votes /\ nLastVotes' = nLastVotes
    BY <1>1, <1>2 DEF DataType, statics
  <2> QED
    BY <2>1, <2>2, Constants
<1>7. DataType'
  <2>1. /\ haveList' = haveList \/ haveList' = TRUE \/ haveList' = FALSE
        /\ importing' = importing \/ importing' = FALSE
        /\ peersAgree' = peersAgree /\ tipRecent' = tipRecent
    BY DEF AddedMasternodeList, AddedPaymentVote, AddedGovernanceItem, LostMasternodes,
           ImportEnds, data
  <2> QED
    BY <1>2, <1>6, <2>1, Zenon DEF DataType
<1>8. Remembered' /\ AskedOnce' /\ ListAskedOf'
  BY <1>1, <1>3, GoKept DEF chain, net, seen
<1> QED
  BY <1>3, <1>4, <1>5, <1>7, <1>8, TypePartsNext DEF Inv

LEMMA AskedIfSyncedInv ==
    ASSUME Inv, BlockAccepted \/ AskedIfSynced
    PROVE  Inv'
<1>1. PICK accepted \in BOOLEAN :
         /\ sync' = IsBlockchainSynced(sync, accepted).sync
         /\ UpdateChain(IsBlockchainSynced(sync, accepted))
  BY DEF BlockAccepted, AskedIfSynced
<1>2. /\ sync \in Members /\ ChainType /\ TickType /\ StaticsType
      /\ NetType /\ AskType /\ DataType /\ SeenType
  BY TypeParts DEF Inv
<1>3. /\ UNCHANGED <<ticker, statics, net, seen, haveList, votes, importing>> /\ Event
      /\ peersAgree' \in {peersAgree} \cup BOOLEAN /\ tipRecent' \in {tipRecent} \cup BOOLEAN
  BY DEF BlockAccepted, AskedIfSynced, data
<1> DEFINE r == IsBlockchainSynced(sync, accepted)
<1>4. /\ r.sync \in {sync, Reset}
      /\ r.known \in BOOLEAN /\ r.first \in BOOLEAN
      /\ r.processed \in 0..TICK_SECONDS /\ r.slept \in BOOLEAN
      /\ ~slept => ~r.slept /\ r.sync = sync
      /\ slept /\ ~r.slept => r.sync = Reset
  BY <1>2, BlockchainAnswer
<1>5. sync' = r.sync /\ slept' = r.slept
  BY <1>1 DEF UpdateChain
<1>6. ChainType'
  BY <1>1, <1>4, Zenon DEF ChainType, UpdateChain
<1> HIDE DEF r
<1>7. sync' \in Members
  BY <1>2, <1>4, <1>5, MembersKept
<1>8. TickType' /\ StaticsType' /\ NetType' /\ AskType' /\ SeenType'
  BY <1>2, <1>3, EventType DEF TickType, StaticsType, NetType, Connected, AskType, SeenType,
                               ticker, statics, net, seen
<1>9. DataType'
  <2>1. peersAgree' \in BOOLEAN /\ tipRecent' \in BOOLEAN
    BY <1>2, <1>3, Zenon DEF DataType
  <2> QED
    BY <1>2, <1>3, <2>1 DEF DataType, statics
<1>10. Remembered' /\ AskedOnce' /\ ListAskedOf'
  <2>1. CASE slept' \/ sync' = Reset
    <3>1. slept' \/ sync'.asset = "INITIAL"
      BY <2>1 DEF Reset
    <3> QED
      BY <1>3, <3>1, GoKept DEF seen
  <2>2. CASE ~slept' /\ sync' # Reset
    <3>1. ~slept /\ UNCHANGED <<sync, slept>>
      BY <1>2, <1>4, <1>5, <2>2 DEF ChainType
    <3> QED
      BY <1>3, <3>1, GoKept DEF net, seen
  <2> QED
    BY <2>1, <2>2
<1> QED
  BY <1>6, <1>7, <1>8, <1>9, <1>10, TypePartsNext DEF Inv

LEMMA MnsyncNextInv ==
    ASSUME Inv, NEW locked \in BOOLEAN, MnsyncNext(locked)
    PROVE  Inv'
<1>1. /\ Event /\ sync' = SwitchToNextAsset(sync, locked)
      /\ fulfilled' = SwitchFulfilled(sync, locked) /\ byHand' = TRUE
      /\ asked' = IF sync.asset = "INITIAL" THEN [a \in Asking |-> {}] ELSE asked
      /\ UNCHANGED <<chain, ticker, statics, vNodes, fDisconnect, nVersion0, weAsked, data, twice>>
  BY DEF MnsyncNext
<1>2. /\ sync \in Members /\ ChainType /\ TickType /\ StaticsType
      /\ NetType /\ AskType /\ DataType /\ SeenType
  BY TypeParts DEF Inv
<1>3. sync' \in Members
  BY <1>1, <1>2, MembersKept
<1>4. /\ fulfilled' \in [Peer -> SUBSET Requests]
      /\ sync.asset # "INITIAL" => \A q \in Peer : fulfilled[q] \subseteq fulfilled'[q]
  BY <1>1, <1>2, SwitchMarks
<1>5. asked' \in [Asking -> SUBSET Peer]
  BY <1>1, <1>2 DEF SeenType
<1>6. /\ ChainType' /\ TickType' /\ StaticsType' /\ NetType' /\ AskType' /\ DataType'
  BY <1>1, <1>2, <1>4 DEF ChainType, TickType, StaticsType, NetType, Connected, AskType, DataType,
                          chain, ticker, statics, data
<1>7. SeenType'
  <2>1. events' \in 0..MaxEvents /\ twice' \subseteq Asking
    BY <1>1, <1>2, EventType DEF SeenType
  <2> QED
    BY <1>1, <1>5, <2>1, Zenon DEF SeenType
<1>8. AskedOnce' /\ ListAskedOf'
  BY <1>1 DEF Inv, AskedOnce, ListAskedOf
<1>9. Remembered'
  <2>1. CASE sync.asset = "INITIAL"
    BY <1>1, <2>1 DEF Remembered, Asking
  <2>2. CASE sync.asset # "INITIAL"
    <3>1. \A a \in {"list", "votes"} : asked[a] \subseteq Peer
      BY <1>2 DEF SeenType, Asking
    <3> QED
      BY <1>1, <1>4, <2>2, <3>1 DEF Inv, Remembered, chain
  <2> QED
    BY <2>1, <2>2
<1> QED
  BY <1>3, <1>6, <1>7, <1>8, <1>9, TypePartsNext DEF Inv

LEMMA ResetOrSleepInv ==
    ASSUME Inv, MnsyncReset \/ Sleep \/ Restart
    PROVE  Inv'
<1>1. /\ sync \in Members /\ ChainType /\ TickType /\ StaticsType
      /\ NetType /\ AskType /\ DataType /\ SeenType
  BY TypeParts DEF Inv
<1>2. Reset \in Members /\ Reset.asset = "INITIAL"
  BY <1>1, MembersKept DEF Reset
<1>3. Event /\ UNCHANGED seen /\ (slept' \/ sync' = Reset)
  BY DEF MnsyncReset, Sleep, Restart
<1>4. Remembered' /\ AskedOnce' /\ ListAskedOf'
  BY <1>2, <1>3, GoKept DEF seen
<1>5. SeenType'
  BY <1>1, <1>3, EventType DEF SeenType, seen
<1>6. sync' \in Members
  BY <1>1, <1>2, MembersKept DEF MnsyncReset, Sleep, Restart
<1>7. CASE MnsyncReset
  <2>1. ChainType' /\ TickType' /\ StaticsType' /\ NetType' /\ AskType' /\ DataType'
    BY <1>1, <1>7 DEF MnsyncReset, ChainType, TickType, StaticsType, NetType, Connected, AskType,
                      DataType, chain, ticker, statics, net, data
  <2> QED
    BY <1>4, <1>5, <1>6, <2>1, TypePartsNext DEF Inv
<1>8. CASE Sleep
  <2>1. ChainType'
    <3>1. TICK_SECONDS \in 0..TICK_SECONDS
      BY Constants
    <3>2. /\ fBlockchainSynced' = fBlockchainSynced /\ fFirstBlockAccepted' = fFirstBlockAccepted
          /\ processed' = TICK_SECONDS /\ slept' = TRUE
      BY <1>8 DEF Sleep
    <3> QED
      BY <1>1, <3>1, <3>2, Zenon DEF ChainType
  <2>2. StaticsType'
    BY <1>1, <1>8, Constants DEF Sleep, StaticsType
  <2>3. TickType' /\ NetType' /\ AskType' /\ DataType'
    BY <1>1, <1>8 DEF Sleep, TickType, NetType, Connected, AskType, DataType, ticker, data
  <2> QED
    BY <1>4, <1>5, <1>6, <2>1, <2>2, <2>3, TypePartsNext DEF Inv
<1>9. CASE Restart
  <2>1. 0 \in 0..TICK_SECONDS /\ 0 \in 0..(TICK_SECONDS - 1) /\ 0 \in 0..(MaxAge + 1)
    BY Constants
  <2>2. ChainType'
    BY <1>9, <2>1, Zenon DEF Restart, ChainType
  <2>3. StaticsType'
    BY <1>9, <2>1, Zenon DEF Restart, StaticsType
  <2>4. <<>> \in Seq(Peer)
    OBVIOUS
  <2>5. TickType'
    BY <1>9, <2>1, <2>4, Zenon DEF Restart, TickType
  <2>6. NetType' /\ AskType'
    BY <1>1, <1>9, <2>4 DEF Restart, NetType, Connected, AskType
  <2>7. DataType'
    <3>1. votes' \in Nat /\ nLastVotes' \in 0..votes'
      BY <1>1, <1>9 DEF Restart, DataType
    <3> QED
      BY <1>1, <1>9, <3>1, Zenon DEF Restart, DataType
  <2> QED
    BY <1>4, <1>5, <1>6, <2>2, <2>3, <2>5, <2>6, <2>7, TypePartsNext DEF Inv
<1> QED
  BY <1>7, <1>8, <1>9

\* Only the element that is dropped goes away.
LEMMA Dropped ==
    ASSUME NEW v \in Seq(Peer), NEW i \in DOMAIN v
    PROVE  /\ Without(v, i) \in Seq(Peer)
           /\ \A k \in DOMAIN v \ {i} : \E j \in DOMAIN Without(v, i) : Without(v, i)[j] = v[k]
<1> DEFINE n == Len(v)
           w == Without(v, i)
<1>1. n \in Nat /\ DOMAIN v = 1..n /\ i \in 1..n /\ n - 1 \in Nat
  OBVIOUS
<1> HIDE DEF n
<1>2. /\ DOMAIN w = 1..(n - 1)
      /\ \A j \in 1..(n - 1) : w[j] = v[IF j < i THEN j ELSE j + 1]
  BY DEF Without, n
<1> HIDE DEF w
<1>3. \A j \in 1..(n - 1) : w[j] \in Peer
  <2>1. \A j \in 1..(n - 1) : (IF j < i THEN j ELSE j + 1) \in DOMAIN v
    BY <1>1
  <2> QED
    BY <1>2, <2>1
<1>4. w \in Seq(Peer)
  <2>1. w = [j \in 1..(n - 1) |-> v[IF j < i THEN j ELSE j + 1]]
    BY DEF w, Without, n
  <2>2. w \in [1..(n - 1) -> Peer]
    BY <1>2, <1>3, <2>1
  <2> QED
    BY <1>1, <2>2, SeqDef
<1>5. ASSUME NEW k \in DOMAIN v \ {i}
      PROVE  \E j \in DOMAIN w : w[j] = v[k]
  <2>1. CASE k < i
    <3>1. k \in 1..(n - 1) /\ w[k] = v[k]
      BY <1>1, <1>2, <2>1
    <3> QED
      BY <1>2, <3>1
  <2>2. CASE k > i
    <3>1. k - 1 \in 1..(n - 1) /\ ~(k - 1 < i) /\ (k - 1) + 1 = k
      BY <1>1, <2>2
    <3>2. w[k - 1] = v[k]
      BY <1>2, <3>1
    <3> QED
      BY <1>2, <3>1, <3>2
  <2> QED
    BY <1>1, <2>1, <2>2
<1> QED
  BY <1>4, <1>5 DEF w

LEMMA PeersInv ==
    ASSUME Inv, NEW p \in Peer, Connect(p) \/ Version(p) \/ Disconnect(p)
    PROVE  Inv'
<1>1. /\ sync \in Members /\ ChainType /\ TickType /\ StaticsType
      /\ NetType /\ AskType /\ DataType /\ SeenType
  BY TypeParts DEF Inv
<1>2. /\ UNCHANGED <<sync, chain, ticker, statics, fulfilled, weAsked, data, seen>>
      /\ Event \/ UNCHANGED events
  BY DEF Connect, Version, Disconnect
<1>3. NetType'
  <2>1. CASE Connect(p)
    <3>1. vNodes' = Append(vNodes, p) /\ vNodes \in Seq(Peer)
      BY <1>1, <2>1 DEF Connect, NetType
    <3>2. Connected' = Connected \cup {p}
      BY <3>1 DEF Connected
    <3> QED
      BY <1>1, <2>1, <3>1, <3>2 DEF Connect, NetType
  <2>2. CASE Version(p)
    BY <1>1, <2>2 DEF Version, NetType, Connected
  <2>3. CASE Disconnect(p)
    <3>1. PICK i \in DOMAIN vNodes : vNodes[i] = p /\ vNodes' = Without(vNodes, i)
      BY <2>3 DEF Disconnect
    <3>2. /\ vNodes' \in Seq(Peer)
          /\ \A k \in DOMAIN vNodes \ {i} : \E j \in DOMAIN vNodes' : vNodes'[j] = vNodes[k]
      BY <1>1, <3>1, Dropped DEF NetType
    <3>3. Connected \ {p} \subseteq Connected'
      BY <3>1, <3>2 DEF Connected
    <3> QED
      BY <1>1, <2>3, <3>2, <3>3 DEF Disconnect, NetType
  <2> QED
    BY <2>1, <2>2, <2>3
<1>4. ChainType' /\ TickType' /\ StaticsType' /\ AskType' /\ DataType' /\ SeenType'
  BY <1>1, <1>2, EventType DEF ChainType, TickType, StaticsType, AskType, DataType, SeenType,
                               chain, ticker, statics, data, seen
<1>5. Remembered' /\ AskedOnce' /\ ListAskedOf'
  BY <1>2, GoKept DEF chain, seen
<1> QED
  BY <1>1, <1>2, <1>3, <1>4, <1>5, TypePartsNext DEF Inv

LEMMA SurroundingsInv == Inv /\ Surroundings => Inv'
BY NewsInv, AskedIfSyncedInv, MnsyncNextInv, ResetOrSleepInv, PeersInv DEF Surroundings

-----------------------------------------------------------------------------
(* The theorems.                                                           *)

LEMMA StutterInv == Inv /\ UNCHANGED vars => Inv'
BY DEF Inv, TypeOK, Remembered, AskedOnce, ListAskedOf, PastList, Connected, vars, chain, ticker,
       statics, net, data, seen

\* What was asked, of whom and who remembers it, in every state of a go,
\* whatever peers, messages, commands and sleep come between ProcessTick's steps.
THEOREM InvHolds == Spec => []Inv
<1>1. Inv /\ [Next]_vars => Inv'
  BY TickerInv, SurroundingsInv, StutterInv DEF Next
<1> QED
  BY InitInv, <1>1, PTL DEF Spec

\* The members, statics, records of requests and observations keep their types
\* for any peers and any bounds.
THEOREM TypeCorrect == Spec => []TypeOK
<1>1. Inv => TypeOK
  BY DEF Inv
<1> QED
  BY InvHolds, <1>1, PTL

\* In ProcessTick no peer is asked for the list or for payment votes twice in
\* one go: every request is matched by an entry of netfulfilledman until the
\* go is started over.
THEOREM NobodyAskedTwice == Spec => []AskedOnce
<1>1. Inv => AskedOnce
  BY DEF Inv
<1> QED
  BY InvHolds, <1>1, PTL

\* ProcessTick passes the list only with a request for it on record: the
\* attempts count requests, a timeout without an attempt fails, and a reset or
\* a sleep begins at the list again.
THEOREM ListAlwaysRequested == Spec => []ListRequested
<1>1. Inv => ListRequested
  BY DEF Inv, ListAskedOf, PastList, ListRequested
<1> QED
  BY InvHolds, <1>1, PTL
=============================================================================
