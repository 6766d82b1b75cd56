------------------------------ MODULE PrivateSend ------------------------------
(* A mixing session of privatesend.cpp: CPrivatesendPool on one masternode     *)
(* and on the clients that mix through it, with the connections between        *)
(* them, the timeouts of CheckTimeout and the locks on the clients' coins.     *)
(*                                                                             *)
(* All mix one denomination, each client one coin at a time.  The masternode's *)
(* thread is not kept out of the pool while PSVIN waits for cs_main, nor the   *)
(* user's commands while SubmitDenominate waits for the wallet: these two      *)
(* handlers are split there.  A client's thread finds cs_privatesend taken     *)
(* during SubmitDenominate and leaves the pool alone.                          *)
EXTENDS Naturals, Sequences, SequencesExt, FiniteSets

CONSTANTS
    Client,
    PoolMax,            \* GetMaxPoolTransactions()
    QUEUE_TIMEOUT, SIGNING_TIMEOUT,
    LAG,                \* the seconds a client waits longer than the masternode
    RESET,              \* the seconds a client shows an error
    Key,                \* the keys of new outputs, with their order in a transaction
    Session,            \* the session numbers the masternode draws from
    nPrivateSendRounds, \* how often a coin is mixed
    Slow,               \* the clients a message may take more than a second to reach
    Active,             \* the clients whose users and connections act
    MaxEvents           \* bound: commands, disconnections and payments of users

ASSUME PoolAssumption ==
    /\ PoolMax \in Nat \ {0} /\ Key \subseteq Nat \ {0} /\ Session \subseteq Nat \ {0}
    /\ {QUEUE_TIMEOUT, SIGNING_TIMEOUT, LAG, RESET, nPrivateSendRounds, MaxEvents} \subseteq Nat
    /\ IsFiniteSet(Client) /\ Active \subseteq Client /\ Slow \subseteq Client

VARIABLES
    mn,         \* the masternode: what SetNull clears, and the time since the last step
    adding,     \* the entry whose PSVIN is being handled, or NoEntry
    client,     \* each client: what SetNull clears, and the time since the last step
    preparing,  \* each client's entry between PrepareDenominate and SendDenominate
    wallet,     \* each client's coin, whether LockCoin holds it, vecOutPointLocked, collateral
    enabled,    \* fEnablePrivateSend
    connected, toMn, toClient,      \* connections and the messages under way
    due,        \* threads that have not run this second
    committed,  \* history: the entries of the transaction committed this second
    reset,      \* history: the clients whose user gave the command reset
    dismissed,  \* history: the clients that gave up an entry of the masternode's after
                \* signing, told of a rejection
    events

vars == <<mn, adding, client, preparing, wallet, enabled, connected, toMn, toClient, due,
          committed, reset, dismissed, events>>
net == <<connected, toMn, toClient>>
users == <<enabled, reset, dismissed, events>>

Entry == [client : Client, coin : Nat, key : Key, sig : BOOLEAN]
NoEntry == [client |-> "none"]

NullMn == [state |-> "IDLE", session |-> 0, collaterals |-> <<>>, entries |-> <<>>, age |-> 0]
NullClient == [state |-> "IDLE", session |-> 0, submitted |-> FALSE, count |-> 0,
               entry |-> NoEntry, age |-> 0]

Init ==
    /\ mn = NullMn /\ adding = NoEntry
    /\ client = [c \in Client |-> NullClient]
    /\ preparing = [c \in Client |-> NoEntry]
    /\ wallet = [c \in Client |-> [coin |-> 0, locked |-> FALSE, recorded |-> FALSE,
                                   collateral |-> "none"]]
    /\ enabled = [c \in Client |-> TRUE]
    /\ connected = {} /\ toMn = [c \in Client |-> <<>>] /\ toClient = [c \in Client |-> <<>>]
    /\ due = {} /\ committed = {} /\ reset = {} /\ dismissed = {}
    /\ events = 0

----------------------------------------------------------------------------
(* Messages. *)

Status(pool, accepted) ==
    [type |-> "status", session |-> pool.session, state |-> pool.state,
     count |-> Len(pool.entries), accepted |-> accepted]

\* The updates a client does not ignore in every state.
Updates(pool) == IF pool.state \in {"QUEUE", "ACCEPTING"} THEN <<Status(pool, TRUE)>> ELSE <<>>

\* RelayStatus, RelayFinalTransaction, RelayCompletedTransaction, psq.Relay:
\* to every node connected, in the session or not.
ToAll(ms, chan) == [c \in Client |-> IF c \in connected THEN chan[c] \o ms ELSE chan[c]]

\* PushStatus: to the peer the message came from.
ToOne(c, ms, chan) == [chan EXCEPT ![c] = IF c \in connected THEN @ \o ms ELSE @]

FromClient(c, type) ==
    adding = NoEntry /\ toMn[c] # <<>> /\ Head(toMn[c]).type = type

FromMn(c, type) ==
    preparing[c] = NoEntry /\ toClient[c] # <<>> /\ Head(toClient[c]).type = type

Taken(chan, c) == [chan EXCEPT ![c] = Tail(@)]

----------------------------------------------------------------------------
(* The masternode. *)

IsSessionReady == Len(mn.collaterals) >= PoolMax
IsCollateralValid(c) == wallet[c].collateral = "good"
Spent(e) == e.coin # wallet[e.client].coin

Charged(cs) == [c \in Client |->
    IF c \in cs THEN [wallet[c] EXCEPT !.collateral = "charged"] ELSE wallet[c]]

CreateNewSession(c, id) ==
    /\ mn.session = 0 /\ mn.state = "IDLE" /\ IsCollateralValid(c)
    /\ mn' = [mn EXCEPT !.session = id, !.state = "QUEUE", !.age = 0,
                        !.collaterals = Append(@, c)]

AddUserToExistingSession(c) ==
    /\ mn.session # 0 /\ ~ IsSessionReady /\ IsCollateralValid(c) /\ mn.state = "QUEUE"
    /\ mn' = [mn EXCEPT !.age = 0, !.collaterals = Append(@, c)]

\* A client asks to take part.
PSACCEPT(c) ==
    /\ FromClient(c, "accept")
    /\ \/ /\ ~ IsSessionReady
          /\ (\E id \in Session : CreateNewSession(c, id)) \/ AddUserToExistingSession(c)
          /\ toClient' = ToOne(c, Updates(mn'), toClient)
       \/ /\ IsSessionReady          \* queue full, yet "accepted"
          /\ toClient' = ToOne(c, Updates(mn), toClient)
          /\ UNCHANGED mn
       \/ /\ \/ ~ IsSessionReady /\ mn.collaterals = <<>>      \* nLastSsq is too recent
             \/ ~ IsSessionReady /\ (~ IsCollateralValid(c) \/ mn.state \notin {"IDLE", "QUEUE"})
          /\ toClient' = ToOne(c, <<Status(mn, FALSE)>>, toClient)
          /\ UNCHANGED mn
    /\ toMn' = Taken(toMn, c)
    /\ UNCHANGED <<adding, client, preparing, wallet, connected, due, committed, users>>

Keys(entries) == [i \in 1..Len(entries) |-> entries[i].key]
Sorted(keys) == SortSeq(keys, <)

\* Each entry in the list, and one key per entry, sorted (BIP69).
Final(pool) ==
    [type |-> "final", session |-> pool.session, keys |-> Sorted(Keys(pool.entries)),
     coins |-> {<<e.client, e.coin>> : e \in Range(pool.entries)}]

Full(pool) == pool.state = "ACCEPTING" /\ Len(pool.entries) >= PoolMax

\* CheckPool when no signature is new: CreateFinalTransaction once all entries are here.
CheckPool(pool) == IF Full(pool) THEN [pool EXCEPT !.state = "SIGNING"] ELSE pool
Request(pool) == IF Full(pool) THEN <<Final(pool)>> ELSE <<>>

\* PSVIN up to AddEntry: the session is ready and the entry valid by itself.
PSVIN(c) ==
    /\ FromClient(c, "vin")
    /\ LET e == Head(toMn[c]).entry
       IN  IF IsSessionReady /\ ~ Spent(e)
           THEN adding' = e /\ UNCHANGED toClient
           ELSE toClient' = ToOne(c, <<Status(mn, FALSE)>>, toClient) /\ UNCHANGED adding
    /\ toMn' = Taken(toMn, c)
    /\ UNCHANGED <<mn, client, preparing, wallet, connected, due, committed, users>>

\* A refused entry ends the session of all.
AddEntry ==
    /\ adding # NoEntry
    /\ LET c == adding.client
           refused == \/ ~ IsCollateralValid(c)
                      \/ Len(mn.entries) >= PoolMax
                      \/ \E e \in Range(mn.entries) : e.client = c /\ e.coin = adding.coin
           pool == [mn EXCEPT !.entries = Append(@, adding), !.age = 0]
       IN  IF refused
           THEN /\ toClient' = ToOne(c, <<Status(mn, FALSE)>>, toClient)
                /\ mn' = NullMn
           ELSE /\ mn' = CheckPool(pool)
                /\ toClient' = IF Full(pool)
                               THEN ToAll(<<Final(pool)>>, ToOne(c, Updates(pool), toClient))
                               ELSE ToAll(Updates(pool), toClient)
    /\ adding' = NoEntry
    /\ UNCHANGED <<client, preparing, wallet, connected, toMn, due, committed, users>>

\* IsInputScriptSigValid checks the signature on the outputs in the order of the entries.
SignatureFits(e, m) == ~ e.sig /\ e.client = m.client /\ e.coin = m.coin /\ m.keys = Keys(mn.entries)

AllSigned(pool) == \A e \in Range(pool.entries) : e.sig

\* CommitFinalTransaction fails if a coin is spent or cs_main is taken; SetNull comes first.
CommitFails ==
    /\ mn' = NullMn
    /\ toClient' = ToAll(<<[type |-> "complete", session |-> 0]>>, toClient)
    /\ UNCHANGED <<wallet, committed>>

\* ChargeRandomFees charges the first few collaterals.
CommitFinalTransaction(pool) ==
    /\ \A e \in Range(pool.entries) : ~ Spent(e)
    /\ mn' = NullMn
    /\ toClient' = ToAll(<<[type |-> "complete", session |-> pool.session]>>, toClient)
    /\ committed' = Range(pool.entries)
    /\ \E k \in 0..Len(pool.collaterals) :
         LET paid == Charged({pool.collaterals[i] : i \in 1..k})
             mixed == {e.client : e \in Range(pool.entries)}
         IN  wallet' = [c \in Client |->
                           IF c \in mixed THEN [paid[c] EXCEPT !.coin = @ + 1] ELSE paid[c]]

\* A client's signature.
PSSIGNFINALTX(c) ==
    /\ FromClient(c, "sign")
    /\ LET m == Head(toMn[c])
           pool == [mn EXCEPT !.entries = [i \in DOMAIN @ |->
                       IF SignatureFits(@[i], m) THEN [@[i] EXCEPT !.sig = TRUE] ELSE @[i]]]
       IN  IF ~ \E e \in Range(mn.entries) : SignatureFits(e, m)
           THEN toClient' = ToAll(<<Status(mn, FALSE)>>, toClient) /\ UNCHANGED <<mn, wallet, committed>>
           ELSE IF pool.state = "SIGNING" /\ AllSigned(pool)
                THEN CommitFails \/ CommitFinalTransaction(pool)
                ELSE /\ mn' = CheckPool(pool)
                     /\ toClient' = ToAll(Request(pool), toClient)
                     /\ UNCHANGED <<wallet, committed>>
    /\ toMn' = Taken(toMn, c)
    /\ UNCHANGED <<adding, client, preparing, connected, due, users>>

Timeout(state) == IF state = "SIGNING" THEN SIGNING_TIMEOUT ELSE QUEUE_TIMEOUT

TimedOutWithoutLag(state, age, lag) == state # "IDLE" /\ age >= Timeout(state)      \* mutant

TimedOutUnlessSigning(state, age, lag) ==      \* mutant
    state \notin {"IDLE", "SIGNING"} /\ age >= Timeout(state) + lag

TimedOut(state, age, lag) == state # "IDLE" /\ age >= Timeout(state) + lag

\* Who did not send the promised entry, or did not sign.
Offenders ==
    CASE mn.state = "ACCEPTING" -> Range(mn.collaterals) \ {e.client : e \in Range(mn.entries)}
      [] mn.state = "SIGNING"   -> {e.client : e \in {x \in Range(mn.entries) : ~ x.sig}}
      [] OTHER                  -> {}

\* Perhaps one of them, unless all are.
ChargeFees ==
    \/ UNCHANGED wallet
    \/ /\ Cardinality(Offenders) < PoolMax
       /\ \E c \in Offenders : wallet' = Charged({c})

\* The masternode's thread: CheckTimeout, then CheckForCompleteQueue.
RunMasternode ==
    /\ "mn" \in due
    /\ due' = due \ {"mn"}
    /\ IF TimedOut(mn.state, mn.age, 0)
       THEN ChargeFees /\ mn' = NullMn /\ UNCHANGED toClient
       ELSE /\ IF mn.state = "QUEUE" /\ IsSessionReady
               THEN /\ mn' = [mn EXCEPT !.state = "ACCEPTING"]
                    /\ toClient' = ToAll(<<[type |-> "ready"]>>, toClient)
               ELSE UNCHANGED <<mn, toClient>>
            /\ UNCHANGED wallet
    /\ UNCHANGED <<adding, client, preparing, connected, toMn, committed, users>>

----------------------------------------------------------------------------
(* A client. *)

UnlockNothing(w) == [w EXCEPT !.recorded = FALSE]      \* mutant

\* UnlockCoins knows the coins SendDenominate noted.
UnlockCoins(w) == IF w.recorded THEN [w EXCEPT !.locked = FALSE, !.recorded = FALSE] ELSE w

\* UnlockCoins and SetNull, as after every failure and every success.
GiveUp(c, state) ==
    /\ wallet' = [wallet EXCEPT ![c] = UnlockCoins(@)]
    /\ client' = [client EXCEPT ![c] = [NullClient EXCEPT !.state = state]]

\* PSSTATUSUPDATE and CheckPoolStateUpdate; the session of the message is not compared.
PSSTATUSUPDATE(c) ==
    /\ FromMn(c, "status")
    /\ LET m == Head(toClient[c])
           me == client[c]
           same == m.accepted /\ m.state = me.state
       IN  CASE ~ me.submitted \/ me.state \in {"IDLE", "ERROR"} ->
                  UNCHANGED <<client, wallet>>
             [] ~ m.accepted /\ me.submitted /\ me.state \notin {"IDLE", "ERROR"} ->
                  GiveUp(c, "ERROR")
             [] same /\ me.submitted /\ me.state = "QUEUE" /\ me.session = 0 /\ m.session # 0 ->
                  client' = [client EXCEPT ![c].session = m.session, ![c].age = 0]
                    /\ UNCHANGED wallet
             [] same /\ me.submitted /\ me.state = "ACCEPTING" /\ me.count # m.count ->
                  client' = [client EXCEPT ![c].count = m.count, ![c].age = 0]
                    /\ UNCHANGED wallet
             [] OTHER -> UNCHANGED <<client, wallet>>
    /\ dismissed' = IF client[c].state = "SIGNING" /\ client'[c].state = "ERROR"
                       /\ \E e \in Range(mn.entries) : [e EXCEPT !.sig = FALSE] = client[c].entry
                    THEN dismissed \cup {c} ELSE dismissed
    /\ toClient' = Taken(toClient, c)
    /\ UNCHANGED <<mn, adding, preparing, connected, toMn, due, committed, enabled, reset,
                   events>>

KeysInUse ==
    LET pending == {preparing[c] : c \in Client} \cup {client[c].entry : c \in Client} \cup {adding}
        sent == {m \in UNION {Range(toMn[c]) : c \in Client} : m.type = "vin"}
    IN  {e.key : e \in Range(mn.entries) \cup (pending \ {NoEntry}) \cup {m.entry : m \in sent}}

\* PSQUEUE with fReady: PrepareDenominate selects and locks a coin, if the wallet lets it.
PSQUEUE(c) ==
    /\ FromMn(c, "ready")
    /\ \/ /\ client[c].submitted /\ client[c].state = "QUEUE" /\ client[c].entry = NoEntry
          /\ ~ wallet[c].locked
          /\ \E k \in Key \ KeysInUse :
               preparing' = [preparing EXCEPT ![c] = [client |-> c, coin |-> wallet[c].coin,
                                                      key |-> k, sig |-> FALSE]]
          /\ wallet' = [wallet EXCEPT ![c].locked = TRUE]
       \/ UNCHANGED <<preparing, wallet>>
    /\ toClient' = Taken(toClient, c)
    /\ UNCHANGED <<mn, adding, client, connected, toMn, due, committed, users>>

\* The rest of SubmitDenominate: without a collateral it returns at once; without a
\* session, or if the mempool refuses, it gives up; else the entry is sent.
SendDenominate(c) ==
    /\ preparing[c] # NoEntry
    /\ LET noted == [wallet[c] EXCEPT !.recorded = TRUE]
           sends == wallet[c].collateral # "none" /\ client[c].session # 0
       IN  \/ wallet[c].collateral = "none" /\ UNCHANGED <<wallet, client, toMn>>
           \/ /\ wallet[c].collateral # "none"
              /\ wallet' = [wallet EXCEPT ![c] = UnlockCoins(noted)]
              /\ client' = [client EXCEPT ![c] = NullClient]
              /\ UNCHANGED toMn
           \/ /\ sends
              /\ wallet' = [wallet EXCEPT ![c] = noted]
              /\ client' = [client EXCEPT ![c].state = "ACCEPTING", ![c].entry = preparing[c],
                                          ![c].age = 0]
              /\ toMn' = IF client[c].submitted /\ c \in connected
                         THEN [toMn EXCEPT ![c] = Append(@, [type |-> "vin", entry |-> preparing[c]])]
                         ELSE toMn
    /\ preparing' = [preparing EXCEPT ![c] = NoEntry]
    /\ UNCHANGED <<mn, adding, connected, toClient, due, committed, users>>

\* "make sure my inputs/outputs are present, otherwise refuse to sign"
SignFinalTransaction(c, m) ==
    LET e == client[c].entry
    IN  IF e # NoEntry /\ <<c, e.coin>> \in m.coins /\ e.key \in Range(m.keys)
        THEN /\ toMn' = [toMn EXCEPT ![c] = Append(@, [type |-> "sign", client |-> c,
                                                       coin |-> e.coin, keys |-> m.keys])]
             /\ client' = [client EXCEPT ![c].state = "SIGNING", ![c].age = 0]
             /\ UNCHANGED wallet
        ELSE GiveUp(c, "IDLE") /\ UNCHANGED toMn

PSFINALTX(c) ==
    /\ FromMn(c, "final")
    /\ IF client[c].submitted /\ client[c].session = Head(toClient[c]).session
       THEN SignFinalTransaction(c, Head(toClient[c]))
       ELSE UNCHANGED <<client, wallet, toMn>>
    /\ toClient' = Taken(toClient, c)
    /\ UNCHANGED <<mn, adding, preparing, connected, due, committed, users>>

PSCOMPLETE(c) ==
    /\ FromMn(c, "complete")
    /\ IF client[c].submitted /\ client[c].session = Head(toClient[c]).session
       THEN GiveUp(c, "IDLE")
       ELSE UNCHANGED <<client, wallet>>
    /\ toClient' = Taken(toClient, c)
    /\ UNCHANGED <<mn, adding, preparing, connected, toMn, due, committed, users>>

\* CheckTimeout: an error is shown for a while, a session that hangs becomes an error.
GivesUpTo(c) ==
    CASE client[c].state = "ERROR" /\ client[c].age >= RESET -> "IDLE"
      [] client[c].state # "ERROR" /\ TimedOut(client[c].state, client[c].age, LAG) -> "ERROR"
      [] OTHER -> "no"

\* DoAutomaticDenominating: an idle client finds this masternode, in its queues or at random.
MayMix(c) ==
    /\ enabled[c] /\ preparing[c] = NoEntry /\ wallet[c].coin < nPrivateSendRounds
    /\ \/ GivesUpTo(c) = "IDLE"
       \/ client[c].state = "IDLE" /\ client[c].entry = NoEntry /\ client[c].session = 0

DoAutomaticDenominating(c) ==
    /\ MayMix(c)
    /\ wallet' = [wallet EXCEPT ![c] = [UnlockCoins(@) EXCEPT !.collateral = "good"]]
    /\ client' = [client EXCEPT ![c] = [NullClient EXCEPT !.submitted = TRUE, !.state = "QUEUE"]]
    /\ connected' = connected \cup {c}
    /\ toMn' = [toMn EXCEPT ![c] = Append(@, [type |-> "accept"])]

\* A client's thread: CheckTimeout, and now and then DoAutomaticDenominating.
RunClient(c) ==
    /\ c \in due
    /\ due' = due \ {c}
    /\ \/ DoAutomaticDenominating(c)
       \/ /\ IF enabled[c] /\ preparing[c] = NoEntry /\ GivesUpTo(c) # "no"
             THEN GiveUp(c, GivesUpTo(c))
             ELSE UNCHANGED <<client, wallet>>
          /\ UNCHANGED <<connected, toMn>>
    /\ UNCHANGED <<mn, adding, preparing, toClient, committed, users>>

----------------------------------------------------------------------------
(* Time, users and the network. *)

MaxAge == QUEUE_TIMEOUT + LAG

Older(r) == [r EXCEPT !.age = IF r.state = "IDLE" \/ @ = MaxAge THEN @ ELSE @ + 1]

\* A second passes when every thread has run and the handlers have returned; only on slow
\* connections is a message under way for longer.
Second ==
    /\ due = {} /\ adding = NoEntry /\ \A c \in Client : preparing[c] = NoEntry
    /\ \A c \in Client : toMn[c] = <<>> /\ (c \in Slow \/ toClient[c] = <<>>)
    /\ \A c \in Slow : Len(toClient[c]) <= 1
    /\ due' = Client \cup {"mn"}
    /\ mn' = Older(mn)
    /\ client' = [c \in Client |-> Older(client[c])]
    /\ committed' = {}
    /\ dismissed' = dismissed \cap {e.client : e \in Range(mn.entries)}
    /\ UNCHANGED <<adding, preparing, wallet, net, enabled, reset, events>>

Event == events < MaxEvents /\ events' = events + 1

\* The RPC commands stop and start; a client that starts mixes with its next run.
StartStop(c) ==
    /\ Event
    /\ enabled' = [enabled EXCEPT ![c] = ~ @]
    /\ UNCHANGED <<mn, adding, client, preparing, wallet, net, due, committed, reset, dismissed>>

\* The RPC command reset.
ResetPool(c) ==
    /\ Event
    /\ wallet' = [wallet EXCEPT ![c] = [UnlockCoins(@) EXCEPT !.collateral = "none"]]
    /\ client' = [client EXCEPT ![c] = NullClient]
    /\ reset' = reset \cup {c}
    /\ UNCHANGED <<mn, adding, preparing, enabled, net, due, committed, dismissed>>

Disconnect(c) ==
    /\ Event /\ c \in connected
    /\ connected' = connected \ {c}
    /\ toMn' = [toMn EXCEPT ![c] = <<>>] /\ toClient' = [toClient EXCEPT ![c] = <<>>]
    /\ UNCHANGED <<mn, adding, client, preparing, wallet, enabled, due, committed, reset,
                   dismissed>>

\* The user pays with the coin, which the wallet allows unless it is locked.
Pay(c) ==
    /\ Event /\ ~ wallet[c].locked
    /\ wallet' = [wallet EXCEPT ![c].coin = @ + 1]
    /\ UNCHANGED <<mn, adding, client, preparing, enabled, net, due, committed, reset, dismissed>>

Receive(c) == PSACCEPT(c) \/ PSVIN(c) \/ PSSIGNFINALTX(c)
Handle(c) == PSSTATUSUPDATE(c) \/ PSQUEUE(c) \/ SendDenominate(c) \/ PSFINALTX(c) \/ PSCOMPLETE(c)

Work == \/ AddEntry \/ RunMasternode \/ Second
        \/ \E c \in Client : Receive(c) \/ Handle(c) \/ RunClient(c)

Next == Work \/ \E c \in Active : StartStop(c) \/ ResetPool(c) \/ Disconnect(c) \/ Pay(c)

Spec == Init /\ [][Next]_vars

\* The nodes and the time go on.  That a message on a slow connection is ever handled is
\* not assumed.
Fairness == WF_vars(Work)

FairSpec == Spec /\ Fairness

----------------------------------------------------------------------------
(* Properties. *)

TypeOK ==
    /\ mn.state \in {"IDLE", "QUEUE", "ACCEPTING", "SIGNING"}
    /\ mn.entries \in Seq(Entry) /\ Len(mn.entries) <= PoolMax
    /\ mn.collaterals \in Seq(Client) /\ Len(mn.collaterals) <= PoolMax
    /\ connected \subseteq Client /\ due \subseteq Client \cup {"mn"}
    /\ \A c \in Client : wallet[c].collateral \in {"none", "good", "charged"}

\* The coins of a transaction the masternode commits are still locked in their owners'
\* wallets: a client that has signed waits longer than the masternode (nLagTime in
\* CheckTimeout) before it gives a coin back, so none is promised twice.  Only the
\* command reset gives it back at once, and a rejection the masternode relays to all when
\* a signature fits no entry, such as a late one of an earlier session.
CoinsHeldUntilCommit ==
    [][\A e \in committed' \ committed :
         wallet[e.client].locked \/ e.client \in reset \cup dismissed]_vars

\* A coin locked for mixing is given back when mixing fails or succeeds, whatever is lost
\* or late (UnlockCoins), unless the user stops or resets mixing, or the masternode goes on
\* with a session of others, whose status messages count as progress here.
CoinsReleased ==
    \A c \in Client :
        wallet[c].locked ~> \/ ~ wallet[c].locked \/ ~ enabled[c] \/ c \in reset
                            \/ mn.session \notin {0, client[c].session}

\* A session of the masternode ends, whoever stops answering (CheckTimeout).
SessionEnds == mn.state # "IDLE" ~> mn.state = "IDLE"
================================================================================
