----------------------------- MODULE CoinsCache -----------------------------
(***************************************************************************)
(* The chain state of the node: the coin database (CCoinsViewDB), the      *)
(* cache over it (pcoinsTip) and the cache of the block that is being      *)
(* connected or disconnected (view), with the flags DIRTY and FRESH that   *)
(* decide what a flush writes and what it may drop; the undo data of the   *)
(* blocks; flushes to disk that may fail, and crashes.  Everything here    *)
(* runs under cs_main, so blocks are processed one at a time.              *)
(***************************************************************************)
EXTENDS Integers, Sequences, FiniteSets, FiniteSetsExt

CONSTANTS
    Block, Genesis,
    Parent,     \* pprev of every block but Genesis
    Height,     \* nHeight
    Txs,        \* vtx: the transactions of a block, its coinbase first
    Below,      \* all transactions of a block and its ancestors
    TxId,
    Inputs,     \* vin of a transaction: outpoints <<transaction, n>>
    NOuts       \* number of outputs of a transaction

\* No transaction is twice in a chain: coinbases differ by the height in them.
\* CheckTransaction refuses one that has an input twice, CheckBlock a block
\* whose first transaction is no coinbase, which spends nothing.
ASSUME BlocksAssumption ==
    /\ Genesis \in Block /\ Parent \in [Block \ {Genesis} -> Block]
    /\ Height \in [Block -> Nat]
    /\ Txs \in [Block -> Seq(TxId)] /\ Txs[Genesis] = <<>>
    /\ Below \in [Block -> SUBSET TxId] /\ Below[Genesis] = {}
    /\ \A b \in Block \ {Genesis} :
          LET txs == {Txs[b][i] : i \in 1..Len(Txs[b])} IN
          /\ Height[b] = Height[Parent[b]] + 1
          /\ Below[b] = Below[Parent[b]] \cup txs
          /\ Below[Parent[b]] \cap txs = {}
          /\ \A i, k \in 1..Len(Txs[b]) : Txs[b][i] = Txs[b][k] => i = k
          /\ Txs[b] # <<>> => Inputs[Txs[b][1]] = <<>>
    /\ Inputs \in [TxId -> Seq(TxId \X (Nat \ {0}))]
    /\ \A t \in TxId : \A j, k \in 1..Len(Inputs[t]) : Inputs[t][j] = Inputs[t][k] => j = k
    /\ NOuts \in [TxId -> Nat \ {0}]

\* There are finitely many transactions, which a cache can count.
ASSUME TxIdAssumption == IsFiniteSet(TxId)

-----------------------------------------------------------------------------
(* CCoins: the height and the unspent outputs of a transaction.  A pruned  *)
(* one is Null.                                                            *)

Null == [height |-> 0, outs |-> {}]
CCoins == [height : Nat, outs : SUBSET (Nat \ {0})]

Cleanup(c) == IF c.outs = {} THEN Null ELSE c
Spend(c, n) == Cleanup([c EXCEPT !.outs = @ \ {n}])

FromTx(t, h) == [height |-> h, outs |-> 1..NOuts[t]]

UndoForNever(c, n) == 0      \* mutant

\* CTxInUndo keeps the height only with the last output that was unspent.
UndoFor(c, n) == IF Spend(c, n) = Null THEN c.height ELSE 0

\* ApplyTxInUndo, and whether it finds what it expects.
Restored(c, n, undoHeight) ==
    IF undoHeight # 0 THEN [height |-> undoHeight, outs |-> {n}]
                      ELSE [c EXCEPT !.outs = @ \cup {n}]
RestoresCleanly(c, n, undoHeight) ==
    IF undoHeight # 0 THEN c = Null ELSE c # Null /\ n \notin c.outs

\* A cache maps transactions to entries.
Absent == [coins |-> Null, flags |-> {"absent"}]
Entry == [coins : CCoins, flags : SUBSET {"DIRTY", "FRESH"}]
NoEntries == [t \in TxId |-> Absent]

VARIABLES
    view,      \* cacheCoins of the view of the block in work
    tip,       \* cacheCoins of pcoinsTip
    tipBest,   \* hashBlock of pcoinsTip
    usage,     \* cachedCoinsUsage of pcoinsTip
    db,        \* the coins in the database, Null where there is none
    dbBest,    \* DB_BEST_BLOCK
    undo,      \* the undo data of the blocks that have an undo position
    index,     \* the same as far as the block index on disk knows it
    job,       \* the block that is being connected or disconnected
    abort      \* whether AbortNode was called never, once, or is stopping us now

vars == <<view, tip, tipBest, usage, db, dbBest, undo, index, job, abort>>

Idle == [kind |-> "idle", block |-> Genesis, i |-> 0, j |-> 0,
         undo |-> <<>>, clean |-> TRUE]

Init ==
    /\ view = NoEntries /\ tip = NoEntries
    /\ tipBest = Genesis /\ usage = 0
    /\ db = [t \in TxId |-> Null] /\ dbBest = Genesis
    /\ undo = <<>> /\ index = <<>>
    /\ job = Idle /\ abort = "never"

-----------------------------------------------------------------------------
(* CCoinsViewCache.  In a base, coins are Null where it finds none.        *)

Holds(cache, t) == cache[t] # Absent
IsFresh(e) == "FRESH" \in e.flags
IsDirty(e) == "DIRTY" \in e.flags

\* FetchCoins, where the base has entries for held: one that the base has only
\* in pruned form is fresh.
Fetched(cache, S, base, held) ==
    [t \in TxId |->
        IF t \notin S \/ Holds(cache, t) \/ t \notin held THEN cache[t]
        ELSE [coins |-> base[t], flags |-> IF base[t] = Null THEN {"FRESH"} ELSE {}]]

SettledPruned(e) == IF e.coins = Null THEN Absent ELSE e      \* mutant

\* The destructor of CCoinsModifier drops what no layer below has to hear of.
Settled(e) == IF IsFresh(e) /\ e.coins = Null THEN Absent ELSE e

\* ModifyCoins: the entry of t becomes c.
Modified(cache, t, base, c) ==
    LET flags == CASE Holds(cache, t) -> cache[t].flags
                   [] ~Holds(cache, t) /\ base[t] = Null -> {"FRESH"}
                   [] OTHER -> {}
    IN  [cache EXCEPT ![t] = Settled([coins |-> c, flags |-> flags \cup {"DIRTY"}])]

\* ModifyNewCoins: fresh without a look at the base.
ModifiedNew(cache, t, c) ==
    [cache EXCEPT ![t] = Settled([coins |-> c, flags |-> {"DIRTY", "FRESH"}])]

\* mutant
WrittenAsFresh(us, it) ==
    CASE ~IsDirty(it) -> us
      [] IsDirty(it) /\ us = Absent -> Settled(it)
      [] OTHER -> IF it.coins = Null THEN Absent
                  ELSE [coins |-> it.coins, flags |-> us.flags \cup {"DIRTY"}]

\* BatchWrite of one entry of a child over the entry us of its parent.
Written(us, it) ==
    CASE ~IsDirty(it) -> us
      [] IsDirty(it) /\ us = Absent -> Settled(it)
      [] OTHER -> IF IsFresh(us) /\ it.coins = Null THEN Absent
                  ELSE [coins |-> it.coins, flags |-> us.flags \cup {"DIRTY"}]

BatchWrite(parent, child) == [t \in TxId |-> Written(parent[t], child[t])]

\* CCoins memory, in outputs, and what BatchWrite adds to cachedCoinsUsage.
Memory(e) == Cardinality(e.coins.outs)

\* mutant
WrittenUsageOnTop(us, it) == IF IsDirty(it) THEN Memory(Settled(it)) ELSE 0

WrittenUsage(us, it) ==
    CASE ~IsDirty(it) -> 0
      [] IsDirty(it) /\ us = Absent -> Memory(Settled(it))
      [] OTHER -> IF IsFresh(us) /\ it.coins = Null THEN -Memory(us)
                  ELSE Memory(it) - Memory(us)

Total(f) == MapThenSumSet(LAMBDA t : f[t], TxId)

-----------------------------------------------------------------------------
(* The layers, read through.                                               *)

InDb == {t \in TxId : db[t] # Null}
InTip == {t \in TxId : Holds(tip, t)}
TipCoins == [t \in TxId |-> IF Holds(tip, t) THEN tip[t].coins ELSE db[t]]
ViewCoins == [t \in TxId |-> IF Holds(view, t) THEN view[t].coins ELSE TipCoins[t]]

\* Reading S through pcoinsTip fills it.
TipReads(S) ==
    LET new == Fetched(tip, S, db, InDb)
        added == [t \in TxId |-> IF Holds(tip, t) THEN 0 ELSE Memory(new[t])]
    IN  tip' = new /\ usage' = usage + Total(added)

\* Reading S through view fills both.
ViewReads(S) ==
    /\ TipReads({t \in S : ~Holds(view, t)})
    /\ view' = Fetched(view, S, TipCoins, InTip')

\* ModifyCoins on view.
ViewModifies(t, c) ==
    /\ TipReads(IF Holds(view, t) THEN {} ELSE {t})
    /\ view' = Modified(view, t, TipCoins, c)

\* view.Flush, and the block it leaves pcoinsTip at.
FlushView(best) ==
    LET written == [t \in TxId |-> WrittenUsage(tip[t], view[t])] IN
    /\ tip' = BatchWrite(tip, view) /\ usage' = usage + Total(written)
    /\ tipBest' = best
    /\ view' = NoEntries /\ job' = Idle

DropView == view' = NoEntries /\ job' = Idle

-----------------------------------------------------------------------------
(* ConnectTip.                                                             *)

chainState == <<db, dbBest, index, abort>>

CurTx == Txs[job.block][job.i]
CurInputs == Inputs[CurTx]
MoreTxs == job.i <= Len(Txs[job.block])

\* ActivateBestChain does nothing more once a shutdown is requested.
ConnectTip(b) ==
    /\ job = Idle /\ abort # "now"
    /\ b # Genesis /\ Parent[b] = tipBest
    /\ job' = [kind |-> "check", block |-> b, i |-> 1, j |-> 1, clean |-> TRUE,
               undo |-> [i \in 1..Len(Txs[b]) |-> <<>>]]
    /\ UNCHANGED <<view, tip, tipBest, usage, undo, chainState>>

\* HaveInputs stops at the first input that is missing or spent; the block is
\* then refused and the view dropped.
CheckTx ==
    /\ job.kind = "check" /\ MoreTxs
    /\ LET missing == {j \in 1..Len(CurInputs) :
                         CurInputs[j][2] \notin ViewCoins[CurInputs[j][1]].outs}
       IN  IF missing = {}
           THEN /\ ViewReads({CurInputs[j][1] : j \in 1..Len(CurInputs)})
                /\ job' = [job EXCEPT !.kind = "spend"]
           ELSE /\ TipReads({t \in {CurInputs[j][1] : j \in 1..Min(missing)} :
                                ~Holds(view, t)})
                /\ DropView
    /\ UNCHANGED <<tipBest, undo, chainState>>

\* UpdateCoins, one input.
SpendInput ==
    /\ job.kind = "spend" /\ job.j <= Len(CurInputs)
    /\ LET t == CurInputs[job.j][1]
           n == CurInputs[job.j][2]
           c == ViewCoins[t]
       IN  /\ n \in c.outs
           /\ ViewModifies(t, Spend(c, n))
           /\ job' = [job EXCEPT !.j = @ + 1,
                                 !.undo[job.i] = Append(@, UndoFor(c, n))]
    /\ UNCHANGED <<tipBest, undo, chainState>>

\* UpdateCoins, the outputs: only a coinbase is looked up first.
AddOutputs ==
    /\ job.kind = "spend" /\ job.j > Len(CurInputs)
    /\ LET c == FromTx(CurTx, Height[job.block])
       IN  IF job.i = 1
           THEN ViewModifies(CurTx, c)
           ELSE view' = ModifiedNew(view, CurTx, c) /\ UNCHANGED <<tip, usage>>
    /\ job' = [job EXCEPT !.kind = "check", !.i = @ + 1, !.j = 1]
    /\ UNCHANGED <<tipBest, undo, chainState>>

\* The block is refused for another reason, or was only tested.
RefuseBlock ==
    /\ job.kind = "check"
    /\ DropView
    /\ UNCHANGED <<tip, tipBest, usage, undo, chainState>>

\* The undo data is written unless the block already has some.
Connected ==
    /\ job.kind = "check" /\ ~MoreTxs
    /\ undo' = [b \in DOMAIN undo \cup {job.block} |->
                    IF b \in DOMAIN undo THEN undo[b] ELSE job.undo]
    /\ FlushView(job.block)
    /\ UNCHANGED chainState

-----------------------------------------------------------------------------
(* DisconnectTip.                                                          *)

DisconnectTip ==
    /\ job = Idle /\ abort # "now"
    /\ tipBest # Genesis /\ tipBest \in DOMAIN undo
    /\ job' = [kind |-> "remove", block |-> tipBest, i |-> Len(Txs[tipBest]), j |-> 0,
               undo |-> undo[tipBest], clean |-> TRUE]
    /\ UNCHANGED <<view, tip, tipBest, usage, undo, chainState>>

RemoveOutputs ==
    /\ job.kind = "remove" /\ job.i > 0
    /\ ViewModifies(CurTx, Null)
    /\ LET clean == job.clean /\ ViewCoins[CurTx] = FromTx(CurTx, Height[job.block])
       IN  IF job.i > 1 /\ CurInputs # <<>>
           THEN job' = [job EXCEPT !.clean = clean, !.kind = "restore", !.j = Len(CurInputs)]
           ELSE job' = [job EXCEPT !.clean = clean, !.i = @ - 1]
    /\ UNCHANGED <<tipBest, undo, chainState>>

RestoreInput ==
    /\ job.kind = "restore"
    /\ LET t == CurInputs[job.j][1]
           n == CurInputs[job.j][2]
           h == job.undo[job.i][job.j]
           clean == job.clean /\ RestoresCleanly(ViewCoins[t], n, h)
       IN  /\ ViewModifies(t, Restored(ViewCoins[t], n, h))
           /\ IF job.j > 1
              THEN job' = [job EXCEPT !.clean = clean, !.j = @ - 1]
              ELSE job' = [job EXCEPT !.clean = clean, !.kind = "remove",
                                      !.i = @ - 1, !.j = 0]
    /\ UNCHANGED <<tipBest, undo, chainState>>

Disconnected ==
    /\ job.kind = "remove" /\ job.i = 0
    /\ IF job.clean
       THEN FlushView(Parent[job.block])
       ELSE DropView /\ UNCHANGED <<tip, tipBest, usage>>
    /\ UNCHANGED <<undo, chainState>>

-----------------------------------------------------------------------------
(* FlushStateToDisk, readers of pcoinsTip, and crashes.                    *)

IndexForgotten == UNCHANGED index      \* mutant

\* "First make sure all block and undo data is flushed to disk."
IndexWritten == index' = undo

\* The periodic write of the block index alone.
WriteIndex ==
    /\ job = Idle
    /\ IndexWritten
    /\ UNCHANGED <<view, tip, tipBest, usage, db, dbBest, undo, job, abort>>

Saved == [t \in TxId |-> IF IsDirty(tip[t]) THEN tip[t].coins ELSE db[t]]

CoinsWrittenAlone == db' = Saved /\ UNCHANGED dbBest      \* mutant

\* CCoinsViewDB::BatchWrite: the coins and the best block in one batch.
CoinsWritten == db' = Saved /\ dbBest' = tipBest

\* A full flush: the block index, then the coins.  The second disjunct is a
\* failed write (one is the bound): the batch has already taken the entries out
\* of the cache.
FlushStateToDisk ==
    /\ job = Idle
    /\ IndexWritten
    /\ tip' = NoEntries
    /\ \/ /\ CoinsWritten /\ usage' = 0
          /\ UNCHANGED abort
       \/ /\ abort = "never" /\ abort' = "now"
          /\ UNCHANGED <<db, dbBest, usage>>
    /\ UNCHANGED <<view, tipBest, undo, job>>

\* AcceptToMemoryPool and others read coins under cs_main ...
ReadTip(t) ==
    /\ job = Idle
    /\ TipReads({t})
    /\ UNCHANGED <<view, tipBest, undo, job, chainState>>

\* ... and may drop them again.
Uncache(t) ==
    /\ job = Idle
    /\ tip[t].flags = {}
    /\ tip' = [tip EXCEPT ![t] = Absent] /\ usage' = usage - Memory(tip[t])
    /\ UNCHANGED <<view, tipBest, undo, job, chainState>>

\* The process dies, or ends after a flush; LoadBlockIndexDB starts from the
\* best block of the database.
Restart ==
    /\ view' = NoEntries /\ job' = Idle
    /\ tip' = NoEntries /\ usage' = 0 /\ tipBest' = dbBest
    /\ undo' = index
    /\ abort' = IF abort = "never" THEN "never" ELSE "once"
    /\ UNCHANGED <<db, dbBest, index>>

Next ==
    \/ \E b \in Block : ConnectTip(b)
    \/ CheckTx \/ SpendInput \/ AddOutputs \/ RefuseBlock \/ Connected
    \/ DisconnectTip \/ RemoveOutputs \/ RestoreInput \/ Disconnected
    \/ WriteIndex \/ FlushStateToDisk \/ Restart
    \/ \E t \in TxId : ReadTip(t) \/ Uncache(t)

Spec == Init /\ [][Next]_vars

-----------------------------------------------------------------------------
(* Properties.                                                             *)

Job == [kind : {"idle", "check", "spend", "remove", "restore"}, block : Block,
        i : Nat, j : Nat, undo : Seq(Seq(Nat)), clean : BOOLEAN]

TypeOK ==
    /\ view \in [TxId -> Entry \cup {Absent}] /\ tip \in [TxId -> Entry \cup {Absent}]
    /\ db \in [TxId -> CCoins]
    /\ tipBest \in Block /\ dbBest \in Block
    /\ job \in Job
    /\ DOMAIN undo \subseteq Block /\ DOMAIN index \subseteq Block
    /\ abort \in {"never", "once", "now"}

\* The reference: the unspent outputs after a block, from those before it.
AfterTx(coins, t, h) ==
    [s \in TxId |->
        IF s = t THEN FromTx(t, h)
        ELSE Cleanup([coins[s] EXCEPT !.outs =
                         @ \ {n \in @ : \E j \in 1..Len(Inputs[t]) : Inputs[t][j] = <<s, n>>}])]

AfterTxs(coins, b) ==
    LET after[i \in 0..Len(Txs[b])] ==
            IF i = 0 THEN coins ELSE AfterTx(after[i - 1], Txs[b][i], Height[b])
    IN  after[Len(Txs[b])]

UTXOs[b \in Block] ==
    IF b = Genesis THEN [t \in TxId |-> Null] ELSE AfterTxs(UTXOs[Parent[b]], b)

\* Over any connects, disconnects, flushes and reads, what pcoinsTip says is
\* what replaying the chain to its best block gives.
TipMatchesChain == abort = "never" => TipCoins = UTXOs[tipBest]

\* A restart at any moment finds a database whose coins belong to its best block.
DbMatchesBest == abort = "never" => db = UTXOs[dbBest]

\* ... and the block index on disk has the undo data to walk back from there.
Chain[b \in Block] == IF b = Genesis THEN {} ELSE {b} \cup Chain[Parent[b]]
UndoIsSaved == Chain[dbBest] \subseteq DOMAIN index

\* The assertion in UpdateCoins holds, and no block that was connected is
\* refused by its own undo data.
NoSurprise ==
    /\ job.kind = "spend" /\ job.j <= Len(CurInputs)
           => CurInputs[job.j][2] \in ViewCoins[CurInputs[job.j][1]].outs
    /\ abort = "never" => job.clean

\* The count that decides when the cache is flushed does not drift.
UsageIsExact ==
    abort = "never" => usage = Total([t \in TxId |-> Memory(tip[t])])

\* Whatever is cached where, the three layers behave like three plain maps.
Flat == INSTANCE UTXOSet WITH work <- ViewCoins, coins <- TipCoins, saved <- db

ImplementsUTXOSet == Flat!Init /\ [][abort' # "never" \/ [Flat!Next]_(Flat!vars)]_vars
=============================================================================
