-------------------------- MODULE CoinsCache_proofs --------------------------
(***************************************************************************)
(* Proofs about CoinsCache for every block tree and any transactions: the  *)
(* flags DIRTY and FRESH never lie, so the caches over the database behave *)
(* like plain maps (UTXOSet), through connects, disconnects, reads, drops, *)
(* flushes and crashes, as long as no write to the database has failed.    *)
(***************************************************************************)
EXTENDS CoinsCache, FiniteSetTheorems, TLAPS

Caches == [TxId -> Entry \cup {Absent}]
Maps == [TxId -> CCoins]

\* What a cache over a base answers.
Through(cache, base) == [t \in TxId |-> IF Holds(cache, t) THEN cache[t].coins ELSE base[t]]

\* The meaning of the flags: a fresh entry's base has nothing (of value), and
\* an entry that is not dirty is what the base has.
Layered(cache, base) ==
    \A t \in TxId : Holds(cache, t) =>
        /\ IsFresh(cache[t]) => base[t] = Null
        /\ ~IsDirty(cache[t]) => cache[t].coins = base[t]

-----------------------------------------------------------------------------
(* The operations of CCoinsViewCache, as functions of their arguments.     *)

LEMMA NullCoins == Null \in CCoins
  BY DEF Null, CCoins

LEMMA AbsentEntry == Absent \notin Entry /\ Absent.coins = Null
  BY DEF Absent, Entry

LEMMA NothingCached ==
    /\ NoEntries \in Caches
    /\ \A base \in Maps : Layered(NoEntries, base) /\ Through(NoEntries, base) = base
  BY DEF NoEntries, Caches, Maps, Layered, Through, Holds

LEMMA SettledEntry ==
    ASSUME NEW e \in Entry
    PROVE  /\ Settled(e) \in Entry \cup {Absent}
           /\ Settled(e) = Absent <=> IsFresh(e) /\ e.coins = Null
           /\ Settled(e) # Absent => Settled(e) = e
  BY AbsentEntry DEF Settled

\* FetchCoins changes no answer and marks entries truly.
LEMMA FetchedIsTrue ==
    ASSUME NEW cache \in Caches, NEW base \in Maps, NEW S, NEW held
    PROVE  /\ Fetched(cache, S, base, held) \in Caches
           /\ Layered(cache, base) => Layered(Fetched(cache, S, base, held), base)
           /\ Through(Fetched(cache, S, base, held), base) = Through(cache, base)
<1> DEFINE new == Fetched(cache, S, base, held)
           got(t) == [coins |-> base[t], flags |-> IF base[t] = Null THEN {"FRESH"} ELSE {}]
<1>1. ASSUME NEW t \in TxId
      PROVE  /\ new[t] = cache[t] \/ (cache[t] = Absent /\ new[t] = got(t))
             /\ got(t) \in Entry /\ got(t) # Absent
             /\ IsFresh(got(t)) => base[t] = Null
             /\ got(t).coins = base[t]
  <2>1. new[t] = cache[t] \/ (cache[t] = Absent /\ new[t] = got(t))
    BY <1>1 DEF Fetched, Holds
  <2>2. got(t) \in Entry
    BY <1>1 DEF Entry, Maps
  <2> QED BY <2>1, <2>2, AbsentEntry DEF IsFresh
<1>2. new = [t \in TxId |-> new[t]]
  BY DEF Fetched
<1> HIDE DEF new
<1>3. new \in Caches
  <2>1. \A t \in TxId : new[t] \in Entry \cup {Absent}
    BY <1>1 DEF Caches
  <2> QED BY <1>2, <2>1 DEF Caches
<1>4. Layered(cache, base) => Layered(new, base)
  BY <1>1 DEF Layered, Holds
<1>5. Through(new, base) = Through(cache, base)
  <2>1. ASSUME NEW t \in TxId
        PROVE  (IF Holds(new, t) THEN new[t].coins ELSE base[t])
                 = (IF Holds(cache, t) THEN cache[t].coins ELSE base[t])
    BY <1>1, <2>1 DEF Holds
  <2> QED BY <2>1 DEF Through
<1> QED BY <1>3, <1>4, <1>5 DEF new

\* ModifyCoins changes one answer.
LEMMA ModifiedIsTrue ==
    ASSUME NEW cache \in Caches, NEW base \in Maps, NEW t \in TxId, NEW c \in CCoins
    PROVE  /\ Modified(cache, t, base, c) \in Caches
           /\ Layered(cache, base) =>
                /\ Layered(Modified(cache, t, base, c), base)
                /\ Through(Modified(cache, t, base, c), base)
                     = [Through(cache, base) EXCEPT ![t] = c]
<1> DEFINE flags == CASE Holds(cache, t) -> cache[t].flags
                      [] ~Holds(cache, t) /\ base[t] = Null -> {"FRESH"}
                      [] OTHER -> {}
           e == [coins |-> c, flags |-> flags \cup {"DIRTY"}]
           new == Modified(cache, t, base, c)
<1>1. flags \in SUBSET {"DIRTY", "FRESH"}
  BY AbsentEntry DEF Caches, Entry, Holds
<1>2. e \in Entry /\ IsDirty(e) /\ e.coins = c /\ (IsFresh(e) <=> "FRESH" \in flags)
  BY <1>1 DEF Entry, IsDirty, IsFresh
<1>3. new = [cache EXCEPT ![t] = Settled(e)]
  BY DEF Modified
<1>4. Layered(cache, base) /\ "FRESH" \in flags => base[t] = Null
  BY DEF Layered, IsFresh
<1> HIDE DEF flags, e, new
<1>5. new \in Caches
  BY <1>2, <1>3, SettledEntry DEF Caches
<1>6. ASSUME Layered(cache, base)
      PROVE  Layered(new, base)
  BY <1>2, <1>3, <1>4, <1>6, SettledEntry DEF Layered, Caches, Holds
<1>7. ASSUME Layered(cache, base)
      PROVE  Through(new, base) = [Through(cache, base) EXCEPT ![t] = c]
  <2>1. ASSUME NEW s \in TxId, s # t
        PROVE  new[s] = cache[s]
    BY <1>3, <2>1 DEF Caches
  <2>2. new[t] = Settled(e)
    BY <1>3 DEF Caches
  <2>3. (IF Holds(new, t) THEN new[t].coins ELSE base[t]) = c
    BY <2>2, <1>2, <1>4, <1>7, SettledEntry DEF Holds
  <2> QED BY <2>1, <2>3 DEF Through, Holds
<1> QED BY <1>5, <1>6, <1>7 DEF new

\* ModifyNewCoins does the same where the base has nothing.
LEMMA ModifiedNewIsTrue ==
    ASSUME NEW cache \in Caches, NEW base \in Maps, NEW t \in TxId, NEW c \in CCoins
    PROVE  /\ ModifiedNew(cache, t, c) \in Caches
           /\ Layered(cache, base) /\ base[t] = Null =>
                /\ Layered(ModifiedNew(cache, t, c), base)
                /\ Through(ModifiedNew(cache, t, c), base)
                     = [Through(cache, base) EXCEPT ![t] = c]
<1> DEFINE e == [coins |-> c, flags |-> {"DIRTY", "FRESH"}]
           new == ModifiedNew(cache, t, c)
<1>2. e \in Entry /\ IsDirty(e) /\ e.coins = c /\ IsFresh(e)
  BY DEF Entry, IsDirty, IsFresh
<1>3. new = [cache EXCEPT ![t] = Settled(e)]
  BY DEF ModifiedNew
<1> HIDE DEF e, new
<1>5. new \in Caches
  BY <1>2, <1>3, SettledEntry DEF Caches
<1>6. ASSUME Layered(cache, base), base[t] = Null
      PROVE  Layered(new, base)
  BY <1>2, <1>3, <1>6, SettledEntry DEF Layered, Caches, Holds
<1>7. ASSUME Layered(cache, base), base[t] = Null
      PROVE  Through(new, base) = [Through(cache, base) EXCEPT ![t] = c]
  <2>1. ASSUME NEW s \in TxId, s # t
        PROVE  new[s] = cache[s]
    BY <1>3, <2>1 DEF Caches
  <2>2. new[t] = Settled(e)
    BY <1>3 DEF Caches
  <2>3. (IF Holds(new, t) THEN new[t].coins ELSE base[t]) = c
    BY <2>2, <1>2, <1>7, SettledEntry DEF Holds
  <2> QED BY <2>1, <2>3 DEF Through, Holds
<1> QED BY <1>5, <1>6, <1>7 DEF new

\* BatchWrite: the parent answers what the child did.
LEMMA BatchWriteIsTrue ==
    ASSUME NEW parent \in Caches, NEW child \in Caches, NEW base \in Maps
    PROVE  /\ BatchWrite(parent, child) \in Caches
           /\ Layered(parent, base) /\ Layered(child, Through(parent, base)) =>
                /\ Layered(BatchWrite(parent, child), base)
                /\ Through(BatchWrite(parent, child), base)
                     = Through(child, Through(parent, base))
<1> DEFINE new == BatchWrite(parent, child)
<1>1. ASSUME NEW t \in TxId
      PROVE  Written(parent[t], child[t]) \in Entry \cup {Absent}
  <2> DEFINE us == parent[t]  it == child[t]
  <2>1. us \in Entry \cup {Absent} /\ it \in Entry \cup {Absent}
    BY <1>1 DEF Caches
  <2>2. IsDirty(it) => it \in Entry
    BY <2>1 DEF IsDirty, Absent
  <2>3. us # Absent /\ IsDirty(it) =>
          [coins |-> it.coins, flags |-> us.flags \cup {"DIRTY"}] \in Entry
    BY <2>1, <2>2 DEF Entry
  <2> HIDE DEF us, it
  <2>4. Written(us, it) \in Entry \cup {Absent}
    BY <2>1, <2>2, <2>3, SettledEntry DEF Written
  <2> QED BY <2>4 DEF us, it
<1>2. new \in Caches
  BY <1>1 DEF BatchWrite, Caches
<1>3. ASSUME NEW t \in TxId, Layered(parent, base), Layered(child, Through(parent, base))
      PROVE  /\ Holds(new, t) => /\ IsFresh(new[t]) => base[t] = Null
                                 /\ ~IsDirty(new[t]) => new[t].coins = base[t]
             /\ (IF Holds(new, t) THEN new[t].coins ELSE base[t])
                  = (IF Holds(child, t) THEN child[t].coins ELSE Through(parent, base)[t])
  <2> DEFINE us == parent[t]  it == child[t]
  <2>1. us \in Entry \cup {Absent} /\ it \in Entry \cup {Absent}
    BY <1>3 DEF Caches
  <2>2. new[t] = Written(us, it)
    BY <1>3 DEF BatchWrite
  <2>3. Through(parent, base)[t] = IF us = Absent THEN base[t] ELSE us.coins
    BY <1>3 DEF Through, Holds
  <2>4. us # Absent => (IsFresh(us) => base[t] = Null) /\ (~IsDirty(us) => us.coins = base[t])
    BY <1>3 DEF Layered, Holds
  <2>5. it # Absent => /\ IsFresh(it) => Through(parent, base)[t] = Null
                       /\ ~IsDirty(it) => it.coins = Through(parent, base)[t]
    BY <1>3 DEF Layered, Holds
  <2>6. IsDirty(it) => it \in Entry /\ it # Absent
    BY <2>1 DEF IsDirty, Absent
  <2> HIDE DEF us, it
  <2>7. CASE ~IsDirty(it)
    <3>1. new[t] = us
      BY <2>2, <2>7 DEF Written
    <3> QED BY <3>1, <2>3, <2>4, <2>5, <2>7 DEF Holds, us, it
  <2>8. CASE IsDirty(it) /\ us = Absent
    <3>1. new[t] = Settled(it)
      BY <2>2, <2>8 DEF Written
    <3> QED BY <3>1, <2>3, <2>5, <2>6, <2>8, SettledEntry DEF Holds, us, it
  <2>9. CASE IsDirty(it) /\ us # Absent /\ IsFresh(us) /\ it.coins = Null
    <3>1. new[t] = Absent
      BY <2>2, <2>9 DEF Written
    <3> QED BY <3>1, <2>4, <2>6, <2>9 DEF Holds, us, it
  <2>10. CASE IsDirty(it) /\ us # Absent /\ ~(IsFresh(us) /\ it.coins = Null)
    <3> DEFINE e == [coins |-> it.coins, flags |-> us.flags \cup {"DIRTY"}]
    <3>1. new[t] = e
      BY <2>2, <2>10 DEF Written
    <3>2. IsDirty(e) /\ (IsFresh(e) <=> IsFresh(us)) /\ e.coins = it.coins
      BY DEF IsDirty, IsFresh
    <3>3. e # Absent
      BY DEF Absent
    <3> HIDE DEF e
    <3> QED BY <3>1, <3>2, <3>3, <2>4, <2>6, <2>10 DEF Holds, us, it
  <2> QED BY <2>7, <2>8, <2>9, <2>10
<1>4. ASSUME Layered(parent, base), Layered(child, Through(parent, base))
      PROVE  Layered(new, base) /\ Through(new, base) = Through(child, Through(parent, base))
  <2> HIDE DEF new
  <2>1. Layered(new, base)
    BY <1>3, <1>4 DEF Layered
  <2>2. Through(new, base) = Through(child, Through(parent, base))
    BY <1>3, <1>4 DEF Through
  <2> QED BY <2>1, <2>2
<1> QED BY <1>2, <1>4

-----------------------------------------------------------------------------
(* The operations on the state.                                            *)

LEMMA Views ==
    /\ TipCoins = Through(tip, db) /\ ViewCoins = Through(view, TipCoins)
    /\ TypeOK => TipCoins \in Maps /\ ViewCoins \in Maps
<1>1. TipCoins = Through(tip, db) /\ ViewCoins = Through(view, TipCoins)
  BY DEF TipCoins, ViewCoins, Through
<1>2. ASSUME NEW cache \in Caches, NEW base \in Maps
      PROVE  Through(cache, base) \in Maps
  BY <1>2 DEF Through, Caches, Maps, Entry, Holds
<1>3. TypeOK => tip \in Caches /\ view \in Caches /\ db \in Maps
  BY DEF TypeOK, Caches, Maps
<1> QED BY <1>1, <1>2, <1>3

LEMMA TipReadsKeep ==
    ASSUME TypeOK, UNCHANGED db, NEW S, TipReads(S)
    PROVE  /\ tip' \in Caches /\ TipCoins' = TipCoins
           /\ Layered(tip, db) => Layered(tip', db')
<1>1. tip' = Fetched(tip, S, db, InDb)
  BY DEF TipReads
<1>2. tip \in Caches /\ db \in Maps
  BY DEF TypeOK, Caches, Maps
<1>3. TipCoins' = Through(tip', db')
  BY DEF TipCoins, Through
<1> QED BY <1>1, <1>2, <1>3, FetchedIsTrue, Views

LEMMA ViewReadsKeep ==
    ASSUME TypeOK, UNCHANGED db, NEW S, ViewReads(S)
    PROVE  /\ tip' \in Caches /\ view' \in Caches
           /\ TipCoins' = TipCoins /\ ViewCoins' = ViewCoins
           /\ Layered(tip, db) => Layered(tip', db')
           /\ Layered(view, TipCoins) => Layered(view', TipCoins')
<1>1. tip' \in Caches /\ TipCoins' = TipCoins /\ (Layered(tip, db) => Layered(tip', db'))
  <2>1. PICK R : TipReads(R)
    BY DEF ViewReads
  <2> QED BY <2>1, TipReadsKeep
<1>2. view' = Fetched(view, S, TipCoins, InTip')
  BY DEF ViewReads
<1>3. view \in Caches /\ TipCoins \in Maps
  BY Views DEF TypeOK, Caches
<1>4. ViewCoins' = Through(view', TipCoins')
  BY DEF ViewCoins, Through
<1> QED BY <1>1, <1>2, <1>3, <1>4, FetchedIsTrue, Views

LEMMA ViewModifiesOne ==
    ASSUME TypeOK, UNCHANGED db, NEW t \in TxId, NEW c \in CCoins, ViewModifies(t, c)
    PROVE  /\ tip' \in Caches /\ view' \in Caches /\ TipCoins' = TipCoins
           /\ Layered(tip, db) => Layered(tip', db')
           /\ Layered(view, TipCoins) => /\ Layered(view', TipCoins')
                                         /\ ViewCoins' = [ViewCoins EXCEPT ![t] = c]
<1>1. tip' \in Caches /\ TipCoins' = TipCoins /\ (Layered(tip, db) => Layered(tip', db'))
  <2>1. PICK R : TipReads(R)
    BY DEF ViewModifies
  <2> QED BY <2>1, TipReadsKeep
<1>2. view' = Modified(view, t, TipCoins, c)
  BY DEF ViewModifies
<1>3. view \in Caches /\ TipCoins \in Maps
  BY Views DEF TypeOK, Caches
<1>4. ViewCoins' = Through(view', TipCoins')
  BY DEF ViewCoins, Through
<1> QED BY <1>1, <1>2, <1>3, <1>4, ModifiedIsTrue, Views

\* An emptied view answers as pcoinsTip does.
LEMMA EmptyView ==
    ASSUME TypeOK, view' = NoEntries, TipCoins' \in Maps
    PROVE  view' \in Caches /\ ViewCoins' = TipCoins' /\ Layered(view', TipCoins')
<1>1. ViewCoins' = Through(view', TipCoins')
  BY DEF ViewCoins, Through
<1> QED BY <1>1, NothingCached

LEMMA FlushViewCommits ==
    ASSUME TypeOK, UNCHANGED db, NEW best, FlushView(best)
    PROVE  /\ tip' \in Caches /\ view' \in Caches
           /\ Layered(tip, db) /\ Layered(view, TipCoins) =>
                /\ Layered(tip', db') /\ Layered(view', TipCoins')
                /\ TipCoins' = ViewCoins /\ ViewCoins' = ViewCoins
<1>1. tip' = BatchWrite(tip, view) /\ view' = NoEntries
  BY DEF FlushView
<1>2. view \in Caches /\ tip \in Caches /\ db \in Maps
  BY DEF TypeOK, Caches, Maps
<1>3. TipCoins' = Through(tip', db')
  BY DEF TipCoins, Through
<1>4. tip' \in Caches /\ (Layered(tip, db) /\ Layered(view, TipCoins) =>
                            Layered(tip', db') /\ TipCoins' = ViewCoins)
  BY <1>1, <1>2, <1>3, BatchWriteIsTrue, Views
<1> QED BY <1>1, <1>4, EmptyView, NothingCached, Views

LEMMA DropViewDiscards ==
    ASSUME TypeOK, TipCoins' = TipCoins, DropView
    PROVE  view' \in Caches /\ ViewCoins' = TipCoins /\ Layered(view', TipCoins')
  BY EmptyView, Views DEF DropView

LEMMA CoinsTypes ==
    /\ \A c \in CCoins : \A n : Spend(c, n) \in CCoins
    /\ \A t \in TxId, h \in Nat : FromTx(t, h) \in CCoins /\ FromTx(t, h) # Null
    /\ \A c \in CCoins, n \in Nat \ {0}, h \in Nat : Restored(c, n, h) \in CCoins
<1> USE BlocksAssumption
<1>1. \A c \in CCoins : \A n : Spend(c, n) \in CCoins
  BY NullCoins DEF Spend, Cleanup, CCoins
<1>2. ASSUME NEW t \in TxId, NEW h \in Nat
      PROVE  FromTx(t, h) \in CCoins /\ FromTx(t, h) # Null
  <2>1. NOuts[t] \in Nat \ {0}
    OBVIOUS
  <2>2. 1..NOuts[t] \subseteq Nat \ {0} /\ 1 \in 1..NOuts[t]
    BY <2>1
  <2> QED BY <2>2 DEF FromTx, CCoins, Null
<1>3. \A c \in CCoins, n \in Nat \ {0}, h \in Nat : Restored(c, n, h) \in CCoins
  BY DEF Restored, CCoins
<1> QED BY <1>1, <1>2, <1>3

-----------------------------------------------------------------------------
(* Types: the block in work, and undo data that fits its block.            *)

UndoFits(b, u) ==
    /\ b # Genesis /\ u \in Seq(Seq(Nat)) /\ Len(u) = Len(Txs[b])
    /\ \A i \in 1..Len(Txs[b]) : Len(u[i]) = Len(Inputs[Txs[b][i]])

ConnectingOK ==
    job.kind \in {"check", "spend"} =>
        /\ job.block # Genesis /\ Parent[job.block] = tipBest
        /\ job.i \in 1..(Len(Txs[job.block]) + 1)
        /\ Len(job.undo) = Len(Txs[job.block])
        /\ \A i \in 1..Len(Txs[job.block]) :
             /\ i < job.i => Len(job.undo[i]) = Len(Inputs[Txs[job.block][i]])
             /\ i > job.i => job.undo[i] = <<>>

CheckingOK == job.kind = "check" => job.j = 1 /\ (MoreTxs => job.undo[job.i] = <<>>)

SpendingOK ==
    job.kind = "spend" =>
        MoreTxs /\ job.j \in 1..(Len(CurInputs) + 1) /\ Len(job.undo[job.i]) = job.j - 1

DisconnectingOK ==
    /\ job.kind \in {"remove", "restore"} =>
         job.block = tipBest /\ UndoFits(job.block, job.undo) /\ job.i \in 0..Len(Txs[job.block])
    /\ job.kind = "restore" => job.i > 0 /\ job.j \in 1..Len(CurInputs)

IdleOK == job.kind = "idle" => job = Idle /\ view = NoEntries

UndoOK ==
    /\ \A b \in DOMAIN undo : UndoFits(b, undo[b])
    /\ \A b \in DOMAIN index : UndoFits(b, index[b])

TypeInv ==
    /\ TypeOK /\ ConnectingOK /\ CheckingOK /\ SpendingOK /\ DisconnectingOK /\ IdleOK /\ UndoOK

JobInv == ConnectingOK /\ CheckingOK /\ SpendingOK /\ DisconnectingOK /\ IdleOK

LEMMA IdleJob == Idle \in Job /\ Idle.kind = "idle"
  BY BlocksAssumption DEF Idle, Job

LEMMA IdleJobInv ==
    ASSUME job' = Idle, view' = NoEntries
    PROVE  JobInv' /\ job' \in Job
  BY IdleJob DEF JobInv, ConnectingOK, CheckingOK, SpendingOK, DisconnectingOK, IdleOK

LEMMA TypeInit == Init => TypeInv
<1> SUFFICES ASSUME Init PROVE TypeInv
  OBVIOUS
<1> USE DEF Init
<1>1. TypeOK
  BY BlocksAssumption, NullCoins, NothingCached, IdleJob DEF TypeOK, Caches
<1>2. JobInv
  BY IdleJob DEF JobInv, ConnectingOK, CheckingOK, SpendingOK, DisconnectingOK, IdleOK
<1>3. UndoOK
  BY DEF UndoOK
<1> QED BY <1>1, <1>2, <1>3 DEF TypeInv, JobInv

\* What the current transaction and its inputs are.
LEMMA Current ==
    ASSUME TypeOK, job.i \in 1..Len(Txs[job.block])
    PROVE  /\ CurTx \in TxId /\ CurInputs \in Seq(TxId \X (Nat \ {0}))
           /\ \A j \in 1..Len(CurInputs) :
                CurInputs[j][1] \in TxId /\ CurInputs[j][2] \in Nat \ {0}
<1>1. job.block \in Block
  BY DEF TypeOK, Job
<1>2. Txs[job.block] \in Seq(TxId)
  BY <1>1, BlocksAssumption
<1>3. CurTx \in TxId
  BY <1>2 DEF CurTx
<1>4. CurInputs \in Seq(TxId \X (Nat \ {0}))
  BY <1>3, BlocksAssumption DEF CurInputs
<1> QED BY <1>3, <1>4

LEMMA TypeConnectTip ==
    ASSUME TypeInv, NEW b \in Block, ConnectTip(b)
    PROVE  TypeInv'
<1> USE DEF ConnectTip, chainState
<1> DEFINE u == [i \in 1..Len(Txs[b]) |-> <<>>]
<1>0. Txs[b] \in Seq(TxId) /\ Len(Txs[b]) \in Nat
  BY BlocksAssumption
<1>1. u \in Seq(Seq(Nat)) /\ Len(u) = Len(Txs[b]) /\ \A i \in 1..Len(Txs[b]) : u[i] = <<>>
  BY <1>0
<1> HIDE DEF u
<1>2. job' = [kind |-> "check", block |-> b, i |-> 1, j |-> 1, clean |-> TRUE, undo |-> u]
  BY DEF u
<1>3. TypeOK'
  BY <1>1, <1>2 DEF TypeInv, TypeOK, Job
<1>4. JobInv'
  BY <1>0, <1>1, <1>2 DEF JobInv, ConnectingOK, CheckingOK, SpendingOK, DisconnectingOK, IdleOK, MoreTxs
<1>5. UndoOK'
  BY DEF TypeInv, UndoOK
<1> QED BY <1>3, <1>4, <1>5 DEF TypeInv, JobInv

LEMMA TypeCheckTx ==
    ASSUME TypeInv, CheckTx
    PROVE  TypeInv'
<1> USE DEF CheckTx, chainState
<1>1. UndoOK' /\ db' = db
  BY DEF TypeInv, UndoOK
<1>2. TypeOK
  BY DEF TypeInv
<1>3. CASE \E S : ViewReads(S) /\ job' = [job EXCEPT !.kind = "spend"]
  <2>1. tip' \in Caches /\ view' \in Caches
    BY <1>1, <1>2, <1>3, ViewReadsKeep
  <2>2. job.i \in 1..Len(Txs[job.block])
    BY DEF TypeInv, ConnectingOK, MoreTxs
  <2>3. CurInputs \in Seq(TxId \X (Nat \ {0}))
    BY <1>2, <2>2, Current
  <2>4. TypeOK'
    BY <2>1, <1>2, <1>3 DEF TypeOK, Caches, Job
  <2>5. CurInputs' = CurInputs /\ MoreTxs' = MoreTxs /\ job'.undo = job.undo /\ job'.block = job.block
        /\ job'.i = job.i /\ job'.j = job.j /\ job'.kind = "spend" /\ tipBest' = tipBest
    BY <1>2, <1>3 DEF CurInputs, CurTx, MoreTxs, TypeOK, Job
  <2>6. Len(CurInputs) \in Nat
    BY <2>3
  <2>7. JobInv'
    BY <2>5, <2>6 DEF TypeInv, JobInv, ConnectingOK, CheckingOK, SpendingOK, DisconnectingOK, IdleOK
  <2> QED BY <2>4, <2>7, <1>1 DEF TypeInv, JobInv
<1>4. CASE \E S : TipReads(S) /\ DropView
  <2>1. tip' \in Caches /\ view' \in Caches
    BY <1>1, <1>2, <1>4, TipReadsKeep, NothingCached DEF DropView
  <2>2. JobInv' /\ job' \in Job
    BY <1>4, IdleJobInv DEF DropView
  <2>3. TypeOK'
    BY <2>1, <2>2, <1>2 DEF TypeOK, Caches
  <2> QED BY <2>2, <2>3, <1>1 DEF TypeInv, JobInv
<1> QED BY <1>3, <1>4

LEMMA Appended ==
    ASSUME NEW s \in Seq(Nat), NEW x \in Nat
    PROVE  Append(s, x) \in Seq(Nat) /\ Len(Append(s, x)) = Len(s) + 1
  OBVIOUS

LEMMA Replaced ==
    ASSUME NEW S, NEW s \in Seq(S), NEW i \in 1..Len(s), NEW x \in S
    PROVE  /\ [s EXCEPT ![i] = x] \in Seq(S) /\ Len([s EXCEPT ![i] = x]) = Len(s)
           /\ [s EXCEPT ![i] = x][i] = x
           /\ \A k \in 1..Len(s) : k # i => [s EXCEPT ![i] = x][k] = s[k]
  OBVIOUS

LEMMA MoreUndo ==
    ASSUME NEW s \in Seq(Seq(Nat)), NEW i \in 1..Len(s), NEW x \in Nat
    PROVE  LET u == [s EXCEPT ![i] = Append(@, x)]
           IN  /\ u \in Seq(Seq(Nat)) /\ Len(u) = Len(s)
               /\ \A k \in 1..Len(s) : k # i => u[k] = s[k]
               /\ Len(u[i]) = Len(s[i]) + 1
<1>1. s[i] \in Seq(Nat)
  OBVIOUS
<1>2. Append(s[i], x) \in Seq(Nat) /\ Len(Append(s[i], x)) = Len(s[i]) + 1
  BY <1>1, Appended
<1> QED BY <1>2, Replaced

LEMMA TypeSpendInput ==
    ASSUME TypeInv, SpendInput
    PROVE  TypeInv'
<1> DEFINE t == CurInputs[job.j][1]  n == CurInputs[job.j][2]  c == ViewCoins[t]
           u == [job.undo EXCEPT ![job.i] = Append(@, UndoFor(c, n))]
<1>1. UndoOK' /\ db' = db /\ dbBest' = dbBest /\ abort' = abort /\ tipBest' = tipBest
      /\ undo' = undo /\ index' = index
  BY DEF TypeInv, UndoOK, SpendInput, chainState
<1>2. TypeOK /\ job \in Job
  BY DEF TypeInv, TypeOK
<1>3. job.i \in 1..Len(Txs[job.block]) /\ job.j \in 1..Len(CurInputs) /\ job.j \in Nat
      /\ Len(job.undo) = Len(Txs[job.block]) /\ Len(job.undo[job.i]) = job.j - 1
  <2>1. job.i \in 1..Len(Txs[job.block])
    BY DEF TypeInv, ConnectingOK, SpendingOK, MoreTxs, SpendInput
  <2>2. Len(CurInputs) \in Nat
    BY <1>2, <2>1, Current
  <2> QED BY <2>1, <2>2 DEF TypeInv, ConnectingOK, SpendingOK, SpendInput
<1>4. t \in TxId /\ n \in Nat \ {0} /\ Len(CurInputs) \in Nat
  BY <1>2, <1>3, Current
<1>5. c \in CCoins
  BY <1>2, <1>4, Views DEF Maps
<1>6. UndoFor(c, n) \in Nat
  BY <1>5 DEF UndoFor, CCoins
<1>7. job.undo \in Seq(Seq(Nat)) /\ job.i \in 1..Len(job.undo)
  BY <1>2, <1>3 DEF Job
<1>8. /\ u \in Seq(Seq(Nat)) /\ Len(u) = Len(job.undo)
      /\ \A i \in 1..Len(job.undo) : i # job.i => u[i] = job.undo[i]
      /\ Len(u[job.i]) = job.j
  <2>1. /\ u \in Seq(Seq(Nat)) /\ Len(u) = Len(job.undo)
        /\ \A i \in 1..Len(job.undo) : i # job.i => u[i] = job.undo[i]
        /\ Len(u[job.i]) = Len(job.undo[job.i]) + 1
    <3> HIDE DEF c, n, t
    <3> QED BY <1>6, <1>7, MoreUndo
  <2> QED BY <2>1, <1>3
<1>9. job' = [job EXCEPT !.j = job.j + 1, !.undo = u] /\ ViewModifies(t, Spend(c, n))
  BY <1>2 DEF Job, SpendInput
<1> HIDE DEF u, t, n, c
<1>10. tip' \in Caches /\ view' \in Caches
  BY <1>1, <1>2, <1>4, <1>5, <1>9, CoinsTypes, ViewModifiesOne
<1>11. job' \in Job /\ job'.kind = "spend" /\ job'.block = job.block /\ job'.i = job.i
       /\ job'.j = job.j + 1 /\ job'.undo = u
  <2>1. job.kind = "spend"
    BY DEF SpendInput
  <2>2. job.j + 1 \in Nat
    BY <1>3
  <2>3. u \in Seq(Seq(Nat)) /\ job' = [job EXCEPT !.j = job.j + 1, !.undo = u]
    BY <1>8, <1>9
  <2> HIDE DEF u
  <2> QED BY <2>1, <2>2, <2>3, <1>2 DEF Job
<1>12. TypeOK'
  BY <1>1, <1>2, <1>10, <1>11 DEF TypeOK, Caches
<1>13. CurInputs' = CurInputs /\ (MoreTxs <=> MoreTxs')
  BY <1>11 DEF CurInputs, CurTx, MoreTxs
<1>14. JobInv'
  <2>1. job.kind = "spend"
    BY DEF SpendInput
  <2>2. ASSUME NEW i \in 1..Len(Txs[job.block])
        PROVE  /\ i < job.i => Len(u[i]) = Len(Inputs[Txs[job.block][i]])
               /\ i > job.i => u[i] = <<>>
    <3>1. i # job.i => u[i] = job.undo[i]
      BY <1>3, <1>8, <2>2
    <3> QED BY <3>1, <2>1, <2>2 DEF TypeInv, ConnectingOK
  <2>3. ConnectingOK'
    BY <2>1, <2>2, <1>1, <1>3, <1>8, <1>11 DEF TypeInv, ConnectingOK
  <2>4. SpendingOK'
    <3>1. job'.j - 1 = job.j /\ job'.j \in 1..(Len(CurInputs) + 1)
      BY <1>3, <1>4, <1>11
    <3>2. Len((job'.undo)[job'.i]) = job.j
      BY <1>8, <1>11
    <3> QED BY <3>1, <3>2, <2>1, <1>13 DEF TypeInv, SpendingOK
  <2> QED BY <2>3, <2>4, <1>11 DEF JobInv, CheckingOK, DisconnectingOK, IdleOK
<1> QED BY <1>1, <1>12, <1>14 DEF TypeInv, JobInv

LEMMA TypeAddOutputs ==
    ASSUME TypeInv, AddOutputs
    PROVE  TypeInv'
<1> DEFINE c == FromTx(CurTx, Height[job.block])
<1>1. UndoOK' /\ db' = db /\ dbBest' = dbBest /\ abort' = abort /\ tipBest' = tipBest
      /\ undo' = undo /\ index' = index
  BY DEF TypeInv, UndoOK, AddOutputs, chainState
<1>2. TypeOK /\ job \in Job /\ job.kind = "spend"
  BY DEF TypeInv, TypeOK, AddOutputs
<1>3. job.i \in 1..Len(Txs[job.block]) /\ job.i \in Nat
  BY <1>2 DEF TypeInv, ConnectingOK, SpendingOK, MoreTxs, Job
<1>4. CurTx \in TxId /\ Len(CurInputs) \in Nat
  BY <1>2, <1>3, Current
<1>5. c \in CCoins
  BY <1>2, <1>4, CoinsTypes, BlocksAssumption DEF Job
<1>6. tip' \in Caches /\ view' \in Caches
  <2>1. CASE ViewModifies(CurTx, c)
    BY <2>1, <1>1, <1>2, <1>4, <1>5, ViewModifiesOne
  <2>2. CASE view' = ModifiedNew(view, CurTx, c) /\ UNCHANGED <<tip, usage>>
    BY <2>2, <1>2, <1>4, <1>5, ModifiedNewIsTrue, Views DEF TypeOK, Caches
  <2> QED BY <2>1, <2>2 DEF AddOutputs
<1>7. job' = [job EXCEPT !.kind = "check", !.i = job.i + 1, !.j = 1]
  BY DEF AddOutputs
<1>8. job' \in Job /\ job'.kind = "check" /\ job'.block = job.block /\ job'.i = job.i + 1
      /\ job'.j = 1 /\ job'.undo = job.undo
  <2>1. job.i + 1 \in Nat
    BY <1>3
  <2> HIDE DEF c
  <2> QED BY <2>1, <1>2, <1>7 DEF Job
<1>9. TypeOK'
  BY <1>1, <1>2, <1>6, <1>8 DEF TypeOK, Caches
<1>10. Len(job.undo[job.i]) = Len(CurInputs)
  BY <1>2, <1>4 DEF AddOutputs, TypeInv, SpendingOK
<1>11. JobInv'
  <2>1. Len(Txs[job.block]) \in Nat
    BY <1>2, BlocksAssumption DEF Job
  <2>2. ASSUME NEW i \in 1..Len(Txs[job.block])
        PROVE  /\ i < job.i + 1 => Len(job.undo[i]) = Len(Inputs[Txs[job.block][i]])
               /\ i > job.i => job.undo[i] = <<>>
    <3>1. /\ i < job.i => Len(job.undo[i]) = Len(Inputs[Txs[job.block][i]])
          /\ i > job.i => job.undo[i] = <<>>
      BY <1>2, <2>2 DEF TypeInv, ConnectingOK
    <3>2. i = job.i => Len(job.undo[i]) = Len(Inputs[Txs[job.block][i]])
      BY <1>10 DEF CurInputs, CurTx
    <3>3. i < job.i + 1 => i < job.i \/ i = job.i
      BY <1>3, <2>1
    <3> QED BY <3>1, <3>2, <3>3, Zenon
  <2>3. ConnectingOK'
    BY <2>1, <2>2, <1>1, <1>2, <1>3, <1>8 DEF TypeInv, ConnectingOK
  <2>4. CheckingOK'
    BY <2>1, <2>2, <1>3, <1>8 DEF CheckingOK, MoreTxs
  <2> QED BY <2>3, <2>4, <1>8 DEF JobInv, SpendingOK, DisconnectingOK, IdleOK
<1> QED BY <1>1, <1>9, <1>11 DEF TypeInv, JobInv

LEMMA TypeRefuseBlock ==
    ASSUME TypeInv, RefuseBlock
    PROVE  TypeInv'
<1> USE DEF RefuseBlock, DropView, chainState
<1>1. JobInv' /\ job' \in Job
  BY IdleJobInv
<1>2. UndoOK'
  BY DEF TypeInv, UndoOK
<1>3. TypeOK'
  BY <1>1, NothingCached DEF TypeInv, TypeOK, Caches
<1> QED BY <1>1, <1>2, <1>3 DEF TypeInv, JobInv

LEMMA TypeConnected ==
    ASSUME TypeInv, Connected
    PROVE  TypeInv'
<1>1. TypeOK /\ job \in Job /\ job.kind = "check" /\ ~MoreTxs
  BY DEF TypeInv, TypeOK, Connected
<1>2. db' = db /\ dbBest' = dbBest /\ abort' = abort /\ index' = index /\ tipBest' = job.block
      /\ job' = Idle /\ view' = NoEntries
  BY DEF Connected, FlushView, chainState
<1>3. tip' \in Caches /\ view' \in Caches
  BY <1>1, <1>2, FlushViewCommits DEF Connected
<1>4. JobInv' /\ job' \in Job
  BY <1>2, IdleJobInv
<1>5. UndoFits(job.block, job.undo)
  <2>1. Len(Txs[job.block]) \in Nat /\ job.i \in Nat
    BY <1>1, BlocksAssumption DEF Job
  <2>2. job.i > Len(Txs[job.block])
    BY <1>1, <2>1 DEF MoreTxs
  <2> QED BY <1>1, <2>1, <2>2 DEF TypeInv, ConnectingOK, UndoFits, Job
<1>6. undo' = [b \in DOMAIN undo \cup {job.block} |->
                    IF b \in DOMAIN undo THEN undo[b] ELSE job.undo]
  BY DEF Connected
<1>7. UndoOK' /\ DOMAIN undo' \subseteq Block
  BY <1>1, <1>2, <1>5, <1>6 DEF TypeInv, UndoOK, TypeOK, Job
<1>8. TypeOK'
  BY <1>1, <1>2, <1>3, <1>4, <1>7 DEF TypeOK, Caches, Job
<1> QED BY <1>4, <1>7, <1>8 DEF TypeInv, JobInv

LEMMA TypeDisconnectTip ==
    ASSUME TypeInv, DisconnectTip
    PROVE  TypeInv'
<1>1. TypeOK /\ tipBest \in Block /\ UndoFits(tipBest, undo[tipBest])
  BY DEF TypeInv, TypeOK, UndoOK, DisconnectTip
<1>2. job' = [kind |-> "remove", block |-> tipBest, i |-> Len(Txs[tipBest]), j |-> 0,
              undo |-> undo[tipBest], clean |-> TRUE]
  BY DEF DisconnectTip
<1>3. UNCHANGED <<view, tip, tipBest, undo, db, dbBest, index, abort>>
  BY DEF DisconnectTip, chainState
<1>4. Len(Txs[tipBest]) \in Nat /\ undo[tipBest] \in Seq(Seq(Nat))
  BY <1>1, BlocksAssumption DEF UndoFits
<1>5. job' \in Job
  BY <1>1, <1>2, <1>4 DEF Job
<1>6. TypeOK'
  BY <1>1, <1>3, <1>5 DEF TypeOK
<1>7. JobInv'
  BY <1>1, <1>2, <1>3, <1>4 DEF JobInv, ConnectingOK, CheckingOK, SpendingOK, DisconnectingOK, IdleOK
<1>8. UndoOK'
  BY <1>3 DEF TypeInv, UndoOK
<1> QED BY <1>6, <1>7, <1>8 DEF TypeInv, JobInv

LEMMA TypeRemoveOutputs ==
    ASSUME TypeInv, RemoveOutputs
    PROVE  TypeInv'
<1>1. TypeOK /\ job \in Job /\ job.kind = "remove" /\ job.i \in 1..Len(Txs[job.block]) /\ job.i \in Nat
  BY DEF TypeInv, TypeOK, RemoveOutputs, DisconnectingOK, Job
<1>2. UNCHANGED <<tipBest, undo, db, dbBest, index, abort>> /\ ViewModifies(CurTx, Null)
  BY DEF RemoveOutputs, chainState
<1>3. CurTx \in TxId /\ CurInputs \in Seq(TxId \X (Nat \ {0}))
  BY <1>1, Current
<1>4. tip' \in Caches /\ view' \in Caches
  BY <1>1, <1>2, <1>3, NullCoins, ViewModifiesOne
<1>5. UndoOK'
  BY <1>2 DEF TypeInv, UndoOK
<1>6. PICK clean \in BOOLEAN :
         \/ job' = [job EXCEPT !.clean = clean, !.kind = "restore", !.j = Len(CurInputs)]
              /\ CurInputs # <<>>
         \/ job' = [job EXCEPT !.clean = clean, !.i = job.i - 1]
  <2> DEFINE clean == job.clean /\ ViewCoins[CurTx] = FromTx(CurTx, Height[job.block])
  <2>1. clean \in BOOLEAN
    OBVIOUS
  <2> QED BY <2>1 DEF RemoveOutputs
<1>7. UndoFits(job.block, job.undo) /\ job.block = tipBest
  BY <1>1 DEF TypeInv, DisconnectingOK
<1>8. CASE job' = [job EXCEPT !.clean = clean, !.kind = "restore", !.j = Len(CurInputs)]
             /\ CurInputs # <<>>
  <2>1. Len(CurInputs) \in Nat \ {0}
    BY <1>3, <1>8
  <2>2. job' \in Job /\ job'.kind = "restore" /\ job'.block = job.block /\ job'.i = job.i
        /\ job'.j = Len(CurInputs) /\ job'.undo = job.undo
    BY <1>1, <1>8, <2>1 DEF Job
  <2>3. CurInputs' = CurInputs
    BY <2>2 DEF CurInputs, CurTx
  <2>4. JobInv'
    BY <1>1, <1>2, <1>7, <2>1, <2>2, <2>3
       DEF JobInv, ConnectingOK, CheckingOK, SpendingOK, DisconnectingOK, IdleOK
  <2>5. TypeOK'
    BY <1>1, <1>2, <1>4, <2>2 DEF TypeOK, Caches
  <2> QED BY <1>5, <2>4, <2>5 DEF TypeInv, JobInv
<1>9. CASE job' = [job EXCEPT !.clean = clean, !.i = job.i - 1]
  <2>1. job.i - 1 \in 0..Len(Txs[job.block]) /\ job.i - 1 \in Nat
    BY <1>1
  <2>2. job' \in Job /\ job'.kind = "remove" /\ job'.block = job.block /\ job'.i = job.i - 1
        /\ job'.undo = job.undo
    BY <1>1, <1>9, <2>1 DEF Job
  <2>3. JobInv'
    BY <1>1, <1>2, <1>7, <2>1, <2>2
       DEF JobInv, ConnectingOK, CheckingOK, SpendingOK, DisconnectingOK, IdleOK
  <2>4. TypeOK'
    BY <1>1, <1>2, <1>4, <2>2 DEF TypeOK, Caches
  <2> QED BY <1>5, <2>3, <2>4 DEF TypeInv, JobInv
<1> QED BY <1>6, <1>8, <1>9

LEMMA TypeRestoreInput ==
    ASSUME TypeInv, RestoreInput
    PROVE  TypeInv'
<1> DEFINE t == CurInputs[job.j][1]  n == CurInputs[job.j][2]  h == job.undo[job.i][job.j]
           c == Restored(ViewCoins[t], n, h)
<1>1. TypeOK /\ job \in Job /\ job.kind = "restore" /\ job.i \in 1..Len(Txs[job.block])
      /\ job.i \in Nat /\ job.j \in Nat /\ job.j \in 1..Len(CurInputs)
  BY DEF TypeInv, TypeOK, RestoreInput, DisconnectingOK, Job
<1>2. UNCHANGED <<tipBest, undo, db, dbBest, index, abort>> /\ ViewModifies(t, c)
  BY DEF RestoreInput, chainState
<1>3. t \in TxId /\ n \in Nat \ {0}
  BY <1>1, Current
<1>4. UndoFits(job.block, job.undo) /\ job.block = tipBest
  BY <1>1 DEF TypeInv, DisconnectingOK
<1>5. h \in Nat
  <2>1. job.undo[job.i] \in Seq(Nat) /\ Len(job.undo[job.i]) = Len(CurInputs)
    BY <1>1, <1>4 DEF UndoFits, CurInputs, CurTx
  <2> QED BY <2>1, <1>1
<1>6. c \in CCoins
  <2>1. ViewCoins[t] \in CCoins
    BY <1>1, <1>3, Views DEF Maps
  <2> QED BY <2>1, <1>3, <1>5, CoinsTypes
<1>7. tip' \in Caches /\ view' \in Caches
  <2> HIDE DEF t, c
  <2> QED BY <1>1, <1>2, <1>3, <1>6, ViewModifiesOne
<1>8. UndoOK'
  BY <1>2 DEF TypeInv, UndoOK
<1>9. PICK clean \in BOOLEAN :
         \/ job' = [job EXCEPT !.clean = clean, !.j = job.j - 1] /\ job.j > 1
         \/ job' = [job EXCEPT !.clean = clean, !.kind = "remove", !.i = job.i - 1, !.j = 0]
  <2> DEFINE clean == job.clean /\ RestoresCleanly(ViewCoins[t], n, h)
  <2>1. clean \in BOOLEAN
    OBVIOUS
  <2> QED BY <2>1 DEF RestoreInput
<1> HIDE DEF t, n, h, c
<1>10. CASE job' = [job EXCEPT !.clean = clean, !.j = job.j - 1] /\ job.j > 1
  <2>1. job.j - 1 \in 1..Len(CurInputs) /\ job.j - 1 \in Nat
    BY <1>1, <1>10
  <2>2. job' \in Job /\ job'.kind = "restore" /\ job'.block = job.block /\ job'.i = job.i
        /\ job'.j = job.j - 1 /\ job'.undo = job.undo
    BY <1>1, <1>10, <2>1 DEF Job
  <2>3. CurInputs' = CurInputs
    BY <2>2 DEF CurInputs, CurTx
  <2>4. JobInv'
    BY <1>1, <1>2, <1>4, <2>1, <2>2, <2>3
       DEF JobInv, ConnectingOK, CheckingOK, SpendingOK, DisconnectingOK, IdleOK
  <2>5. TypeOK'
    BY <1>1, <1>2, <1>7, <2>2 DEF TypeOK, Caches
  <2> QED BY <1>8, <2>4, <2>5 DEF TypeInv, JobInv
<1>11. CASE job' = [job EXCEPT !.clean = clean, !.kind = "remove", !.i = job.i - 1, !.j = 0]
  <2>1. job.i - 1 \in 0..Len(Txs[job.block]) /\ job.i - 1 \in Nat
    BY <1>1
  <2>2. job' \in Job /\ job'.kind = "remove" /\ job'.block = job.block /\ job'.i = job.i - 1
        /\ job'.undo = job.undo
    BY <1>1, <1>11, <2>1 DEF Job
  <2>3. JobInv'
    BY <1>1, <1>2, <1>4, <2>1, <2>2
       DEF JobInv, ConnectingOK, CheckingOK, SpendingOK, DisconnectingOK, IdleOK
  <2>4. TypeOK'
    BY <1>1, <1>2, <1>7, <2>2 DEF TypeOK, Caches
  <2> QED BY <1>8, <2>3, <2>4 DEF TypeInv, JobInv
<1> QED BY <1>9, <1>10, <1>11

LEMMA TypeDisconnected ==
    ASSUME TypeInv, Disconnected
    PROVE  TypeInv'
<1>1. TypeOK /\ job \in Job /\ job.kind = "remove"
  BY DEF TypeInv, TypeOK, Disconnected
<1>2. UNCHANGED <<undo, db, dbBest, index, abort>> /\ job' = Idle /\ view' = NoEntries
  BY DEF Disconnected, chainState, FlushView, DropView
<1>3. JobInv' /\ job' \in Job
  BY <1>2, IdleJobInv
<1>4. tip' \in Caches /\ tipBest' \in Block
  <2>1. CASE FlushView(Parent[job.block])
    <3>1. job.block \in Block \ {Genesis}
      BY <1>1 DEF TypeInv, DisconnectingOK, UndoFits, Job
    <3> QED BY <2>1, <3>1, <1>1, <1>2, FlushViewCommits, BlocksAssumption DEF FlushView
  <2>2. CASE UNCHANGED <<tip, tipBest, usage>>
    BY <2>2, <1>1 DEF TypeOK, Caches
  <2> QED BY <2>1, <2>2 DEF Disconnected
<1>5. UndoOK'
  BY <1>2 DEF TypeInv, UndoOK
<1>6. TypeOK'
  BY <1>1, <1>2, <1>3, <1>4, NothingCached DEF TypeOK, Caches
<1> QED BY <1>3, <1>5, <1>6 DEF TypeInv, JobInv

LEMMA TypeFlushStateToDisk ==
    ASSUME TypeInv, FlushStateToDisk
    PROVE  TypeInv'
<1>1. TypeOK
  BY DEF TypeInv
<1>2. UNCHANGED <<view, tipBest, undo, job>> /\ tip' = NoEntries /\ index' = undo
  BY DEF FlushStateToDisk, IndexWritten
<1>3. db' \in [TxId -> CCoins] /\ dbBest' \in Block /\ abort' \in {"never", "once", "now"}
  <2>1. CASE CoinsWritten /\ UNCHANGED abort
    <3>1. Saved \in [TxId -> CCoins]
      BY <1>1 DEF Saved, TypeOK, Entry, IsDirty, Absent
    <3> QED BY <1>1, <2>1, <3>1 DEF CoinsWritten, TypeOK
  <2>2. CASE abort' = "now" /\ UNCHANGED <<db, dbBest, usage>>
    BY <1>1, <2>2 DEF TypeOK
  <2> QED BY <2>1, <2>2 DEF FlushStateToDisk
<1>4. TypeOK'
  BY <1>1, <1>2, <1>3, NothingCached DEF TypeOK, Caches
<1>5. UndoOK'
  BY <1>2 DEF TypeInv, UndoOK
<1>6. JobInv'
  BY <1>2 DEF TypeInv, JobInv, ConnectingOK, CheckingOK, SpendingOK, DisconnectingOK, IdleOK,
              MoreTxs, CurInputs, CurTx
<1> QED BY <1>4, <1>5, <1>6 DEF TypeInv, JobInv

\* The steps that leave the block in work alone.
LEMMA TypeOtherSteps ==
    ASSUME TypeInv, UNCHANGED <<view, tipBest, job, db, dbBest, undo, abort>>,
           tip' \in Caches, index' \in {index, undo}
    PROVE  TypeInv'
<1>1. TypeOK'
  BY DEF TypeInv, TypeOK, Caches
<1>2. UndoOK'
  BY DEF TypeInv, UndoOK
<1>3. JobInv'
  BY DEF TypeInv, JobInv, ConnectingOK, CheckingOK, SpendingOK, DisconnectingOK, IdleOK,
         MoreTxs, CurInputs, CurTx
<1> QED BY <1>1, <1>2, <1>3 DEF TypeInv, JobInv

LEMMA TypeRestart ==
    ASSUME TypeInv, Restart
    PROVE  TypeInv'
<1> USE DEF Restart
<1>1. JobInv' /\ job' \in Job
  BY IdleJobInv
<1>2. UndoOK'
  BY DEF TypeInv, UndoOK
<1>3. TypeOK'
  BY <1>1, NothingCached DEF TypeInv, TypeOK, Caches
<1> QED BY <1>1, <1>2, <1>3 DEF TypeInv, JobInv

LEMMA TypeStep == TypeInv /\ [Next]_vars => TypeInv'
<1> SUFFICES ASSUME TypeInv, [Next]_vars PROVE TypeInv'
  OBVIOUS
<1>1. ASSUME NEW b \in Block, ConnectTip(b) PROVE TypeInv'
  BY <1>1, TypeConnectTip
<1>2. CASE WriteIndex
  BY <1>2, TypeOtherSteps DEF WriteIndex, IndexWritten, TypeInv, TypeOK, Caches
<1>3. ASSUME NEW t \in TxId, ReadTip(t) PROVE TypeInv'
  <2>1. tip' \in Caches
    BY <1>3, TipReadsKeep DEF ReadTip, TypeInv, chainState
  <2> QED BY <1>3, <2>1, TypeOtherSteps DEF ReadTip, chainState
<1>4. ASSUME NEW t \in TxId, Uncache(t) PROVE TypeInv'
  <2>1. tip' \in Caches
    BY <1>4 DEF Uncache, TypeInv, TypeOK, Caches
  <2> QED BY <1>4, <2>1, TypeOtherSteps DEF Uncache, chainState
<1>5. CASE UNCHANGED vars
  BY <1>5, TypeOtherSteps DEF vars, TypeInv, TypeOK, Caches
<1> QED BY <1>1, <1>2, <1>3, <1>4, <1>5, TypeCheckTx, TypeSpendInput, TypeAddOutputs,
           TypeRefuseBlock, TypeConnected, TypeDisconnectTip, TypeRemoveOutputs,
           TypeRestoreInput, TypeDisconnected, TypeFlushStateToDisk, TypeRestart DEF Next

\* The views, the database, the undo data and the block in work keep their
\* types; in particular ApplyTxInUndo finds undo data for every input it
\* restores, for any block tree.
THEOREM TypeCorrect == Spec => []TypeOK
<1>1. TypeInv => TypeOK
  BY DEF TypeInv
<1> QED BY <1>1, TypeInit, TypeStep, PTL DEF Spec

-----------------------------------------------------------------------------
(* The inductive invariant, for as long as no write has failed.            *)

\* The transactions of a block before its i-th.
Before(b, i) == {Txs[b][k] : k \in {x \in 1..Len(Txs[b]) : x < i}}

\* Only transactions of S have unspent outputs.
Only(coins, S) == \A t \in TxId : coins[t] # Null => t \in S

\* The first transactions of b, up to n, spend from the chain below or from
\* earlier transactions of the block.
Connectable(b, n) ==
    \A i \in 1..Len(Txs[b]) : i < n =>
        \A j \in 1..Len(Inputs[Txs[b][i]]) :
            Inputs[Txs[b][i]][j][1] \in Below[Parent[b]] \cup Before(b, i)

LayersOK == Layered(tip, db) /\ Layered(view, TipCoins)

KnownOK == Only(TipCoins, Below[tipBest]) /\ Only(db, Below[dbBest])

ConnectsOK ==
    job.kind \in {"check", "spend"} =>
        /\ Only(ViewCoins, Below[tipBest] \cup Before(job.block, job.i))
        /\ Connectable(job.block, job.i)

SpendsOK ==
    job.kind = "spend" =>
        \A k \in 1..Len(CurInputs) :
            /\ CurInputs[k][1] \in Below[tipBest] \cup Before(job.block, job.i)
            /\ k >= job.j => CurInputs[k][2] \in ViewCoins[CurInputs[k][1]].outs

RemovesOK ==
    /\ job.kind = "remove" =>
         Only(ViewCoins, Below[Parent[job.block]] \cup Before(job.block, job.i + 1))
    /\ job.kind = "restore" =>
         Only(ViewCoins, Below[Parent[job.block]] \cup Before(job.block, job.i))
    /\ job.kind \in {"remove", "restore"} => Connectable(job.block, Len(Txs[job.block]) + 1)

WalksOK ==
    /\ \A b \in DOMAIN undo : Connectable(b, Len(Txs[b]) + 1)
    /\ \A b \in DOMAIN index : Connectable(b, Len(Txs[b]) + 1)

Good == LayersOK /\ KnownOK /\ ConnectsOK /\ SpendsOK /\ RemovesOK /\ WalksOK

Inv == TypeInv /\ (abort = "never" => Good)

LEMMA BlockFacts ==
    ASSUME NEW b \in Block \ {Genesis}
    PROVE  /\ Len(Txs[b]) \in Nat /\ Before(b, 1) = {}
           /\ Below[b] = Below[Parent[b]] \cup Before(b, Len(Txs[b]) + 1)
           /\ \A i \in 1..Len(Txs[b]) :
                /\ Before(b, i + 1) = Before(b, i) \cup {Txs[b][i]}
                /\ Txs[b][i] \notin Below[Parent[b]] \cup Before(b, i)
<1> DEFINE txs == {Txs[b][i] : i \in 1..Len(Txs[b])}
<1>1. Txs[b] \in Seq(TxId) /\ Len(Txs[b]) \in Nat
  BY BlocksAssumption
<1>2. Below[b] = Below[Parent[b]] \cup txs /\ Below[Parent[b]] \cap txs = {}
      /\ \A i, k \in 1..Len(Txs[b]) : Txs[b][i] = Txs[b][k] => i = k
  BY BlocksAssumption
<1>3. Before(b, 1) = {}
  BY <1>1 DEF Before
<1>4. Before(b, Len(Txs[b]) + 1) = txs
  BY <1>1 DEF Before
<1>5. ASSUME NEW i \in 1..Len(Txs[b])
      PROVE  /\ Before(b, i + 1) = Before(b, i) \cup {Txs[b][i]}
             /\ Txs[b][i] \notin Below[Parent[b]] \cup Before(b, i)
  <2>1. Before(b, i + 1) = Before(b, i) \cup {Txs[b][i]}
    BY <1>1, <1>5 DEF Before
  <2>2. Txs[b][i] \notin Below[Parent[b]]
    BY <1>2, <1>5
  <2>3. Txs[b][i] \notin Before(b, i)
    BY <1>1, <1>2, <1>5 DEF Before
  <2> QED BY <2>1, <2>2, <2>3
<1> QED BY <1>1, <1>2, <1>3, <1>4, <1>5

-----------------------------------------------------------------------------
(* Steps of UTXOSet.                                                       *)

FlatStep == [Flat!Next]_(Flat!vars)

LEMMA FlatStutter ==
    ASSUME ViewCoins' = ViewCoins, TipCoins' = TipCoins, db' = db
    PROVE  FlatStep
  BY DEF FlatStep, Flat!vars

LEMMA FlatModify ==
    ASSUME TypeOK, NEW t \in TxId, NEW c \in CCoins, ViewCoins' = [ViewCoins EXCEPT ![t] = c],
           TipCoins' = TipCoins, db' = db
    PROVE  FlatStep
<1>1. ViewCoins \in Maps
  BY Views
<1>2. ViewCoins'[t] = c
  BY <1>1 DEF Maps
<1>3. Flat!Modify(t)
  BY <1>2 DEF Flat!Modify
<1> QED BY <1>3 DEF FlatStep, Flat!Next

LEMMA FlatCommit ==
    ASSUME TipCoins' = ViewCoins, ViewCoins' = ViewCoins, db' = db
    PROVE  FlatStep
  BY DEF FlatStep, Flat!Next, Flat!Commit

LEMMA FlatDiscard ==
    ASSUME TipCoins' = TipCoins, ViewCoins' = TipCoins, db' = db
    PROVE  FlatStep
  BY DEF FlatStep, Flat!Next, Flat!Discard

LEMMA FlatSave ==
    ASSUME TipCoins' = TipCoins, ViewCoins = TipCoins, ViewCoins' = ViewCoins, db' = TipCoins
    PROVE  FlatStep
  BY DEF FlatStep, Flat!Next, Flat!Save

LEMMA FlatLose ==
    ASSUME TipCoins' = db, ViewCoins' = db, db' = db
    PROVE  FlatStep
  BY DEF FlatStep, Flat!Next, Flat!Lose

-----------------------------------------------------------------------------
(* The steps under the invariant.                                          *)

\* A step that ends or leaves alone the block in work.
LEMMA GoodIdle ==
    ASSUME job' = Idle, LayersOK', KnownOK', WalksOK'
    PROVE  Good'
  BY IdleJob DEF Good, ConnectsOK, SpendsOK, RemovesOK

LEMMA GoodInit == Init => Good
<1> SUFFICES ASSUME Init PROVE Good
  OBVIOUS
<1>1. db \in Maps /\ db = [t \in TxId |-> Null] /\ tip = NoEntries /\ view = NoEntries
  BY NullCoins DEF Init, Maps
<1>2. TipCoins = db /\ ViewCoins = db
  BY <1>1, Views, NothingCached
<1>3. LayersOK
  BY <1>1, <1>2, NothingCached DEF LayersOK
<1>4. KnownOK
  BY <1>1, <1>2 DEF KnownOK, Only
<1> QED BY <1>3, <1>4, IdleJob DEF Init, Good, ConnectsOK, SpendsOK, RemovesOK, WalksOK

LEMMA StepConnectTip ==
    ASSUME TypeInv, Good, NEW b \in Block, ConnectTip(b)
    PROVE  Good' /\ FlatStep
<1>1. UNCHANGED <<view, tip, tipBest, undo, db, dbBest, index>> /\ job = Idle
      /\ b # Genesis /\ Parent[b] = tipBest
      /\ job'.kind = "check" /\ job'.block = b /\ job'.i = 1
  BY DEF ConnectTip, chainState
<1>2. TipCoins' = TipCoins /\ ViewCoins' = ViewCoins
  BY <1>1 DEF TipCoins, ViewCoins
<1>3. ViewCoins = TipCoins
  BY <1>1, IdleJob, NothingCached, Views DEF TypeInv, IdleOK
<1>4. LayersOK' /\ KnownOK' /\ WalksOK'
  BY <1>1, <1>2 DEF Good, LayersOK, KnownOK, WalksOK
<1>5. ConnectsOK'
  BY <1>1, <1>2, <1>3, BlockFacts DEF Good, KnownOK, ConnectsOK, Only, Connectable
<1> QED BY <1>1, <1>2, <1>4, <1>5, FlatStutter DEF Good, SpendsOK, RemovesOK

LEMMA StepCheckTx ==
    ASSUME TypeInv, Good, CheckTx
    PROVE  Good' /\ FlatStep
<1> DEFINE missing == {j \in 1..Len(CurInputs) :
                         CurInputs[j][2] \notin ViewCoins[CurInputs[j][1]].outs}
<1>1. UNCHANGED <<tipBest, undo, db, dbBest, index>> /\ job.kind = "check" /\ MoreTxs /\ TypeOK
  BY DEF CheckTx, chainState, TypeInv
<1>2. WalksOK'
  BY <1>1 DEF Good, WalksOK
<1>3. CASE missing = {} /\ (\E S : ViewReads(S)) /\ job' = [job EXCEPT !.kind = "spend"]
  <2>1. TipCoins' = TipCoins /\ ViewCoins' = ViewCoins /\ LayersOK'
    BY <1>1, <1>3, ViewReadsKeep DEF Good, LayersOK
  <2>2. KnownOK'
    BY <1>1, <2>1 DEF Good, KnownOK
  <2>3. job'.kind = "spend" /\ job'.block = job.block /\ job'.i = job.i /\ job'.j = job.j
    BY <1>1, <1>3 DEF TypeOK, Job
  <2>4. ConnectsOK'
    BY <1>1, <2>1, <2>3 DEF Good, ConnectsOK
  <2>5. CurInputs' = CurInputs
    BY <2>3 DEF CurInputs, CurTx
  <2>6. ASSUME NEW k \in 1..Len(CurInputs)
        PROVE  /\ CurInputs[k][1] \in Below[tipBest] \cup Before(job.block, job.i)
               /\ CurInputs[k][2] \in ViewCoins[CurInputs[k][1]].outs
    <3>1. CurInputs[k][2] \in ViewCoins[CurInputs[k][1]].outs
      BY <1>3, <2>6
    <3>2. ViewCoins[CurInputs[k][1]] # Null
      BY <3>1 DEF Null
    <3>3. CurInputs[k][1] \in TxId
      BY <1>1, <2>6, Current DEF TypeInv, ConnectingOK, MoreTxs
    <3> QED BY <1>1, <3>1, <3>2, <3>3 DEF Good, ConnectsOK, Only
  <2>7. SpendsOK'
    BY <1>1, <2>1, <2>3, <2>5, <2>6 DEF SpendsOK
  <2> QED BY <1>1, <1>2, <2>1, <2>2, <2>3, <2>4, <2>7, FlatStutter DEF Good, RemovesOK
<1>4. CASE (\E S : TipReads(S)) /\ DropView
  <2>1. TipCoins' = TipCoins /\ Layered(tip', db')
    BY <1>1, <1>4, TipReadsKeep DEF Good, LayersOK
  <2>2. ViewCoins' = TipCoins /\ LayersOK'
    BY <1>1, <1>4, <2>1, DropViewDiscards DEF LayersOK
  <2>3. KnownOK'
    BY <1>1, <2>1 DEF Good, KnownOK
  <2> QED BY <1>1, <1>2, <1>4, <2>1, <2>2, <2>3, GoodIdle, FlatDiscard DEF DropView
<1> QED BY <1>3, <1>4 DEF CheckTx

LEMMA StepSpendInput ==
    ASSUME TypeInv, Good, SpendInput
    PROVE  Good' /\ FlatStep
<1> DEFINE t == CurInputs[job.j][1]  n == CurInputs[job.j][2]  c == ViewCoins[t]
<1>1. UNCHANGED <<tipBest, undo, db, dbBest, index>> /\ job.kind = "spend" /\ TypeOK
      /\ job \in Job /\ job.block \in Block
  BY DEF SpendInput, chainState, TypeInv, TypeOK, Job
<1>2. job.i \in 1..Len(Txs[job.block]) /\ job.block # Genesis
  BY <1>1 DEF TypeInv, ConnectingOK, SpendingOK, MoreTxs
<1>3. CurTx \in TxId /\ Len(CurInputs) \in Nat /\ CurInputs = Inputs[CurTx]
      /\ \A k \in 1..Len(CurInputs) : CurInputs[k] \in TxId \X (Nat \ {0})
  BY <1>1, <1>2, Current DEF CurInputs
<1>4. job.j \in 1..Len(CurInputs)
  BY <1>1, <1>3 DEF SpendInput, TypeInv, SpendingOK
<1>5. t \in TxId /\ n \in c.outs /\ ViewModifies(t, Spend(c, n))
  BY <1>3, <1>4 DEF SpendInput
<1>6. c \in CCoins /\ Spend(c, n) \in CCoins
  BY <1>1, <1>5, Views, CoinsTypes DEF Maps
<1>7. job'.kind = "spend" /\ job'.block = job.block /\ job'.i = job.i /\ job'.j = job.j + 1
  BY <1>1 DEF SpendInput, Job
<1>8. CurInputs' = CurInputs
  BY <1>7 DEF CurInputs, CurTx
<1>9. \A k \in 1..Len(CurInputs) : k # job.j => CurInputs[k] # <<t, n>>
  <2>1. CurInputs[job.j] = <<t, n>>
    BY <1>3, <1>4
  <2>2. \A j, k \in 1..Len(CurInputs) : CurInputs[j] = CurInputs[k] => j = k
    BY <1>3, BlocksAssumption
  <2> QED BY <2>1, <2>2, <1>4
<1> HIDE DEF t, n, c
<1>10. TipCoins' = TipCoins /\ LayersOK' /\ ViewCoins' = [ViewCoins EXCEPT ![t] = Spend(c, n)]
  BY <1>1, <1>5, <1>6, ViewModifiesOne DEF Good, LayersOK
<1>11. ViewCoins \in Maps
  BY <1>1, Views
<1>12. KnownOK' /\ WalksOK'
  BY <1>1, <1>10 DEF Good, KnownOK, WalksOK
<1>13. ConnectsOK'
  <2>1. c # Null
    BY <1>5 DEF Null
  <2>2. Only(ViewCoins', Below[tipBest] \cup Before(job.block, job.i))
    BY <1>1, <1>5, <1>10, <1>11, <2>1 DEF Good, ConnectsOK, Only, Maps, c
  <2> QED BY <1>1, <1>7, <2>2 DEF Good, ConnectsOK
<1>14. SpendsOK'
  <2>1. ASSUME NEW k \in 1..Len(CurInputs), k >= job.j + 1
        PROVE  CurInputs[k][2] \in ViewCoins'[CurInputs[k][1]].outs
    <3>1. CurInputs[k] # <<t, n>> /\ k >= job.j
      BY <1>3, <1>4, <1>9, <2>1
    <3>2. CurInputs[k][2] \in ViewCoins[CurInputs[k][1]].outs
      BY <1>1, <2>1, <3>1 DEF Good, SpendsOK
    <3>3. CurInputs[k][1] \in TxId /\ CurInputs[k] = <<CurInputs[k][1], CurInputs[k][2]>>
      BY <1>3, <2>1
    <3>4. CASE CurInputs[k][1] # t
      BY <1>10, <1>11, <3>2, <3>3, <3>4 DEF Maps
    <3>5. CASE CurInputs[k][1] = t
      <4>1. CurInputs[k][2] # n /\ CurInputs[k][2] \in c.outs
        BY <3>1, <3>2, <3>3, <3>5 DEF c
      <4>2. CurInputs[k][2] \in Spend(c, n).outs
        BY <1>6, <4>1 DEF Spend, Cleanup, CCoins
      <4> QED BY <1>10, <1>11, <3>5, <4>2, <1>5 DEF Maps
    <3> QED BY <3>4, <3>5
  <2> QED BY <1>1, <1>7, <1>8, <2>1 DEF Good, SpendsOK
<1>15. FlatStep
  BY <1>1, <1>5, <1>6, <1>10, FlatModify
<1> QED BY <1>7, <1>10, <1>12, <1>13, <1>14, <1>15 DEF Good, RemovesOK

LEMMA StepAddOutputs ==
    ASSUME TypeInv, Good, AddOutputs
    PROVE  Good' /\ FlatStep
<1> DEFINE c == FromTx(CurTx, Height[job.block])
<1>1. UNCHANGED <<tipBest, undo, db, dbBest, index>> /\ job.kind = "spend" /\ TypeOK
      /\ job \in Job /\ job.block \in Block
  BY DEF AddOutputs, chainState, TypeInv, TypeOK, Job
<1>2. job.i \in 1..Len(Txs[job.block]) /\ job.block # Genesis /\ Parent[job.block] = tipBest
  BY <1>1 DEF TypeInv, ConnectingOK, SpendingOK, MoreTxs
<1>3. CurTx \in TxId /\ CurTx = Txs[job.block][job.i]
  BY <1>1, <1>2, Current DEF CurTx
<1>4. c \in CCoins
  BY <1>1, <1>3, CoinsTypes, BlocksAssumption
<1>5. TipCoins[CurTx] = Null
  BY <1>1, <1>2, <1>3, BlockFacts DEF Good, KnownOK, Only
<1>6. TipCoins' = TipCoins /\ LayersOK' /\ ViewCoins' = [ViewCoins EXCEPT ![CurTx] = c]
  <2>1. CASE ViewModifies(CurTx, c)
    BY <2>1, <1>1, <1>3, <1>4, ViewModifiesOne DEF Good, LayersOK
  <2>2. CASE view' = ModifiedNew(view, CurTx, c) /\ UNCHANGED <<tip, usage>>
    <3>1. TipCoins' = TipCoins
      BY <2>2, <1>1 DEF TipCoins
    <3>2. ViewCoins' = Through(view', TipCoins')
      BY DEF ViewCoins, Through
    <3>3. view \in Caches /\ TipCoins \in Maps
      BY <1>1, Views DEF TypeOK, Caches
    <3>4. Layered(view', TipCoins) /\ Through(view', TipCoins) = [ViewCoins EXCEPT ![CurTx] = c]
      <4> HIDE DEF c
      <4> QED BY <2>2, <1>3, <1>4, <1>5, <3>3, ModifiedNewIsTrue, Views DEF Good, LayersOK
    <3> QED BY <2>2, <1>1, <3>1, <3>2, <3>4 DEF Good, LayersOK
  <2> QED BY <2>1, <2>2 DEF AddOutputs
<1> HIDE DEF c
<1>7. ViewCoins \in Maps
  BY <1>1, Views
<1>8. job'.kind = "check" /\ job'.block = job.block /\ job'.i = job.i + 1
  BY <1>1 DEF AddOutputs, Job
<1>9. KnownOK' /\ WalksOK'
  BY <1>1, <1>6 DEF Good, KnownOK, WalksOK
<1>10. Only(ViewCoins', Below[tipBest] \cup Before(job.block, job.i + 1))
  BY <1>1, <1>2, <1>3, <1>6, <1>7, BlockFacts DEF Good, ConnectsOK, Only, Maps
<1>11. Connectable(job.block, job.i + 1)
  <2>1. \A i \in 1..Len(Txs[job.block]) : i < job.i + 1 => i < job.i \/ i = job.i
    BY <1>1, <1>2 DEF Job
  <2>2. \A k \in 1..Len(CurInputs) : CurInputs[k][1] \in Below[tipBest] \cup Before(job.block, job.i)
    BY <1>1 DEF Good, SpendsOK
  <2> QED BY <1>1, <1>2, <2>1, <2>2 DEF Good, ConnectsOK, Connectable, CurInputs, CurTx
<1>12. ConnectsOK'
  BY <1>1, <1>8, <1>10, <1>11 DEF ConnectsOK
<1>13. FlatStep
  BY <1>1, <1>3, <1>4, <1>6, FlatModify
<1> QED BY <1>6, <1>8, <1>9, <1>12, <1>13 DEF Good, SpendsOK, RemovesOK

LEMMA StepRefuseBlock ==
    ASSUME TypeInv, Good, RefuseBlock
    PROVE  Good' /\ FlatStep
<1>1. UNCHANGED <<tip, tipBest, undo, db, dbBest, index>> /\ DropView /\ TypeOK
  BY DEF RefuseBlock, chainState, TypeInv
<1>2. TipCoins' = TipCoins
  BY <1>1 DEF TipCoins
<1>3. ViewCoins' = TipCoins /\ LayersOK'
  BY <1>1, <1>2, DropViewDiscards DEF Good, LayersOK
<1>4. KnownOK' /\ WalksOK'
  BY <1>1, <1>2 DEF Good, KnownOK, WalksOK
<1> QED BY <1>1, <1>2, <1>3, <1>4, GoodIdle, FlatDiscard DEF DropView

LEMMA StepConnected ==
    ASSUME TypeInv, Good, Connected
    PROVE  Good' /\ FlatStep
<1>1. UNCHANGED <<db, dbBest, index>> /\ job.kind = "check" /\ ~MoreTxs /\ TypeOK
      /\ FlushView(job.block) /\ job \in Job /\ job.block \in Block
  BY DEF Connected, chainState, TypeInv, TypeOK, Job
<1>2. TipCoins' = ViewCoins /\ ViewCoins' = ViewCoins /\ LayersOK'
  BY <1>1, FlushViewCommits DEF Good, LayersOK
<1>3. tipBest' = job.block /\ job' = Idle
  BY <1>1 DEF FlushView
<1>4. job.block # Genesis /\ Parent[job.block] = tipBest /\ job.i = Len(Txs[job.block]) + 1
  <2>1. job.block # Genesis /\ Parent[job.block] = tipBest
        /\ job.i \in 1..(Len(Txs[job.block]) + 1)
    BY <1>1 DEF TypeInv, ConnectingOK
  <2>2. Len(Txs[job.block]) \in Nat
    BY <1>1, BlocksAssumption
  <2> QED BY <1>1, <2>1, <2>2 DEF MoreTxs
<1>5. Only(ViewCoins, Below[job.block]) /\ Connectable(job.block, Len(Txs[job.block]) + 1)
  BY <1>1, <1>4, BlockFacts DEF Good, ConnectsOK
<1>6. KnownOK'
  BY <1>1, <1>2, <1>3, <1>5 DEF Good, KnownOK
<1>7. WalksOK'
  <2>1. undo' = [b \in DOMAIN undo \cup {job.block} |->
                    IF b \in DOMAIN undo THEN undo[b] ELSE job.undo]
    BY DEF Connected
  <2> QED BY <1>1, <1>5, <2>1 DEF Good, WalksOK
<1> QED BY <1>1, <1>2, <1>3, <1>6, <1>7, GoodIdle, FlatCommit

LEMMA StepDisconnectTip ==
    ASSUME TypeInv, Good, DisconnectTip
    PROVE  Good' /\ FlatStep
<1>1. UNCHANGED <<view, tip, tipBest, undo, db, dbBest, index>> /\ job = Idle
      /\ tipBest \in Block \ {Genesis} /\ tipBest \in DOMAIN undo
      /\ job'.kind = "remove" /\ job'.block = tipBest /\ job'.i = Len(Txs[tipBest])
  BY DEF DisconnectTip, chainState, TypeInv, TypeOK
<1>2. TipCoins' = TipCoins /\ ViewCoins' = ViewCoins
  BY <1>1 DEF TipCoins, ViewCoins
<1>3. ViewCoins = TipCoins
  BY <1>1, IdleJob, NothingCached, Views DEF TypeInv, IdleOK
<1>4. LayersOK' /\ KnownOK' /\ WalksOK'
  BY <1>1, <1>2 DEF Good, LayersOK, KnownOK, WalksOK
<1>5. RemovesOK'
  <2>1. Only(ViewCoins, Below[Parent[tipBest]] \cup Before(tipBest, Len(Txs[tipBest]) + 1))
    BY <1>1, <1>3, BlockFacts DEF Good, KnownOK
  <2>2. Connectable(tipBest, Len(Txs[tipBest]) + 1)
    BY <1>1 DEF Good, WalksOK
  <2> QED BY <1>1, <1>2, <2>1, <2>2 DEF RemovesOK
<1> QED BY <1>1, <1>2, <1>4, <1>5, FlatStutter DEF Good, ConnectsOK, SpendsOK

LEMMA StepRemoveOutputs ==
    ASSUME TypeInv, Good, RemoveOutputs
    PROVE  Good' /\ FlatStep
<1>1. UNCHANGED <<tipBest, undo, db, dbBest, index>> /\ job.kind = "remove" /\ TypeOK
      /\ job \in Job /\ job.i \in Nat /\ job.block \in Block \ {Genesis} /\ ViewModifies(CurTx, Null)
  BY DEF RemoveOutputs, chainState, TypeInv, TypeOK, Job, DisconnectingOK, UndoFits
<1>2. job.i \in 1..Len(Txs[job.block])
  BY <1>1 DEF TypeInv, DisconnectingOK, RemoveOutputs
<1>3. CurTx \in TxId /\ CurTx = Txs[job.block][job.i]
  BY <1>1, <1>2, Current DEF CurTx
<1>4. TipCoins' = TipCoins /\ LayersOK' /\ ViewCoins' = [ViewCoins EXCEPT ![CurTx] = Null]
  BY <1>1, <1>3, NullCoins, ViewModifiesOne DEF Good, LayersOK
<1>5. ViewCoins \in Maps
  BY <1>1, Views
<1>6. Only(ViewCoins', Below[Parent[job.block]] \cup Before(job.block, job.i))
  BY <1>1, <1>2, <1>3, <1>4, <1>5, BlockFacts DEF Good, RemovesOK, Only, Maps
<1>7. job'.block = job.block /\ \/ job'.kind = "restore" /\ job'.i = job.i
                                \/ job'.kind = "remove" /\ job'.i + 1 = job.i
  <2>1. PICK clean :
           \/ job' = [job EXCEPT !.clean = clean, !.kind = "restore", !.j = Len(CurInputs)]
           \/ job' = [job EXCEPT !.clean = clean, !.i = job.i - 1]
    BY DEF RemoveOutputs
  <2>2. CASE job' = [job EXCEPT !.clean = clean, !.kind = "restore", !.j = Len(CurInputs)]
    BY <1>1, <2>2 DEF Job
  <2>3. CASE job' = [job EXCEPT !.clean = clean, !.i = job.i - 1]
    BY <1>1, <2>3 DEF Job
  <2> QED BY <2>1, <2>2, <2>3
<1>8. KnownOK' /\ WalksOK'
  BY <1>1, <1>4 DEF Good, KnownOK, WalksOK
<1>9. RemovesOK'
  BY <1>1, <1>6, <1>7 DEF Good, RemovesOK
<1>10. FlatStep
  BY <1>1, <1>3, <1>4, NullCoins, FlatModify
<1> QED BY <1>4, <1>7, <1>8, <1>9, <1>10 DEF Good, ConnectsOK, SpendsOK

LEMMA StepRestoreInput ==
    ASSUME TypeInv, Good, RestoreInput
    PROVE  Good' /\ FlatStep
<1> DEFINE t == CurInputs[job.j][1]  n == CurInputs[job.j][2]  h == job.undo[job.i][job.j]
           c == Restored(ViewCoins[t], n, h)
<1>1. UNCHANGED <<tipBest, undo, db, dbBest, index>> /\ job.kind = "restore" /\ TypeOK
      /\ job \in Job /\ job.i \in Nat /\ job.j \in Nat /\ job.block \in Block \ {Genesis}
      /\ ViewModifies(t, c)
  BY DEF RestoreInput, chainState, TypeInv, TypeOK, Job, DisconnectingOK, UndoFits
<1>2. job.i \in 1..Len(Txs[job.block]) /\ job.j \in 1..Len(CurInputs)
      /\ UndoFits(job.block, job.undo)
  BY <1>1 DEF TypeInv, DisconnectingOK
<1>3. t \in TxId /\ n \in Nat \ {0}
  BY <1>1, <1>2, Current
<1>4. h \in Nat
  <2>1. job.undo[job.i] \in Seq(Nat) /\ Len(job.undo[job.i]) = Len(CurInputs)
    BY <1>2 DEF UndoFits, CurInputs, CurTx
  <2> QED BY <2>1, <1>1, <1>2
<1>5. c \in CCoins
  <2>1. ViewCoins[t] \in CCoins
    BY <1>1, <1>3, Views DEF Maps
  <2> QED BY <2>1, <1>3, <1>4, CoinsTypes
<1>6. t \in Below[Parent[job.block]] \cup Before(job.block, job.i)
  <2>1. job.i < Len(Txs[job.block]) + 1
    BY <1>1, <1>2, BlocksAssumption
  <2> QED BY <1>1, <1>2, <2>1 DEF Good, RemovesOK, Connectable, CurInputs, CurTx
<1> HIDE DEF t, n, h, c
<1>7. TipCoins' = TipCoins /\ LayersOK' /\ ViewCoins' = [ViewCoins EXCEPT ![t] = c]
  BY <1>1, <1>3, <1>5, ViewModifiesOne DEF Good, LayersOK
<1>8. ViewCoins \in Maps
  BY <1>1, Views
<1>9. Only(ViewCoins', Below[Parent[job.block]] \cup Before(job.block, job.i))
  BY <1>1, <1>3, <1>6, <1>7, <1>8 DEF Good, RemovesOK, Only, Maps
<1>10. job'.block = job.block /\ \/ job'.kind = "restore" /\ job'.i = job.i
                                 \/ job'.kind = "remove" /\ job'.i + 1 = job.i
  <2>1. PICK clean :
           \/ job' = [job EXCEPT !.clean = clean, !.j = job.j - 1]
           \/ job' = [job EXCEPT !.clean = clean, !.kind = "remove", !.i = job.i - 1, !.j = 0]
    BY DEF RestoreInput
  <2>2. CASE job' = [job EXCEPT !.clean = clean, !.j = job.j - 1]
    BY <1>1, <2>2 DEF Job
  <2>3. CASE job' = [job EXCEPT !.clean = clean, !.kind = "remove", !.i = job.i - 1, !.j = 0]
    BY <1>1, <2>3 DEF Job
  <2> QED BY <2>1, <2>2, <2>3
<1>11. KnownOK' /\ WalksOK'
  BY <1>1, <1>7 DEF Good, KnownOK, WalksOK
<1>12. RemovesOK'
  BY <1>1, <1>9, <1>10 DEF Good, RemovesOK
<1>13. FlatStep
  BY <1>1, <1>3, <1>5, <1>7, FlatModify
<1> QED BY <1>7, <1>10, <1>11, <1>12, <1>13 DEF Good, ConnectsOK, SpendsOK

LEMMA StepDisconnected ==
    ASSUME TypeInv, Good, Disconnected
    PROVE  Good' /\ FlatStep
<1>1. UNCHANGED <<undo, db, dbBest, index>> /\ job.kind = "remove" /\ job.i = 0 /\ TypeOK
      /\ job \in Job /\ job.block \in Block \ {Genesis} /\ job' = Idle
  BY DEF Disconnected, chainState, TypeInv, TypeOK, Job, DisconnectingOK, UndoFits, FlushView, DropView
<1>2. WalksOK'
  BY <1>1 DEF Good, WalksOK
<1>3. CASE FlushView(Parent[job.block])
  <2>1. TipCoins' = ViewCoins /\ ViewCoins' = ViewCoins /\ LayersOK'
    BY <1>1, <1>3, FlushViewCommits DEF Good, LayersOK
  <2>2. tipBest' = Parent[job.block]
    BY <1>3 DEF FlushView
  <2>3. Only(ViewCoins, Below[Parent[job.block]])
    <3>1. job.i + 1 = 1
      BY <1>1
    <3>2. Only(ViewCoins, Below[Parent[job.block]] \cup Before(job.block, 1))
      BY <1>1, <3>1 DEF Good, RemovesOK
    <3>3. Before(job.block, 1) = {}
      BY <1>1, BlockFacts
    <3> QED BY <3>2, <3>3 DEF Only
  <2>4. KnownOK'
    BY <1>1, <2>1, <2>2, <2>3 DEF Good, KnownOK
  <2> QED BY <1>1, <1>2, <2>1, <2>4, GoodIdle, FlatCommit
<1>4. CASE DropView /\ UNCHANGED <<tip, tipBest, usage>>
  <2>1. TipCoins' = TipCoins
    BY <1>1, <1>4 DEF TipCoins
  <2>2. ViewCoins' = TipCoins /\ LayersOK'
    BY <1>1, <1>4, <2>1, DropViewDiscards DEF Good, LayersOK
  <2>3. KnownOK'
    BY <1>1, <1>4, <2>1 DEF Good, KnownOK
  <2> QED BY <1>1, <1>2, <2>1, <2>2, <2>3, GoodIdle, FlatDiscard
<1> QED BY <1>3, <1>4 DEF Disconnected

\* A full flush that works: dirty entries are all that differs from the database.
LEMMA StepFlushStateToDisk ==
    ASSUME TypeInv, Good, FlushStateToDisk, abort' = "never"
    PROVE  Good' /\ FlatStep
<1>1. UNCHANGED <<view, tipBest, undo, job>> /\ tip' = NoEntries /\ index' = undo
      /\ CoinsWritten /\ job = Idle /\ TypeOK
  BY DEF FlushStateToDisk, IndexWritten, TypeInv
<1>2. db' = TipCoins /\ dbBest' = tipBest
  <2>1. ASSUME NEW t \in TxId
        PROVE  (IF IsDirty(tip[t]) THEN tip[t].coins ELSE db[t])
                 = (IF Holds(tip, t) THEN tip[t].coins ELSE db[t])
    <3>1. ~Holds(tip, t) => ~IsDirty(tip[t])
      BY DEF Holds, IsDirty, Absent
    <3>2. Holds(tip, t) /\ ~IsDirty(tip[t]) => tip[t].coins = db[t]
      BY <2>1 DEF Good, LayersOK, Layered
    <3> QED BY <3>1, <3>2
  <2>2. Saved = TipCoins
    BY <2>1 DEF Saved, TipCoins
  <2> QED BY <1>1, <2>2 DEF CoinsWritten
<1>3. TipCoins \in Maps /\ TipCoins' = Through(tip', db') /\ ViewCoins' = Through(view', TipCoins')
  BY <1>1, Views DEF TipCoins, ViewCoins, Through
<1>4. view = NoEntries
  BY <1>1, IdleJob DEF TypeInv, IdleOK
<1>5. TipCoins' = TipCoins /\ ViewCoins = TipCoins /\ ViewCoins' = ViewCoins /\ LayersOK'
  BY <1>1, <1>2, <1>3, <1>4, NothingCached, Views DEF LayersOK
<1>6. KnownOK' /\ WalksOK'
  BY <1>1, <1>2, <1>5 DEF Good, KnownOK, WalksOK
<1> QED BY <1>1, <1>2, <1>5, <1>6, GoodIdle, FlatSave

\* Steps that change what is cached, or the index, and no answer.
LEMMA StepQuiet ==
    ASSUME TypeInv, Good, UNCHANGED <<view, tipBest, job, db, dbBest, undo>>,
           TipCoins' = TipCoins, Layered(tip', db'), index' \in {index, undo}
    PROVE  Good' /\ FlatStep
<1>1. ViewCoins' = ViewCoins
  BY DEF ViewCoins
<1>2. LayersOK' /\ KnownOK' /\ WalksOK'
  BY DEF Good, LayersOK, KnownOK, WalksOK
<1>3. ConnectsOK' /\ SpendsOK' /\ RemovesOK'
  BY <1>1 DEF Good, ConnectsOK, SpendsOK, RemovesOK, CurInputs, CurTx
<1> QED BY <1>1, <1>2, <1>3, FlatStutter DEF Good

LEMMA StepRestart ==
    ASSUME TypeInv, Good, Restart
    PROVE  Good' /\ FlatStep
<1>1. view' = NoEntries /\ job' = Idle /\ tip' = NoEntries /\ tipBest' = dbBest /\ undo' = index
      /\ UNCHANGED <<db, dbBest, index>> /\ db \in Maps
  BY DEF Restart, TypeInv, TypeOK, Maps
<1>2. TipCoins' = Through(tip', db') /\ ViewCoins' = Through(view', TipCoins')
  BY DEF TipCoins, ViewCoins, Through
<1>3. TipCoins' = db /\ ViewCoins' = db /\ LayersOK'
  BY <1>1, <1>2, NothingCached DEF LayersOK
<1>4. KnownOK' /\ WalksOK'
  BY <1>1, <1>3 DEF Good, KnownOK, WalksOK
<1> QED BY <1>1, <1>3, <1>4, GoodIdle, FlatLose

LEMMA GoodStep ==
    ASSUME TypeInv, Good, abort = "never", [Next]_vars, abort' = "never"
    PROVE  Good' /\ FlatStep
<1>1. ASSUME NEW b \in Block, ConnectTip(b) PROVE Good' /\ FlatStep
  BY <1>1, StepConnectTip
<1>2. CASE WriteIndex
  <2>1. UNCHANGED <<view, tip, tipBest, job, db, dbBest, undo>> /\ index' = undo
    BY <1>2 DEF WriteIndex, IndexWritten
  <2>2. TipCoins' = TipCoins /\ Layered(tip', db')
    BY <2>1 DEF TipCoins, Good, LayersOK
  <2> QED BY <2>1, <2>2, StepQuiet
<1>3. ASSUME NEW t \in TxId, ReadTip(t) PROVE Good' /\ FlatStep
  <2>1. UNCHANGED <<view, tipBest, job, db, dbBest, undo, index>> /\ TipReads({t})
    BY <1>3 DEF ReadTip, chainState
  <2>2. TipCoins' = TipCoins /\ Layered(tip', db')
    BY <2>1, TipReadsKeep DEF TypeInv, Good, LayersOK
  <2> QED BY <2>1, <2>2, StepQuiet
<1>4. ASSUME NEW t \in TxId, Uncache(t) PROVE Good' /\ FlatStep
  <2>1. UNCHANGED <<view, tipBest, job, db, dbBest, undo, index>>
        /\ tip' = [tip EXCEPT ![t] = Absent] /\ tip[t].flags = {}
    BY <1>4 DEF Uncache, chainState
  <2>2. tip \in Caches /\ Layered(tip, db)
    BY DEF TypeInv, TypeOK, Caches, Good, LayersOK
  <2>3. tip[t] # Absent /\ tip[t].coins = db[t]
    BY <1>4, <2>1, <2>2 DEF Absent, Layered, Holds, IsDirty
  <2>4. Layered(tip', db')
    BY <2>1, <2>2 DEF Layered, Caches, Holds
  <2>5. \A s \in TxId : (IF Holds(tip', s) THEN tip'[s].coins ELSE db[s])
                          = (IF Holds(tip, s) THEN tip[s].coins ELSE db[s])
    BY <2>1, <2>2, <2>3 DEF Holds, Caches
  <2>6. TipCoins' = TipCoins
    BY <2>1, <2>5 DEF TipCoins
  <2> QED BY <2>1, <2>4, <2>6, StepQuiet
<1>5. CASE UNCHANGED vars
  <2>1. UNCHANGED <<view, tip, tipBest, job, db, dbBest, undo, index>>
    BY <1>5 DEF vars
  <2>2. TipCoins' = TipCoins /\ Layered(tip', db')
    BY <2>1 DEF TipCoins, Good, LayersOK
  <2> QED BY <2>1, <2>2, StepQuiet
<1> QED BY <1>1, <1>2, <1>3, <1>4, <1>5, StepCheckTx, StepSpendInput, StepAddOutputs,
           StepRefuseBlock, StepConnected, StepDisconnectTip, StepRemoveOutputs,
           StepRestoreInput, StepDisconnected, StepFlushStateToDisk, StepRestart DEF Next

\* abort never becomes "never" again.
LEMMA AbortStays == TypeInv /\ [Next]_vars /\ abort' = "never" => abort = "never"
  BY DEF Next, vars, chainState, ConnectTip, CheckTx, SpendInput, AddOutputs, RefuseBlock,
         Connected, DisconnectTip, RemoveOutputs, RestoreInput, Disconnected, WriteIndex,
         FlushStateToDisk, Restart, ReadTip, Uncache

LEMMA InvInit == Init => Inv
  BY TypeInit, GoodInit DEF Inv

LEMMA InvStep == Inv /\ [Next]_vars => Inv'
  BY TypeStep, GoodStep, AbortStays DEF Inv

\* However blocks are connected and disconnected, coins read, dropped and
\* flushed, and wherever the process dies, the coins view, the cache of
\* pcoinsTip and the database behave like three plain maps: a block reaches
\* pcoinsTip as a whole or not at all, a flush writes exactly what pcoinsTip
\* says, and dropping a fresh pruned entry or an unmodified one loses nothing.
THEOREM Refinement == Spec => ImplementsUTXOSet
<1>1. Init => Flat!Init
  <2>1. ASSUME Init PROVE Flat!Init
    <3>1. db \in Maps /\ db = [t \in TxId |-> Null] /\ tip = NoEntries /\ view = NoEntries
      BY <2>1, NullCoins DEF Init, Maps
    <3>2. TipCoins = db /\ ViewCoins = db
      BY <3>1, Views, NothingCached
    <3> QED BY <3>1, <3>2 DEF Flat!Init
  <2> QED BY <2>1
<1>2. Inv /\ [Next]_vars => (abort' # "never" \/ [Flat!Next]_(Flat!vars))
  BY GoodStep, AbortStays DEF Inv, FlatStep
<1>3. Inv /\ [Next]_vars => [abort' # "never" \/ [Flat!Next]_(Flat!vars)]_vars
  BY <1>2
<1> QED BY <1>1, <1>3, InvInit, InvStep, PTL DEF Spec, ImplementsUTXOSet

\* The assertion of UpdateCoins holds while no write has failed: every input
\* that CheckInputs has found is still there when it is spent.
AssertionHolds ==
    abort = "never" /\ job.kind = "spend" /\ job.j <= Len(CurInputs)
        => CurInputs[job.j][2] \in ViewCoins[CurInputs[job.j][1]].outs

\* For any block tree, the assertion in UpdateCoins never fails.
THEOREM InputsStayAvailable == Spec => []AssertionHolds
<1>1. Inv => AssertionHolds
  <2> SUFFICES ASSUME Inv, abort = "never", job.kind = "spend", job.j <= Len(CurInputs)
               PROVE  CurInputs[job.j][2] \in ViewCoins[CurInputs[job.j][1]].outs
    BY DEF AssertionHolds
  <2>1. job.j \in 1..Len(CurInputs) /\ job.j >= job.j
    <3>1. TypeOK /\ job.i \in 1..Len(Txs[job.block]) /\ job.j \in 1..(Len(CurInputs) + 1)
      BY DEF Inv, TypeInv, ConnectingOK, SpendingOK, MoreTxs
    <3>2. Len(CurInputs) \in Nat
      BY <3>1, Current
    <3> QED BY <3>1, <3>2
  <2> QED BY <2>1 DEF Inv, Good, SpendsOK
<1> QED BY <1>1, InvInit, InvStep, PTL DEF Spec

-----------------------------------------------------------------------------
(* Induction and recursion, over intervals and over the block tree.        *)

\* Induction over an interval, from the pigeonhole principle: the successor
\* would map the members below a missing one into themselves, one to one and
\* without reaching 0.
LEMMA IntervalInduction ==
    ASSUME NEW n \in Nat, NEW G \in SUBSET (0..n),
           0 \in G, \A k \in G : k < n => k + 1 \in G
    PROVE  G = 0..n
<1> SUFFICES ASSUME NEW m \in (0..n) \ G PROVE FALSE
  OBVIOUS
<1> DEFINE H == {k \in G : k < m}
           f == [k \in H |-> k + 1]
<1>1. IsFiniteSet(H)
  <2>1. IsFiniteSet(0..n)
    BY FS_Interval
  <2> QED BY <2>1, FS_Subset
<1>2. f \in Injection(H, H)
  <2>1. \A k \in H : k + 1 \in H
    OBVIOUS
  <2>2. f \in [H -> H]
    BY <2>1
  <2>3. \A a, b \in DOMAIN f : f[a] = f[b] => a = b
    OBVIOUS
  <2> HIDE DEF H, f
  <2> QED BY <2>2, <2>3 DEF Injection, IsInjective
<1>3. f \in Surjection(H, H)
  BY <1>1, <1>2, FS_Injection
<1>4. 0 \in H
  OBVIOUS
<1>5. \E k \in H : f[k] = 0
  BY <1>3, <1>4 DEF Surjection
<1> QED BY <1>5

\* A block is reached from Genesis: induction over the tree.
LEMMA TreeInduction ==
    ASSUME NEW G \in SUBSET Block, Genesis \in G,
           \A b \in Block \ {Genesis} : Parent[b] \in G => b \in G
    PROVE  G = Block
<1> SUFFICES ASSUME NEW b \in Block PROVE b \in G
  OBVIOUS
<1> DEFINE n == Height[b]
           K == {k \in 0..n : \A c \in Block : Height[c] <= k => c \in G}
<1>1. n \in Nat /\ \A c \in Block : Height[c] \in Nat
  BY BlocksAssumption
<1>2. \A c \in Block \ {Genesis} : Parent[c] \in Block /\ Height[c] = Height[Parent[c]] + 1
  BY BlocksAssumption
<1>3. 0 \in K
  <2>1. \A c \in Block : Height[c] <= 0 => c = Genesis
    BY <1>1, <1>2
  <2> QED BY <1>1, <2>1
<1>4. \A k \in K : k < n => k + 1 \in K
  <2> SUFFICES ASSUME NEW k \in K, k < n, NEW c \in Block, Height[c] <= k + 1 PROVE c \in G
    BY <1>1
  <2>1. CASE c = Genesis
    BY <2>1
  <2>2. CASE c # Genesis
    <3>1. Parent[c] \in Block /\ Height[Parent[c]] <= k
      BY <1>1, <1>2, <2>2
    <3> QED BY <2>2, <3>1
  <2> QED BY <2>1, <2>2
<1>5. K = 0..n
  <2>1. K \in SUBSET (0..n)
    OBVIOUS
  <2> HIDE DEF K, n
  <2> QED BY <1>1, <1>3, <1>4, <2>1, IntervalInduction
<1>6. n \in K
  BY <1>1, <1>5
<1> QED BY <1>1, <1>6

\* Recursion over an interval has a solution.
Solves(f, S, n, s0, step) ==
    f \in [0..n -> S] /\ f[0] = s0 /\ \A i \in 1..n : f[i] = step[i][f[i - 1]]

LEMMA IntervalRecursion ==
    ASSUME NEW S, NEW n \in Nat, NEW s0 \in S, NEW step,
           \A i \in 1..n : \A s \in S : step[i][s] \in S
    PROVE  \E f : Solves(f, S, n, s0, step)
<1> DEFINE Good1(f, k) == \A i \in 0..n : i <= k => f[i] = IF i = 0 THEN s0 ELSE step[i][f[i - 1]]
           G == {k \in 0..n : \E f \in [0..n -> S] : Good1(f, k)}
<1> HIDE DEF Good1
<1>1. 0 \in G
  <2> DEFINE f == [i \in 0..n |-> s0]
  <2>1. f \in [0..n -> S] /\ Good1(f, 0)
    BY DEF Good1
  <2> HIDE DEF f
  <2> QED BY <2>1
<1>2. \A k \in G : k < n => k + 1 \in G
  <2>0. \A k \in 0..n : k < n => k + 1 \in 0..n
    OBVIOUS
  <2> SUFFICES ASSUME NEW k \in 0..n, k \in G, k < n
               PROVE  \E g \in [0..n -> S] : Good1(g, k + 1)
    BY <2>0, Zenon
  <2>1. PICK f \in [0..n -> S] : Good1(f, k)
    OBVIOUS
  <2> DEFINE g == [f EXCEPT ![k + 1] = step[k + 1][f[k]]]
  <2>2. step[k + 1][f[k]] \in S /\ k + 1 \in 0..n
    BY <2>1
  <2>3. g \in [0..n -> S]
    BY <2>1, <2>2
  <2>4. Good1(g, k + 1)
    <3> SUFFICES ASSUME NEW i \in 0..n, i <= k + 1
                 PROVE  g[i] = IF i = 0 THEN s0 ELSE step[i][g[i - 1]]
      BY DEF Good1
    <3>1. CASE i = k + 1
      BY <2>1, <2>2, <3>1
    <3>2. CASE i <= k
      BY <2>1, <2>2, <3>2 DEF Good1
    <3> QED BY <3>1, <3>2
  <2> HIDE DEF g
  <2> QED BY <2>3, <2>4
<1>3. G = 0..n
  <2>1. G \in SUBSET (0..n)
    OBVIOUS
  <2> HIDE DEF G
  <2> QED BY <1>1, <1>2, <2>1, IntervalInduction
<1>4. PICK f \in [0..n -> S] : Good1(f, n)
  BY <1>3
<1>5. Solves(f, S, n, s0, step)
  BY <1>4 DEF Good1, Solves
<1> QED BY <1>5

\* Recursion over the block tree has a solution.
LEMMA TreeRecursion ==
    ASSUME NEW S, NEW s0 \in S, NEW step \in [Block -> [S -> S]]
    PROVE  \E f \in [Block -> S] :
              f[Genesis] = s0 /\ \A b \in Block \ {Genesis} : f[b] = step[b][f[Parent[b]]]
<1> DEFINE Upto(f, k) == \A b \in Block : Height[b] <= k =>
                            f[b] = IF b = Genesis THEN s0 ELSE step[b][f[Parent[b]]]
           C(b) == CHOOSE f \in [Block -> S] : Upto(f, Height[b])
           F == [b \in Block |-> C(b)[b]]
<1> HIDE DEF Upto
<1>1. \A b \in Block : Height[b] \in Nat
  BY BlocksAssumption
<1>2. \A b \in Block \ {Genesis} : Parent[b] \in Block /\ Height[b] = Height[Parent[b]] + 1
  BY BlocksAssumption
<1>3. ASSUME NEW n \in Nat PROVE \E f \in [Block -> S] : Upto(f, n)
  <2> DEFINE G == {k \in 0..n : \E f \in [Block -> S] : Upto(f, k)}
  <2>1. 0 \in G
    <3> DEFINE f == [b \in Block |-> s0]
    <3>1. \A b \in Block : Height[b] <= 0 => b = Genesis
      BY <1>1, <1>2
    <3>2. f \in [Block -> S] /\ Upto(f, 0)
      BY <3>1 DEF Upto
    <3> HIDE DEF f
    <3> QED BY <3>2
  <2>2. \A k \in G : k < n => k + 1 \in G
    <3>0. \A k \in 0..n : k < n => k + 1 \in 0..n
      OBVIOUS
    <3> SUFFICES ASSUME NEW k \in 0..n, k \in G, k < n
                 PROVE  \E g \in [Block -> S] : Upto(g, k + 1)
      BY <3>0, Zenon
    <3>1. PICK f \in [Block -> S] : Upto(f, k)
      OBVIOUS
    <3> DEFINE g == [b \in Block |-> IF b = Genesis THEN s0
                                     ELSE IF Height[b] <= k THEN f[b] ELSE step[b][f[Parent[b]]]]
    <3>2. g \in [Block -> S]
      BY <1>2, <3>1
    <3>3. ASSUME NEW b \in Block, Height[b] <= k PROVE g[b] = f[b]
      BY <3>1, <3>3 DEF Upto
    <3>4. ASSUME NEW b \in Block, Height[b] <= k + 1
          PROVE  g[b] = IF b = Genesis THEN s0 ELSE step[b][g[Parent[b]]]
      <4>1. CASE b = Genesis
        BY <4>1
      <4>2. CASE b # Genesis
        <5>1. Parent[b] \in Block /\ Height[Parent[b]] <= k
          BY <1>1, <1>2, <3>4, <4>2
        <5>2. g[Parent[b]] = f[Parent[b]]
          BY <3>3, <5>1
        <5>3. g[b] = step[b][f[Parent[b]]]
          BY <3>1, <4>2 DEF Upto
        <5> HIDE DEF g
        <5> QED BY <4>2, <5>2, <5>3
      <4> HIDE DEF g
      <4> QED BY <4>1, <4>2
    <3> HIDE DEF g
    <3>5. Upto(g, k + 1)
      BY <3>4 DEF Upto
    <3> QED BY <3>2, <3>5
  <2>3. G = 0..n
    <3>1. G \in SUBSET (0..n)
      OBVIOUS
    <3> HIDE DEF G
    <3> QED BY <2>1, <2>2, <3>1, IntervalInduction
  <2> QED BY <2>3
<1>4. ASSUME NEW n \in Nat, NEW f \in [Block -> S], NEW g \in [Block -> S], Upto(f, n), Upto(g, n),
             NEW b \in Block, Height[b] <= n
      PROVE  f[b] = g[b]
  <2> DEFINE G == {c \in Block : Height[c] <= n => f[c] = g[c]}
  <2>1. Genesis \in G
    BY <1>4, BlocksAssumption DEF Upto
  <2>2. ASSUME NEW c \in Block \ {Genesis}, Parent[c] \in G PROVE c \in G
    <3>1. Height[c] <= n => Height[Parent[c]] <= n
      BY <1>1, <1>2, <2>2
    <3> QED BY <1>2, <1>4, <2>2, <3>1 DEF Upto
  <2>3. G = Block
    <3>1. G \in SUBSET Block
      OBVIOUS
    <3> HIDE DEF G
    <3> QED BY <2>1, <2>2, <3>1, TreeInduction
  <2> QED BY <1>4, <2>3
<1>5. \A b \in Block : C(b) \in [Block -> S] /\ Upto(C(b), Height[b])
  BY <1>1, <1>3
<1> HIDE DEF C
<1>6. F \in [Block -> S]
  BY <1>5
<1>7. ASSUME NEW b \in Block
      PROVE  F[b] = IF b = Genesis THEN s0 ELSE step[b][F[Parent[b]]]
  <2>1. Height[b] <= Height[b]
    BY <1>1
  <2>2. F[b] = IF b = Genesis THEN s0 ELSE step[b][C(b)[Parent[b]]]
    BY <1>5, <2>1 DEF Upto
  <2>3. CASE b # Genesis
    <3>1. /\ Parent[b] \in Block /\ Height[Parent[b]] <= Height[b]
          /\ Height[Parent[b]] <= Height[Parent[b]]
      BY <1>1, <1>2, <2>3
    <3>2. Upto(C(b), Height[Parent[b]])
      BY <1>1, <1>2, <1>5, <2>3 DEF Upto
    <3>3. C(b)[Parent[b]] = C(Parent[b])[Parent[b]]
      BY <1>1, <1>4, <1>5, <3>1, <3>2
    <3> QED BY <2>2, <2>3, <3>1, <3>3
  <2> QED BY <2>2, <2>3
<1> HIDE DEF F
<1>8. F[Genesis] = s0 /\ \A b \in Block \ {Genesis} : F[b] = step[b][F[Parent[b]]]
  BY <1>7, BlocksAssumption
<1> QED BY <1>6, <1>8

-----------------------------------------------------------------------------
(* The reference: what the transactions of a block do to plain maps.       *)

\* Coins as the reference has them: pruned, or with outputs and a height.
Tidy == {c \in CCoins : c = Null \/ (c.outs # {} /\ c.height # 0)}
TidyMaps == [TxId -> Tidy]

\* The outputs of s among the first k inputs of t, and the coins without them.
Taken(t, k, s) == {n \in Nat : \E j \in 1..k : Inputs[t][j] = <<s, n>>}

Without(c, X) == Cleanup([c EXCEPT !.outs = @ \ X])

Mid(coins, t, k) == [s \in TxId |-> Without(coins[s], Taken(t, k, s))]

LEMMA WithoutTidy ==
    ASSUME NEW c \in Tidy, NEW X
    PROVE  /\ Without(c, X) \in Tidy /\ Without(c, X).outs = c.outs \ X
           /\ c.outs \cap X = {} => Without(c, X) = c
           /\ \A n : Without(Without(c, X), {n}) = Without(c, X \cup {n})
<1>1. c \in CCoins /\ (c.outs = {} => c = Null)
  BY DEF Tidy, Null
<1>2. ASSUME NEW Y PROVE /\ Without(c, Y) \in Tidy /\ Without(c, Y).outs = c.outs \ Y
                         /\ Without(c, Y) = IF c.outs \ Y = {} THEN Null
                                            ELSE [height |-> c.height, outs |-> c.outs \ Y]
  <2>1. [c EXCEPT !.outs = @ \ Y] = [height |-> c.height, outs |-> c.outs \ Y]
    BY <1>1 DEF CCoins
  <2>2. Without(c, Y) = IF c.outs \ Y = {} THEN Null ELSE [height |-> c.height, outs |-> c.outs \ Y]
    BY <2>1 DEF Without, Cleanup
  <2>3. CASE c.outs \ Y = {}
    BY <2>2, <2>3, NullCoins DEF Tidy, Null
  <2>4. CASE c.outs \ Y # {}
    <3>1. c.height # 0
      BY <2>4 DEF Tidy, Null
    <3> QED BY <1>1, <2>2, <2>4, <3>1 DEF Tidy, CCoins
  <2> QED BY <2>2, <2>3, <2>4
<1>3. c.outs \cap X = {} => Without(c, X) = c
  <2> SUFFICES ASSUME c.outs \cap X = {} PROVE Without(c, X) = c
    OBVIOUS
  <2>1. c.outs \ X = c.outs
    OBVIOUS
  <2>2. c = [height |-> c.height, outs |-> c.outs]
    BY <1>1 DEF CCoins
  <2> QED BY <1>1, <1>2, <2>1, <2>2
<1>4. ASSUME NEW n PROVE Without(Without(c, X), {n}) = Without(c, X \cup {n})
  <2> DEFINE d == Without(c, X)
  <2>1. d = IF c.outs \ X = {} THEN Null ELSE [height |-> c.height, outs |-> c.outs \ X]
    BY <1>2
  <2>2. Without(c, X \cup {n}) = IF c.outs \ (X \cup {n}) = {} THEN Null
                                 ELSE [height |-> c.height, outs |-> c.outs \ (X \cup {n})]
    BY <1>2
  <2> HIDE DEF d
  <2>3. CASE c.outs \ X = {}
    <3>1. d = Null /\ c.outs \ (X \cup {n}) = {}
      BY <2>1, <2>3
    <3>2. Without(d, {n}) = Null
      BY <3>1 DEF Without, Cleanup, Null
    <3> QED BY <2>2, <3>1, <3>2 DEF d
  <2>4. CASE c.outs \ X # {}
    <3>1. d = [height |-> c.height, outs |-> c.outs \ X]
      BY <2>1, <2>4
    <3>2. [d EXCEPT !.outs = @ \ {n}] = [height |-> c.height, outs |-> c.outs \ (X \cup {n})]
      <4>1. (c.outs \ X) \ {n} = c.outs \ (X \cup {n})
        OBVIOUS
      <4> QED BY <3>1, <4>1
    <3>3. Without(d, {n}) = IF c.outs \ (X \cup {n}) = {} THEN Null
                            ELSE [height |-> c.height, outs |-> c.outs \ (X \cup {n})]
      BY <3>2 DEF Without, Cleanup
    <3> QED BY <2>2, <3>3 DEF d
  <2> QED BY <2>3, <2>4
<1> QED BY <1>2, <1>3, <1>4

\* Spending one output, and the inputs one after the other, as UpdateCoins does.
SpendsOne(new, old, s, n) == new = [old EXCEPT ![s] = Spend(old[s], n)]

LEMMA MidSteps ==
    ASSUME NEW coins \in TidyMaps, NEW t \in TxId
    PROVE  /\ \A k \in Nat : Mid(coins, t, k) \in TidyMaps
           /\ Mid(coins, t, 0) = coins
           /\ \A k \in 1..Len(Inputs[t]) :
                 /\ SpendsOne(Mid(coins, t, k), Mid(coins, t, k - 1),
                              Inputs[t][k][1], Inputs[t][k][2])
                 /\ Inputs[t][k][2] \in coins[Inputs[t][k][1]].outs =>
                       Inputs[t][k][2] \in Mid(coins, t, k - 1)[Inputs[t][k][1]].outs
<1>0. /\ Inputs[t] \in Seq(TxId \X (Nat \ {0})) /\ Len(Inputs[t]) \in Nat
      /\ \A j \in 1..Len(Inputs[t]) : Inputs[t][j] \in TxId \X (Nat \ {0})
      /\ \A j, k \in 1..Len(Inputs[t]) : Inputs[t][j] = Inputs[t][k] => j = k
  BY BlocksAssumption
<1>1. \A s \in TxId : coins[s] \in Tidy
  BY DEF TidyMaps
<1>2. ASSUME NEW k \in Nat PROVE Mid(coins, t, k) \in TidyMaps
  BY <1>1, WithoutTidy DEF Mid, TidyMaps
<1>3. Mid(coins, t, 0) = coins
  <2>1. \A s \in TxId : Taken(t, 0, s) = {}
    BY DEF Taken
  <2>2. \A s \in TxId : Without(coins[s], Taken(t, 0, s)) = coins[s]
    BY <1>1, <2>1, WithoutTidy
  <2> QED BY <2>2 DEF Mid, TidyMaps
<1>4. ASSUME NEW k \in 1..Len(Inputs[t])
      PROVE  SpendsOne(Mid(coins, t, k), Mid(coins, t, k - 1), Inputs[t][k][1], Inputs[t][k][2])
  <2> DEFINE s0 == Inputs[t][k][1]  n0 == Inputs[t][k][2]
             old == Mid(coins, t, k - 1)
  <2>1. s0 \in TxId /\ n0 \in Nat /\ Inputs[t][k] = <<s0, n0>> /\ k \in Nat /\ k - 1 \in Nat
    BY <1>0
  <2>2. \A j \in 1..k : j \in 1..(k - 1) \/ j = k
    BY <2>1
  <2>3. 1..(k - 1) \subseteq 1..k /\ k \in 1..k
    BY <2>1
  <2> HIDE DEF s0, n0
  <2>4. Taken(t, k, s0) = Taken(t, k - 1, s0) \cup {n0}
    BY <2>1, <2>2, <2>3 DEF Taken
  <2>5. \A s \in TxId \ {s0} : Taken(t, k, s) = Taken(t, k - 1, s)
    BY <2>1, <2>2, <2>3 DEF Taken
  <2>6. \A c : Spend(c, n0) = Without(c, {n0})
    BY DEF Spend, Without
  <2>7. Without(coins[s0], Taken(t, k, s0)) = Spend(old[s0], n0)
    <3> DEFINE X == Taken(t, k - 1, s0)
    <3>1. old[s0] = Without(coins[s0], X)
      BY <2>1 DEF Mid
    <3> HIDE DEF X
    <3>2. \A n : Without(Without(coins[s0], X), {n}) = Without(coins[s0], X \cup {n})
      <4>1. coins[s0] \in Tidy
        BY <1>1, <2>1
      <4> QED BY ONLY <4>1, WithoutTidy
    <3>3. Without(Without(coins[s0], X), {n0}) = Without(coins[s0], X \cup {n0})
      BY <3>2
    <3> QED BY <2>4, <2>6, <3>1, <3>3 DEF X
  <2>8. \A s \in TxId \ {s0} : Without(coins[s], Taken(t, k, s)) = old[s]
    BY <2>5 DEF Mid
  <2>9. old \in TidyMaps
    BY <1>2, <2>1
  <2> HIDE DEF old
  <2>10. Mid(coins, t, k) = [old EXCEPT ![s0] = Spend(old[s0], n0)]
    BY <2>1, <2>7, <2>8, <2>9 DEF Mid, TidyMaps
  <2> QED BY <2>10 DEF old, s0, n0, SpendsOne
<1>5. ASSUME NEW k \in 1..Len(Inputs[t]), Inputs[t][k][2] \in coins[Inputs[t][k][1]].outs
      PROVE  Inputs[t][k][2] \in Mid(coins, t, k - 1)[Inputs[t][k][1]].outs
  <2> DEFINE s0 == Inputs[t][k][1]  n0 == Inputs[t][k][2]
  <2>1. s0 \in TxId /\ n0 \in Nat /\ Inputs[t][k] = <<s0, n0>>
    BY <1>0
  <2>2. n0 \notin Taken(t, k - 1, s0)
    <3>1. \A j \in 1..(k - 1) : j \in 1..Len(Inputs[t]) /\ j # k
      BY <1>0
    <3> QED BY <1>0, <2>1, <3>1 DEF Taken
  <2>3. Mid(coins, t, k - 1)[s0].outs = coins[s0].outs \ Taken(t, k - 1, s0)
    BY <1>1, <2>1, WithoutTidy DEF Mid
  <2> QED BY <1>5, <2>2, <2>3
<1> QED BY <1>2, <1>3, <1>4, <1>5

LEMMA MidStep ==
    ASSUME NEW coins \in TidyMaps, NEW t \in TxId, NEW k \in 1..Len(Inputs[t])
    PROVE  /\ SpendsOne(Mid(coins, t, k), Mid(coins, t, k - 1), Inputs[t][k][1], Inputs[t][k][2])
           /\ Inputs[t][k][2] \in coins[Inputs[t][k][1]].outs =>
                 Inputs[t][k][2] \in Mid(coins, t, k - 1)[Inputs[t][k][1]].outs
           /\ Mid(coins, t, k - 1) \in TidyMaps /\ Inputs[t][k][1] \in TxId
           /\ Mid(coins, t, k - 1)[Inputs[t][k][1]] \in Tidy
<1>1. Len(Inputs[t]) \in Nat /\ \A j \in 1..Len(Inputs[t]) : Inputs[t][j] \in TxId \X (Nat \ {0})
  <2>1. Inputs[t] \in Seq(TxId \X (Nat \ {0}))
    BY BlocksAssumption
  <2> QED BY <2>1
<1>2. Inputs[t][k][1] \in TxId /\ k - 1 \in Nat
  BY <1>1
<1>3. Mid(coins, t, k - 1) \in TidyMaps
  BY <1>2, MidSteps
<1>4. Inputs[t][k][2] \in coins[Inputs[t][k][1]].outs =>
         Inputs[t][k][2] \in Mid(coins, t, k - 1)[Inputs[t][k][1]].outs
  BY MidSteps
<1>5. \A j \in 1..Len(Inputs[t]) :
         SpendsOne(Mid(coins, t, j), Mid(coins, t, j - 1), Inputs[t][j][1], Inputs[t][j][2])
  BY MidSteps
<1> QED BY <1>2, <1>3, <1>4, <1>5 DEF TidyMaps

\* A transaction: its inputs are spent and its outputs added.
LEMMA AfterIsMid ==
    ASSUME NEW coins \in TidyMaps, NEW t \in TxId, NEW h \in Nat \ {0}
    PROVE  /\ AfterTx(coins, t, h) = [Mid(coins, t, Len(Inputs[t])) EXCEPT ![t] = FromTx(t, h)]
           /\ AfterTx(coins, t, h) \in TidyMaps
<1> DEFINE k == Len(Inputs[t])
<1>1. /\ k \in Nat /\ \A j \in 1..k : Inputs[t][j] \in TxId \X (Nat \ {0})
  BY BlocksAssumption
<1>2. ASSUME NEW s \in TxId
      PROVE  Cleanup([coins[s] EXCEPT !.outs =
                        @ \ {n \in @ : \E j \in 1..Len(Inputs[t]) : Inputs[t][j] = <<s, n>>}])
               = Mid(coins, t, k)[s]
  <2> DEFINE o == coins[s].outs
             X == {n \in o : \E j \in 1..Len(Inputs[t]) : Inputs[t][j] = <<s, n>>}
  <2>1. o \subseteq Nat
    BY DEF TidyMaps, Tidy, CCoins
  <2>2. o \ X = o \ Taken(t, k, s)
    BY <2>1 DEF Taken
  <2>3. [coins[s] EXCEPT !.outs = o \ X] = [coins[s] EXCEPT !.outs = o \ Taken(t, k, s)]
    BY <2>2
  <2> QED BY <2>3 DEF Mid, Without
<1>3. Mid(coins, t, k) \in TidyMaps
  BY <1>1, MidSteps
<1>4. FromTx(t, h) \in Tidy
  <2>1. FromTx(t, h) \in CCoins /\ FromTx(t, h) # Null
    BY CoinsTypes
  <2>2. FromTx(t, h).outs # {} /\ FromTx(t, h).height # 0
    <3>1. NOuts[t] \in Nat \ {0}
      BY BlocksAssumption
    <3>2. 1 \in 1..NOuts[t]
      BY <3>1
    <3> QED BY <3>2 DEF FromTx
  <2> QED BY <2>1, <2>2 DEF Tidy
<1>5. AfterTx(coins, t, h) = [s \in TxId |-> IF s = t THEN FromTx(t, h) ELSE Mid(coins, t, k)[s]]
  BY <1>2 DEF AfterTx
<1> QED BY <1>3, <1>4, <1>5 DEF TidyMaps

\* CTxInUndo is enough to restore an output: the height is kept with the last
\* one, and no height is 0.
LEMMA UndoRestores ==
    ASSUME NEW c \in Tidy, NEW n \in c.outs
    PROVE  /\ UndoFor(c, n) \in Nat
           /\ RestoresCleanly(Spend(c, n), n, UndoFor(c, n))
           /\ Restored(Spend(c, n), n, UndoFor(c, n)) = c
<1>1. c \in CCoins /\ c.height # 0 /\ c = [height |-> c.height, outs |-> c.outs]
  BY DEF Tidy, CCoins, Null
<1>2. [c EXCEPT !.outs = @ \ {n}] = [height |-> c.height, outs |-> c.outs \ {n}]
  BY <1>1
<1>3. CASE c.outs \ {n} = {}
  <2>1. Spend(c, n) = Null /\ c.outs = {n}
    BY <1>2, <1>3 DEF Spend, Cleanup
  <2>2. UndoFor(c, n) = c.height
    BY <2>1 DEF UndoFor
  <2> QED BY <1>1, <2>1, <2>2 DEF RestoresCleanly, Restored, CCoins
<1>4. CASE c.outs \ {n} # {}
  <2>1. Spend(c, n) = [height |-> c.height, outs |-> c.outs \ {n}]
    BY <1>2, <1>4 DEF Spend, Cleanup
  <2>2. Spend(c, n) # Null /\ Spend(c, n).outs = c.outs \ {n} /\ Spend(c, n).height = c.height
    BY <1>4, <2>1 DEF Null
  <2>3. UndoFor(c, n) = 0
    BY <2>2 DEF UndoFor
  <2>4. (c.outs \ {n}) \cup {n} = c.outs
    OBVIOUS
  <2>5. Restored(Spend(c, n), n, 0) = [height |-> c.height, outs |-> c.outs]
    BY <2>1, <2>4 DEF Restored
  <2> QED BY <1>1, <2>2, <2>3, <2>5 DEF RestoresCleanly
<1> QED BY <1>3, <1>4

\* The maps after the first i transactions of a block, for the maps below it.
Stages(b, below, f) ==
    /\ f \in [0..Len(Txs[b]) -> TidyMaps] /\ f[0] = below
    /\ \A i \in 1..Len(Txs[b]) : f[i] = AfterTx(f[i - 1], Txs[b][i], Height[b])
    /\ f[Len(Txs[b])] = AfterTxs(below, b)

LEMMA StagesExist ==
    ASSUME NEW b \in Block \ {Genesis}, NEW below \in TidyMaps
    PROVE  /\ \E f : Stages(b, below, f)
           /\ AfterTxs(below, b) \in TidyMaps
<1> DEFINE n == Len(Txs[b])
           step == [i \in 1..n |-> [c \in TidyMaps |-> AfterTx(c, Txs[b][i], Height[b])]]
           after == CHOOSE f : f = [i \in 0..n |-> IF i = 0 THEN below
                                       ELSE AfterTx(f[i - 1], Txs[b][i], Height[b])]
<1>1. n \in Nat /\ \A i \in 1..n : Txs[b][i] \in TxId
  BY BlocksAssumption
<1>2. Height[b] \in Nat \ {0}
  BY BlocksAssumption
<1>3. \A i \in 1..n : \A c \in TidyMaps : AfterTx(c, Txs[b][i], Height[b]) \in TidyMaps
  BY <1>1, <1>2, AfterIsMid
<1>4. \A i \in 1..n : \A c \in TidyMaps : step[i][c] \in TidyMaps
  BY <1>3
<1>5. PICK f \in [0..n -> TidyMaps] : f[0] = below /\ \A i \in 1..n : f[i] = step[i][f[i - 1]]
  <2> HIDE DEF n, step
  <2>1. \E f : Solves(f, TidyMaps, n, below, step)
    BY <1>1, <1>4, IntervalRecursion
  <2> QED BY <2>1 DEF Solves
<1>6. f = [i \in 0..n |-> IF i = 0 THEN below ELSE AfterTx(f[i - 1], Txs[b][i], Height[b])]
  <2>1. \A i \in 1..n : step[i][f[i - 1]] = AfterTx(f[i - 1], Txs[b][i], Height[b])
    <3>1. \A i \in 1..n : i - 1 \in 0..n
      BY <1>1
    <3> QED BY <1>5, <3>1
  <2>2. \A i \in 0..n : f[i] = IF i = 0 THEN below ELSE AfterTx(f[i - 1], Txs[b][i], Height[b])
    <3> HIDE DEF step, n
    <3> QED BY <1>1, <1>5, <2>1
  <2> HIDE DEF step, n
  <2> QED BY <1>5, <2>2
<1>7. after = [i \in 0..n |-> IF i = 0 THEN below ELSE AfterTx(after[i - 1], Txs[b][i], Height[b])]
  BY <1>6
<1>8. AfterTxs(below, b) = after[n]
  BY DEF AfterTxs
<1> HIDE DEF after
<1>9. after[0] = below /\ \A i \in 1..n : after[i] = AfterTx(after[i - 1], Txs[b][i], Height[b])
  <2> DEFINE g(i) == IF i = 0 THEN below ELSE AfterTx(after[i - 1], Txs[b][i], Height[b])
  <2>1. after = [i \in 0..n |-> g(i)]
    BY <1>7
  <2>2. g(0) = below /\ \A i \in 1..n : g(i) = AfterTx(after[i - 1], Txs[b][i], Height[b])
    BY <1>1
  <2>3. 0 \in 0..n /\ \A i \in 1..n : i \in 0..n
    BY <1>1
  <2> HIDE DEF g, n
  <2>4. \A i \in 0..n : after[i] = g(i)
    BY <2>1
  <2> QED BY <2>2, <2>3, <2>4
<1>10. \A i \in 0..n : after[i] \in TidyMaps
  <2> DEFINE G == {i \in 0..n : after[i] \in TidyMaps}
  <2>1. 0 \in G
    BY <1>1, <1>9
  <2>2. \A k \in G : k < n => k + 1 \in G
    <3> SUFFICES ASSUME NEW k \in G, k < n PROVE after[k + 1] \in TidyMaps
      BY <1>1
    <3>1. k + 1 \in 1..n /\ (k + 1) - 1 = k
      BY <1>1
    <3> QED BY <1>3, <1>9, <3>1
  <2>3. G = 0..n
    <3>1. G \in SUBSET (0..n)
      OBVIOUS
    <3> HIDE DEF G, n
    <3> QED BY <1>1, <2>1, <2>2, <3>1, IntervalInduction
  <2> QED BY <2>3
<1>11. after \in [0..n -> TidyMaps]
  BY <1>7, <1>10
<1>12. Stages(b, below, after)
  BY <1>8, <1>9, <1>11 DEF Stages
<1>13. n \in 0..n
  BY <1>1
<1> QED BY <1>8, <1>10, <1>12, <1>13

\* The reference satisfies its recursion.
LEMMA UTXOsAre ==
    /\ UTXOs \in [Block -> TidyMaps]
    /\ UTXOs[Genesis] = [t \in TxId |-> Null]
    /\ \A b \in Block \ {Genesis} : UTXOs[b] = AfterTxs(UTXOs[Parent[b]], b)
<1> DEFINE none == [t \in TxId |-> Null]
           step == [b \in Block |-> [c \in TidyMaps |-> IF b = Genesis THEN c ELSE AfterTxs(c, b)]]
<1>1. none \in TidyMaps
  BY NullCoins DEF TidyMaps, Tidy
<1>2. step \in [Block -> [TidyMaps -> TidyMaps]]
  <2>1. \A b \in Block \ {Genesis} : \A c \in TidyMaps : AfterTxs(c, b) \in TidyMaps
    BY StagesExist
  <2> QED BY <2>1
<1>3. PICK f \in [Block -> TidyMaps] :
         f[Genesis] = none /\ \A b \in Block \ {Genesis} : f[b] = step[b][f[Parent[b]]]
  <2> HIDE DEF step, none
  <2> QED BY <1>1, <1>2, TreeRecursion
<1>4. \A b \in Block \ {Genesis} : Parent[b] \in Block
  BY BlocksAssumption
<1>5. f = [b \in Block |-> IF b = Genesis THEN none ELSE AfterTxs(f[Parent[b]], b)]
  <2>1. \A b \in Block \ {Genesis} : step[b][f[Parent[b]]] = AfterTxs(f[Parent[b]], b)
    BY <1>3, <1>4
  <2> HIDE DEF step, none
  <2>2. \A b \in Block : f[b] = IF b = Genesis THEN none ELSE AfterTxs(f[Parent[b]], b)
    BY <1>3, <2>1
  <2> QED BY <1>3, <2>2
<1>6. UTXOs = [b \in Block |-> IF b = Genesis THEN none ELSE AfterTxs(UTXOs[Parent[b]], b)]
  BY <1>5 DEF UTXOs
<1> HIDE DEF none
<1>7. UTXOs[Genesis] = none /\ \A b \in Block \ {Genesis} : UTXOs[b] = AfterTxs(UTXOs[Parent[b]], b)
  BY <1>6, BlocksAssumption
<1>8. \A b \in Block : UTXOs[b] \in TidyMaps
  <2> DEFINE G == {b \in Block : UTXOs[b] \in TidyMaps}
  <2>1. Genesis \in G
    BY <1>1, <1>7, BlocksAssumption
  <2>2. \A b \in Block \ {Genesis} : Parent[b] \in G => b \in G
    BY <1>7, StagesExist
  <2>3. G = Block
    <3>1. G \in SUBSET Block
      OBVIOUS
    <3> HIDE DEF G
    <3> QED BY <2>1, <2>2, <3>1, TreeInduction
  <2> QED BY <2>3
<1>9. UTXOs \in [Block -> TidyMaps]
  BY <1>6, <1>8
<1> QED BY <1>7, <1>9 DEF none

\* The maps after the first transactions of b, over those of the chain below.
St(b) == CHOOSE f : Stages(b, UTXOs[Parent[b]], f)

LEMMA StFacts ==
    ASSUME NEW b \in Block \ {Genesis}
    PROVE  /\ Parent[b] \in Block /\ Len(Txs[b]) \in Nat /\ Height[b] \in Nat \ {0}
           /\ St(b)[0] = UTXOs[Parent[b]] /\ St(b)[Len(Txs[b])] = UTXOs[b]
           /\ \A i \in 0..Len(Txs[b]) : St(b)[i] \in TidyMaps
           /\ \A i \in 1..Len(Txs[b]) :
                 Txs[b][i] \in TxId /\ St(b)[i] = AfterTx(St(b)[i - 1], Txs[b][i], Height[b])
<1>1. Parent[b] \in Block /\ Txs[b] \in Seq(TxId) /\ Height[b] = Height[Parent[b]] + 1
      /\ Height[Parent[b]] \in Nat
  BY BlocksAssumption
<1>2. UTXOs[Parent[b]] \in TidyMaps /\ UTXOs[b] = AfterTxs(UTXOs[Parent[b]], b)
  BY <1>1, UTXOsAre
<1>3. \E f : Stages(b, UTXOs[Parent[b]], f)
  BY <1>2, StagesExist
<1>4. Stages(b, UTXOs[Parent[b]], St(b))
  BY <1>3 DEF St
<1>5. Len(Txs[b]) \in Nat /\ Height[b] \in Nat \ {0} /\ \A i \in 1..Len(Txs[b]) : Txs[b][i] \in TxId
  BY <1>1
<1>6. /\ St(b)[0] = UTXOs[Parent[b]] /\ St(b)[Len(Txs[b])] = UTXOs[b]
      /\ \A i \in 1..Len(Txs[b]) : St(b)[i] = AfterTx(St(b)[i - 1], Txs[b][i], Height[b])
  BY <1>2, <1>4, Zenon DEF Stages
<1>7. \A i \in 0..Len(Txs[b]) : St(b)[i] \in TidyMaps
  BY <1>4, Zenon DEF Stages
<1> QED BY <1>1, <1>5, <1>6, <1>7, Zenon

LEMMA InputsOf == \A t \in TxId : Inputs[t] \in Seq(TxId \X (Nat \ {0})) /\ Len(Inputs[t]) \in Nat
<1>1. \A t \in TxId : Inputs[t] \in Seq(TxId \X (Nat \ {0}))
  <2>1. Inputs \in [TxId -> Seq(TxId \X (Nat \ {0}))]
    BY BlocksAssumption, Zenon
  <2> QED BY <2>1, Zenon
<1> QED BY <1>1

\* Null coins stay Null when inputs are spent.
LEMMA MidOnly ==
    ASSUME NEW coins \in TidyMaps, NEW t \in TxId, NEW k \in Nat, NEW s \in TxId, coins[s] = Null
    PROVE  Mid(coins, t, k)[s] = Null
<1>1. coins[s] \in Tidy /\ coins[s].outs = {}
  BY DEF TidyMaps, Null
<1>2. Without(coins[s], Taken(t, k, s)) = coins[s]
  BY <1>1, WithoutTidy
<1> QED BY <1>2 DEF Mid

LEMMA StOnlyFrom ==
    ASSUME NEW b \in Block \ {Genesis}, Only(UTXOs[Parent[b]], Below[Parent[b]])
    PROVE  \A i \in 0..Len(Txs[b]) : Only(St(b)[i], Below[Parent[b]] \cup Before(b, i + 1))
<1> DEFINE n == Len(Txs[b])
           G == {i \in 0..n : Only(St(b)[i], Below[Parent[b]] \cup Before(b, i + 1))}
<1>1. n \in Nat
  BY StFacts
<1>2. 0 \in G
  <2>1. St(b)[0] = UTXOs[Parent[b]]
    BY StFacts
  <2>2. Only(St(b)[0], Below[Parent[b]] \cup Before(b, 0 + 1))
    BY <2>1 DEF Only
  <2> QED BY <1>1, <2>2
<1>3. ASSUME NEW k \in G, k < n PROVE k + 1 \in G
  <2> DEFINE t == Txs[b][k + 1]
  <2>1. k \in 0..n /\ k + 1 \in 1..n /\ k + 1 \in 0..n /\ (k + 1) - 1 = k
    BY <1>1, <1>3
  <2>2. t \in TxId /\ St(b)[k] \in TidyMaps /\ St(b)[k + 1] = AfterTx(St(b)[k], t, Height[b])
        /\ Height[b] \in Nat \ {0} /\ Len(Inputs[t]) \in Nat
    <3>1. t \in TxId /\ St(b)[k + 1] = AfterTx(St(b)[(k + 1) - 1], t, Height[b])
      BY <2>1, StFacts
    <3>2. St(b)[k] \in TidyMaps /\ Height[b] \in Nat \ {0}
      BY <2>1, StFacts
    <3> HIDE DEF t
    <3> QED BY <2>1, <3>1, <3>2, InputsOf
  <2>3. Before(b, (k + 1) + 1) = Before(b, k + 1) \cup {t}
    BY <2>1, BlockFacts
  <2> HIDE DEF t, n
  <2>4. ASSUME NEW s \in TxId, St(b)[k + 1][s] # Null, s # t PROVE St(b)[k][s] # Null
    <3>1. Mid(St(b)[k], t, Len(Inputs[t])) \in TidyMaps
      BY <2>2, MidSteps
    <3>2. St(b)[k + 1] = [Mid(St(b)[k], t, Len(Inputs[t])) EXCEPT ![t] = FromTx(t, Height[b])]
      <4> DEFINE S == St(b)[k]
      <4>1. S \in TidyMaps /\ St(b)[k + 1] = AfterTx(S, t, Height[b])
        BY <2>2
      <4> HIDE DEF S, G
      <4>2. St(b)[k + 1] = [Mid(S, t, Len(Inputs[t])) EXCEPT ![t] = FromTx(t, Height[b])]
        BY <2>2, <4>1, AfterIsMid
      <4> QED BY <4>2 DEF S
    <3>3. St(b)[k + 1][s] = Mid(St(b)[k], t, Len(Inputs[t]))[s]
      BY <2>4, <3>1, <3>2 DEF TidyMaps
    <3> QED BY <2>2, <2>4, <3>3, MidOnly
  <2> QED BY <1>3, <2>1, <2>3, <2>4 DEF Only
<1>4. G = 0..n
  <2>1. G \in SUBSET (0..n)
    OBVIOUS
  <2> HIDE DEF G, n
  <2> QED BY <1>1, <1>2, <1>3, <2>1, IntervalInduction
<1> QED BY <1>4

\* Only transactions of a chain have unspent outputs after it.
LEMMA UTXOsOnly == \A b \in Block : Only(UTXOs[b], Below[b])
<1> DEFINE G == {b \in Block : Only(UTXOs[b], Below[b])}
<1>1. Genesis \in G
  BY UTXOsAre, BlocksAssumption DEF Only
<1>2. ASSUME NEW b \in Block \ {Genesis}, Parent[b] \in G PROVE b \in G
  <2>1. Only(UTXOs[Parent[b]], Below[Parent[b]])
    BY <1>2
  <2>2. Len(Txs[b]) \in 0..Len(Txs[b]) /\ St(b)[Len(Txs[b])] = UTXOs[b]
    BY StFacts
  <2>3. Only(UTXOs[b], Below[Parent[b]] \cup Before(b, Len(Txs[b]) + 1))
    BY <2>1, <2>2, StOnlyFrom
  <2> QED BY <2>3, BlockFacts
<1>3. G = Block
  <2>1. G \in SUBSET Block
    OBVIOUS
  <2> HIDE DEF G
  <2> QED BY <1>1, <1>2, <2>1, TreeInduction
<1> QED BY <1>3

\* One transaction of a block: its inputs are spent, its outputs appear; and
\* taking the outputs away leaves the maps with the inputs spent.
LEMMA StSteps ==
    ASSUME NEW b \in Block \ {Genesis}, NEW i \in 1..Len(Txs[b])
    PROVE  LET t == Txs[b][i]
               spent == Mid(St(b)[i - 1], t, Len(Inputs[t]))
           IN  /\ t \in TxId /\ St(b)[i - 1] \in TidyMaps /\ spent \in TidyMaps
               /\ Len(Inputs[t]) \in Nat
               /\ St(b)[i] = [spent EXCEPT ![t] = FromTx(t, Height[b])]
               /\ St(b)[i][t] = FromTx(t, Height[b])
               /\ [St(b)[i] EXCEPT ![t] = Null] = spent
<1> DEFINE t == Txs[b][i]
           S == St(b)[i - 1]
           spent == Mid(S, t, Len(Inputs[t]))
<1>1. i - 1 \in 0..Len(Txs[b]) /\ Len(Txs[b]) \in Nat /\ Height[b] \in Nat \ {0} /\ (i - 1) + 1 = i
  BY StFacts
<1>2. t \in TxId /\ S \in TidyMaps /\ St(b)[i] = AfterTx(S, t, Height[b]) /\ Parent[b] \in Block
  BY <1>1, StFacts
<1>3. Len(Inputs[t]) \in Nat
  BY <1>2, InputsOf
<1>4. S[t] = Null
  <2>1. Only(UTXOs[Parent[b]], Below[Parent[b]])
    BY <1>2, UTXOsOnly
  <2>2. Only(S, Below[Parent[b]] \cup Before(b, (i - 1) + 1))
    BY <1>1, <2>1, StOnlyFrom
  <2>3. t \notin Below[Parent[b]] \cup Before(b, i)
    BY BlockFacts
  <2> QED BY <1>1, <1>2, <2>2, <2>3 DEF Only
<1> HIDE DEF t, S
<1>5. spent \in TidyMaps /\ spent[t] = Null
  BY <1>2, <1>3, <1>4, MidSteps, MidOnly
<1>6. St(b)[i] = [spent EXCEPT ![t] = FromTx(t, Height[b])]
  <2>1. Height[b] \in Nat \ {0} /\ t \in TxId /\ S \in TidyMaps
    BY <1>1, <1>2, Zenon
  <2>2. AfterTx(S, t, Height[b]) = [spent EXCEPT ![t] = FromTx(t, Height[b])]
    BY <2>1, AfterIsMid
  <2> QED BY <1>2, <2>2, Zenon
<1> HIDE DEF spent
<1>7. St(b)[i][t] = FromTx(t, Height[b]) /\ [St(b)[i] EXCEPT ![t] = Null] = spent
  BY <1>2, <1>5, <1>6 DEF TidyMaps
<1> QED BY <1>2, <1>3, <1>5, <1>6, <1>7 DEF t, S, spent

-----------------------------------------------------------------------------
(* What the layers say, exactly, while no write has failed.                *)

\* The i-th transaction of b spends what it finds, and u is what ConnectBlock
\* notes of its first k inputs to take it back.
Spendable(b, i) ==
    LET t == Txs[b][i] IN
    \A j \in 1..Len(Inputs[t]) : Inputs[t][j][2] \in St(b)[i - 1][Inputs[t][j][1]].outs

Noted(b, i, u, k) ==
    LET t == Txs[b][i] IN
    \A j \in 1..k :
        u[j] = UndoFor(Mid(St(b)[i - 1], t, j - 1)[Inputs[t][j][1]], Inputs[t][j][2])

Right(b, u) ==
    \A i \in 1..Len(Txs[b]) : Spendable(b, i) /\ Noted(b, i, u[i], Len(Inputs[Txs[b][i]]))

TipExact == TipCoins = UTXOs[tipBest] /\ db = UTXOs[dbBest]

CheckExact ==
    /\ job.kind \in {"check", "spend"} =>
         \A i \in 1..Len(Txs[job.block]) : i < job.i =>
             /\ Spendable(job.block, i)
             /\ Noted(job.block, i, job.undo[i], Len(Inputs[Txs[job.block][i]]))
    /\ job.kind = "check" => ViewCoins = St(job.block)[job.i - 1]

SpendExact ==
    job.kind = "spend" =>
        /\ ViewCoins = Mid(St(job.block)[job.i - 1], CurTx, job.j - 1)
        /\ Spendable(job.block, job.i)
        /\ Noted(job.block, job.i, job.undo[job.i], job.j - 1)

RemoveExact ==
    /\ job.kind \in {"remove", "restore"} => Right(job.block, job.undo)
    /\ job.kind = "remove" => ViewCoins = St(job.block)[job.i]
    /\ job.kind = "restore" => ViewCoins = Mid(St(job.block)[job.i - 1], CurTx, job.j)

UndoRight ==
    /\ \A b \in DOMAIN undo : Right(b, undo[b])
    /\ \A b \in DOMAIN index : Right(b, index[b])

Exact == TipExact /\ CheckExact /\ SpendExact /\ RemoveExact /\ UndoRight /\ job.clean

LEMMA ExactIdle ==
    ASSUME job' = Idle, TipExact', UndoRight'
    PROVE  Exact'
  BY IdleJob DEF Exact, CheckExact, SpendExact, RemoveExact, Idle

LEMMA ExactInit == Init => Exact
<1> SUFFICES ASSUME Init PROVE Exact
  OBVIOUS
<1>1. db \in Maps /\ db = [t \in TxId |-> Null] /\ tip = NoEntries /\ job = Idle
      /\ tipBest = Genesis /\ dbBest = Genesis /\ undo = <<>> /\ index = <<>>
  BY NullCoins DEF Init, Maps
<1>2. TipCoins = db
  BY <1>1, Views, NothingCached
<1>3. TipExact
  BY <1>1, <1>2, UTXOsAre DEF TipExact
<1> QED BY <1>1, <1>3, IdleJob DEF Exact, CheckExact, SpendExact, RemoveExact, UndoRight, Idle

LEMMA ExactConnectTip ==
    ASSUME TypeInv, Exact, NEW b \in Block, ConnectTip(b)
    PROVE  Exact'
<1>1. UNCHANGED <<view, tip, tipBest, undo, db, dbBest, index>> /\ job = Idle
      /\ b # Genesis /\ Parent[b] = tipBest
      /\ job'.kind = "check" /\ job'.block = b /\ job'.i = 1 /\ job'.clean = TRUE
  BY DEF ConnectTip, chainState
<1>2. TipCoins' = TipCoins /\ ViewCoins' = ViewCoins
  BY <1>1 DEF TipCoins, ViewCoins
<1>3. ViewCoins = TipCoins
  BY <1>1, IdleJob, NothingCached, Views DEF TypeInv, IdleOK
<1>4. TipExact' /\ UndoRight'
  BY <1>1, <1>2 DEF Exact, TipExact, UndoRight
<1>5. ViewCoins = St(b)[0]
  BY <1>1, <1>3, StFacts DEF Exact, TipExact
<1>6. job'.i - 1 = 0 /\ \A i \in 1..Len(Txs[b]) : ~(i < job'.i)
  BY <1>1, StFacts
<1>7. CheckExact'
  BY <1>1, <1>2, <1>5, <1>6 DEF CheckExact
<1> QED BY <1>1, <1>4, <1>7 DEF Exact, SpendExact, RemoveExact

LEMMA ExactCheckTx ==
    ASSUME TypeInv, Exact, CheckTx
    PROVE  Exact'
<1> DEFINE missing == {j \in 1..Len(CurInputs) :
                         CurInputs[j][2] \notin ViewCoins[CurInputs[j][1]].outs}
<1>1. UNCHANGED <<tipBest, undo, db, dbBest, index>> /\ job.kind = "check" /\ MoreTxs /\ TypeOK
      /\ job \in Job
  BY DEF CheckTx, chainState, TypeInv, TypeOK
<1>2. UndoRight'
  BY <1>1 DEF Exact, UndoRight
<1>3. CASE missing = {} /\ (\E S : ViewReads(S)) /\ job' = [job EXCEPT !.kind = "spend"]
  <2>1. TipCoins' = TipCoins /\ ViewCoins' = ViewCoins
    BY <1>1, <1>3, ViewReadsKeep
  <2>2. TipExact'
    BY <1>1, <2>1 DEF Exact, TipExact
  <2>3. job'.kind = "spend" /\ job'.block = job.block /\ job'.i = job.i /\ job'.j = 1
        /\ job'.undo = job.undo /\ job'.clean = job.clean
    BY <1>1, <1>3 DEF TypeInv, CheckingOK, Job
  <2>4. job.i \in 1..Len(Txs[job.block]) /\ job.block \in Block \ {Genesis}
    BY <1>1 DEF TypeInv, ConnectingOK, MoreTxs, Job
  <2>5. CheckExact'
    BY <1>1, <2>3 DEF Exact, CheckExact
  <2>6. ViewCoins = St(job.block)[job.i - 1]
    BY <1>1 DEF Exact, CheckExact
  <2>7. Spendable(job.block, job.i)
    BY <1>3, <2>6 DEF Spendable, CurInputs, CurTx
  <2>8. ViewCoins = Mid(St(job.block)[job.i - 1], CurTx, 0)
    BY <2>4, <2>6, StSteps, MidSteps DEF CurTx
  <2>9. CurTx' = CurTx /\ job'.j - 1 = 0
    BY <2>3 DEF CurTx
  <2>10. SpendExact'
    BY <2>1, <2>3, <2>7, <2>8, <2>9 DEF SpendExact, Noted
  <2> QED BY <1>2, <2>2, <2>3, <2>5, <2>10 DEF Exact, RemoveExact
<1>4. CASE (\E S : TipReads(S)) /\ DropView
  <2>1. TipCoins' = TipCoins
    BY <1>1, <1>4, TipReadsKeep
  <2>2. TipExact'
    BY <1>1, <2>1 DEF Exact, TipExact
  <2> QED BY <1>2, <1>4, <2>2, ExactIdle DEF DropView
<1> QED BY <1>3, <1>4 DEF CheckTx

LEMMA AppendedAt ==
    ASSUME NEW s \in Seq(Nat), NEW x, NEW j \in Nat, Len(s) = j - 1, NEW k \in 1..j
    PROVE  Append(s, x)[k] = IF k = j THEN x ELSE s[k]
OBVIOUS

LEMMA ExactSpendInput ==
    ASSUME TypeInv, Good, Exact, SpendInput
    PROVE  Exact'
<1> DEFINE s == CurInputs[job.j][1]  n == CurInputs[job.j][2]  c == ViewCoins[s]
           S == St(job.block)[job.i - 1]
<1>1. UNCHANGED <<tipBest, undo, db, dbBest, index>> /\ job.kind = "spend" /\ TypeOK
      /\ job \in Job /\ job.block \in Block
  BY DEF SpendInput, chainState, TypeInv, TypeOK, Job
<1>2. job.i \in 1..Len(Txs[job.block]) /\ job.block # Genesis
      /\ Len(job.undo[job.i]) = job.j - 1 /\ Len(job.undo) = Len(Txs[job.block])
  BY <1>1 DEF TypeInv, ConnectingOK, SpendingOK, MoreTxs
<1>3. CurTx \in TxId /\ Len(CurInputs) \in Nat /\ CurInputs = Inputs[CurTx]
      /\ \A k \in 1..Len(CurInputs) : CurInputs[k] \in TxId \X (Nat \ {0})
  BY <1>1, <1>2, Current DEF CurInputs
<1>4. job.j \in 1..Len(CurInputs)
  BY <1>1, <1>3 DEF SpendInput, TypeInv, SpendingOK
<1>5. s \in TxId /\ ViewModifies(s, Spend(c, n))
  BY <1>3, <1>4 DEF SpendInput
<1>6. Spend(c, n) \in CCoins
  BY <1>1, <1>5, Views, CoinsTypes DEF Maps
<1>7. job'.kind = "spend" /\ job'.block = job.block /\ job'.i = job.i /\ job'.j = job.j + 1
      /\ job'.undo = [job.undo EXCEPT ![job.i] = Append(@, UndoFor(c, n))]
      /\ job'.clean = job.clean
  BY <1>1 DEF SpendInput, Job
<1>8. CurTx' = CurTx
  BY <1>7 DEF CurTx
<1>9. job.undo \in Seq(Seq(Nat)) /\ job.undo[job.i] \in Seq(Nat)
  BY <1>1, <1>2 DEF Job
<1>10. S \in TidyMaps /\ CurTx = Txs[job.block][job.i]
  BY <1>1, <1>2, StSteps DEF CurTx
<1>11. ViewCoins = Mid(S, CurTx, job.j - 1) /\ Spendable(job.block, job.i)
       /\ Noted(job.block, job.i, job.undo[job.i], job.j - 1)
  BY <1>1 DEF Exact, SpendExact
<1>12. Mid(S, CurTx, job.j) = [ViewCoins EXCEPT ![s] = Spend(c, n)]
  <2> HIDE DEF S
  <2>1. job.j \in 1..Len(Inputs[CurTx]) /\ Inputs[CurTx][job.j][1] = s /\ Inputs[CurTx][job.j][2] = n
    BY <1>3, <1>4
  <2> HIDE DEF s, n, c
  <2>2. SpendsOne(Mid(S, CurTx, job.j), Mid(S, CurTx, job.j - 1), s, n)
    BY <1>3, <1>10, <2>1, MidStep
  <2> QED BY <1>11, <2>2 DEF c, SpendsOne
<1> HIDE DEF s, n, c
<1>13. TipCoins' = TipCoins /\ ViewCoins' = [ViewCoins EXCEPT ![s] = Spend(c, n)]
  BY <1>1, <1>5, <1>6, ViewModifiesOne DEF Good, LayersOK
<1>14. TipExact' /\ UndoRight'
  BY <1>1, <1>13 DEF Exact, TipExact, UndoRight
<1>15. /\ job'.undo[job.i] = Append(job.undo[job.i], UndoFor(c, n))
       /\ \A i \in 1..Len(Txs[job.block]) : i # job.i => job'.undo[i] = job.undo[i]
  BY <1>2, <1>7, <1>9
<1>16. CheckExact'
  <2>1. \A i \in 1..Len(Txs[job.block]) : i < job.i => i # job.i
    BY <1>2
  <2> QED BY <1>1, <1>7, <1>15, <2>1 DEF Exact, CheckExact
<1>17. Noted(job.block, job.i, job'.undo[job.i], job.j)
  <2>1. ASSUME NEW k \in 1..job.j
        PROVE  job'.undo[job.i][k] = IF k = job.j THEN UndoFor(c, n) ELSE job.undo[job.i][k]
    <3>1. Len(job.undo[job.i]) = job.j - 1 /\ job.j \in Nat
      BY <1>2, <1>4
    <3> QED BY <1>9, <1>15, <3>1, AppendedAt
  <2>2. UndoFor(c, n) = UndoFor(Mid(S, CurTx, job.j - 1)[Inputs[CurTx][job.j][1]],
                                Inputs[CurTx][job.j][2])
    BY <1>3, <1>11 DEF s, n, c
  <2>3. \A k \in 1..job.j : k = job.j \/ k \in 1..(job.j - 1)
    BY <1>3, <1>4
  <2> QED BY <1>10, <1>11, <2>1, <2>2, <2>3 DEF Noted
<1>18. SpendExact'
  <2>1. job'.j - 1 = job.j
    BY <1>3, <1>4, <1>7
  <2> QED BY <1>1, <1>7, <1>8, <1>11, <1>12, <1>13, <1>17, <2>1 DEF SpendExact
<1> QED BY <1>7, <1>14, <1>16, <1>18 DEF Exact, RemoveExact

LEMMA ExactAddOutputs ==
    ASSUME TypeInv, Good, Exact, AddOutputs
    PROVE  Exact'
<1> DEFINE c == FromTx(CurTx, Height[job.block])
<1>1. UNCHANGED <<tipBest, undo, db, dbBest, index>> /\ job.kind = "spend" /\ TypeOK
      /\ job \in Job /\ job.block \in Block
  BY DEF AddOutputs, chainState, TypeInv, TypeOK, Job
<1>2. job.i \in 1..Len(Txs[job.block]) /\ job.block # Genesis /\ Parent[job.block] = tipBest
  BY <1>1 DEF TypeInv, ConnectingOK, SpendingOK, MoreTxs
<1>3. CurTx \in TxId /\ CurTx = Txs[job.block][job.i] /\ Len(CurInputs) \in Nat
      /\ CurInputs = Inputs[CurTx]
  BY <1>1, <1>2, Current DEF CurTx, CurInputs
<1>4. c \in CCoins
  BY <1>1, <1>3, CoinsTypes, BlocksAssumption
<1>5. TipCoins[CurTx] = Null
  BY <1>1, <1>2, <1>3, BlockFacts DEF Good, KnownOK, Only
<1>6. TipCoins' = TipCoins /\ ViewCoins' = [ViewCoins EXCEPT ![CurTx] = c]
  <2>1. CASE ViewModifies(CurTx, c)
    BY <2>1, <1>1, <1>3, <1>4, ViewModifiesOne DEF Good, LayersOK
  <2>2. CASE view' = ModifiedNew(view, CurTx, c) /\ UNCHANGED <<tip, usage>>
    <3>1. TipCoins' = TipCoins
      BY <2>2, <1>1 DEF TipCoins
    <3>2. ViewCoins' = Through(view', TipCoins')
      BY DEF ViewCoins, Through
    <3>3. view \in Caches /\ TipCoins \in Maps
      BY <1>1, Views DEF TypeOK, Caches
    <3>4. Through(view', TipCoins) = [ViewCoins EXCEPT ![CurTx] = c]
      <4> HIDE DEF c
      <4> QED BY <2>2, <1>3, <1>4, <1>5, <3>3, ModifiedNewIsTrue, Views DEF Good, LayersOK
    <3> QED BY <3>1, <3>2, <3>4
  <2> QED BY <2>1, <2>2 DEF AddOutputs
<1>7. job'.kind = "check" /\ job'.block = job.block /\ job'.i = job.i + 1
      /\ job'.undo = job.undo /\ job'.clean = job.clean
  BY <1>1 DEF AddOutputs, Job
<1>8. TipExact' /\ UndoRight'
  BY <1>1, <1>6 DEF Exact, TipExact, UndoRight
<1>9. job.j - 1 = Len(Inputs[CurTx])
  <2>1. job.j \in 1..(Len(CurInputs) + 1)
    BY <1>1 DEF TypeInv, SpendingOK
  <2>2. job.j > Len(CurInputs)
    BY DEF AddOutputs
  <2> QED BY <1>3, <2>1, <2>2
<1>10. ViewCoins = Mid(St(job.block)[job.i - 1], CurTx, Len(Inputs[CurTx]))
       /\ Spendable(job.block, job.i)
       /\ Noted(job.block, job.i, job.undo[job.i], Len(Inputs[CurTx]))
  BY <1>1, <1>9 DEF Exact, SpendExact
<1>11. St(job.block)[job.i] = [ViewCoins EXCEPT ![CurTx] = c]
  BY <1>1, <1>2, <1>3, <1>10, StSteps
<1> HIDE DEF c
<1>12. job'.i - 1 = job.i /\ \A i \in 1..Len(Txs[job.block]) : i < job'.i => i < job.i \/ i = job.i
  BY <1>1, <1>2, <1>7 DEF Job
<1>13. CheckExact'
  BY <1>1, <1>3, <1>6, <1>7, <1>10, <1>11, <1>12 DEF Exact, CheckExact
<1> QED BY <1>7, <1>8, <1>13 DEF Exact, SpendExact, RemoveExact

LEMMA ExactRefuseBlock ==
    ASSUME TypeInv, Exact, RefuseBlock
    PROVE  Exact'
<1>1. UNCHANGED <<tip, tipBest, undo, db, dbBest, index>> /\ job' = Idle
  BY DEF RefuseBlock, chainState, DropView
<1>2. TipExact' /\ UndoRight'
  BY <1>1 DEF Exact, TipExact, UndoRight, TipCoins
<1> QED BY <1>1, <1>2, ExactIdle

LEMMA ExactConnected ==
    ASSUME TypeInv, Good, Exact, Connected
    PROVE  Exact'
<1>1. UNCHANGED <<db, dbBest, index>> /\ job.kind = "check" /\ ~MoreTxs /\ TypeOK
      /\ FlushView(job.block) /\ job \in Job /\ job.block \in Block
  BY DEF Connected, chainState, TypeInv, TypeOK, Job
<1>2. TipCoins' = ViewCoins
  BY <1>1, FlushViewCommits DEF Good, LayersOK
<1>3. tipBest' = job.block /\ job' = Idle
  BY <1>1 DEF FlushView
<1>4. job.block # Genesis /\ job.i = Len(Txs[job.block]) + 1 /\ Len(Txs[job.block]) \in Nat
  <2>1. job.block # Genesis /\ job.i \in 1..(Len(Txs[job.block]) + 1)
    BY <1>1 DEF TypeInv, ConnectingOK
  <2>2. Len(Txs[job.block]) \in Nat
    BY <1>1, BlocksAssumption
  <2> QED BY <1>1, <2>1, <2>2 DEF MoreTxs
<1>5. job.i - 1 = Len(Txs[job.block]) /\ \A i \in 1..Len(Txs[job.block]) : i < job.i
  BY <1>4
<1>6. ViewCoins = UTXOs[job.block]
  BY <1>1, <1>4, <1>5, StFacts DEF Exact, CheckExact
<1>7. TipExact'
  BY <1>1, <1>2, <1>3, <1>6 DEF Exact, TipExact
<1>8. Right(job.block, job.undo)
  BY <1>1, <1>5 DEF Exact, CheckExact, Right
<1>9. UndoRight'
  <2>1. undo' = [b \in DOMAIN undo \cup {job.block} |->
                    IF b \in DOMAIN undo THEN undo[b] ELSE job.undo]
    BY DEF Connected
  <2> QED BY <1>1, <1>8, <2>1 DEF Exact, UndoRight
<1> QED BY <1>3, <1>7, <1>9, ExactIdle

LEMMA ExactDisconnectTip ==
    ASSUME TypeInv, Exact, DisconnectTip
    PROVE  Exact'
<1>1. UNCHANGED <<view, tip, tipBest, undo, db, dbBest, index>> /\ job = Idle
      /\ tipBest \in Block \ {Genesis} /\ tipBest \in DOMAIN undo
      /\ job'.kind = "remove" /\ job'.block = tipBest /\ job'.i = Len(Txs[tipBest])
      /\ job'.undo = undo[tipBest] /\ job'.clean = TRUE
  BY DEF DisconnectTip, chainState, TypeInv, TypeOK
<1>2. TipCoins' = TipCoins /\ ViewCoins' = ViewCoins
  BY <1>1 DEF TipCoins, ViewCoins
<1>3. ViewCoins = TipCoins
  BY <1>1, IdleJob, NothingCached, Views DEF TypeInv, IdleOK
<1>4. TipExact' /\ UndoRight'
  BY <1>1, <1>2 DEF Exact, TipExact, UndoRight
<1>5. ViewCoins = St(tipBest)[Len(Txs[tipBest])]
  BY <1>1, <1>3, StFacts DEF Exact, TipExact
<1>6. Right(tipBest, undo[tipBest])
  BY <1>1 DEF Exact, UndoRight
<1>7. RemoveExact'
  BY <1>1, <1>2, <1>5, <1>6 DEF RemoveExact
<1> QED BY <1>1, <1>4, <1>7 DEF Exact, CheckExact, SpendExact

LEMMA ExactRemoveOutputs ==
    ASSUME TypeInv, Good, Exact, RemoveOutputs
    PROVE  Exact'
<1> DEFINE S == St(job.block)[job.i - 1]
           clean == job.clean /\ ViewCoins[CurTx] = FromTx(CurTx, Height[job.block])
<1>1. UNCHANGED <<tipBest, undo, db, dbBest, index>> /\ job.kind = "remove" /\ TypeOK
      /\ job \in Job /\ job.i \in Nat /\ job.block \in Block \ {Genesis} /\ ViewModifies(CurTx, Null)
  BY DEF RemoveOutputs, chainState, TypeInv, TypeOK, Job, DisconnectingOK, UndoFits
<1>2. job.i \in 1..Len(Txs[job.block])
  BY <1>1 DEF TypeInv, DisconnectingOK, RemoveOutputs
<1>3. CurTx \in TxId /\ CurTx = Txs[job.block][job.i] /\ CurInputs = Inputs[CurTx]
      /\ Len(CurInputs) \in Nat
  BY <1>1, <1>2, Current DEF CurTx, CurInputs
<1>4. TipCoins' = TipCoins /\ ViewCoins' = [ViewCoins EXCEPT ![CurTx] = Null]
  BY <1>1, <1>3, NullCoins, ViewModifiesOne DEF Good, LayersOK
<1>5. ViewCoins = St(job.block)[job.i] /\ Right(job.block, job.undo) /\ job.clean
  BY <1>1 DEF Exact, RemoveExact
<1>6. S \in TidyMaps /\ ViewCoins' = Mid(S, CurTx, Len(CurInputs)) /\ clean = TRUE
  BY <1>1, <1>2, <1>3, <1>4, <1>5, StSteps
<1> HIDE DEF clean, S
<1>7. TipExact' /\ UndoRight'
  BY <1>1, <1>4 DEF Exact, TipExact, UndoRight
<1>8. CASE job.i > 1 /\ CurInputs # <<>>
  <2>1. job' = [job EXCEPT !.clean = clean, !.kind = "restore", !.j = Len(CurInputs)]
    BY <1>8 DEF RemoveOutputs, clean
  <2>2. job'.kind = "restore" /\ job'.block = job.block /\ job'.i = job.i /\ job'.clean = TRUE
        /\ job'.j = Len(CurInputs) /\ job'.undo = job.undo
    BY <1>1, <1>6, <2>1 DEF Job
  <2>3. CurTx' = CurTx
    BY <2>2 DEF CurTx
  <2>4. RemoveExact'
    BY <1>5, <1>6, <2>2, <2>3 DEF RemoveExact, S
  <2> QED BY <1>7, <2>2, <2>4 DEF Exact, CheckExact, SpendExact
<1>9. CASE ~(job.i > 1 /\ CurInputs # <<>>)
  <2>1. job' = [job EXCEPT !.clean = clean, !.i = job.i - 1]
    BY <1>9 DEF RemoveOutputs, clean
  <2>2. job'.kind = "remove" /\ job'.block = job.block /\ job'.i = job.i - 1 /\ job'.clean = TRUE
        /\ job'.undo = job.undo
    BY <1>1, <1>6, <2>1 DEF Job
  <2>3. CurInputs = <<>>
    <3>1. CASE job.i = 1
      <4>1. Txs[job.block] # <<>>
        BY <1>2, <3>1
      <4> QED BY <1>1, <1>3, <3>1, <4>1, BlocksAssumption
    <3> QED BY <1>1, <1>2, <1>9, <3>1
  <2>4. ViewCoins' = S
    BY <1>3, <1>6, <2>3, MidSteps
  <2>5. RemoveExact'
    BY <1>5, <2>2, <2>4 DEF RemoveExact, S
  <2> QED BY <1>7, <2>2, <2>5 DEF Exact, CheckExact, SpendExact
<1> QED BY <1>8, <1>9

LEMMA ExactRestoreInput ==
    ASSUME TypeInv, Good, Exact, RestoreInput
    PROVE  Exact'
<1> DEFINE s == CurInputs[job.j][1]  n == CurInputs[job.j][2]  h == job.undo[job.i][job.j]
           S == St(job.block)[job.i - 1]
           old == Mid(S, CurTx, job.j - 1)
           clean == job.clean /\ RestoresCleanly(ViewCoins[s], n, h)
<1>1. UNCHANGED <<tipBest, undo, db, dbBest, index>> /\ job.kind = "restore" /\ TypeOK
      /\ job \in Job /\ job.i \in Nat /\ job.j \in Nat /\ job.block \in Block \ {Genesis}
      /\ ViewModifies(s, Restored(ViewCoins[s], n, h))
  BY DEF RestoreInput, chainState, TypeInv, TypeOK, Job, DisconnectingOK, UndoFits
<1>2. job.i \in 1..Len(Txs[job.block]) /\ job.j \in 1..Len(CurInputs)
  BY <1>1 DEF TypeInv, DisconnectingOK
<1>3. CurTx \in TxId /\ CurTx = Txs[job.block][job.i] /\ CurInputs = Inputs[CurTx]
  BY <1>1, <1>2, Current DEF CurTx, CurInputs
<1>4. ViewCoins = Mid(S, CurTx, job.j) /\ Right(job.block, job.undo) /\ job.clean
  BY <1>1 DEF Exact, RemoveExact
<1>5. S \in TidyMaps
  BY <1>1, <1>2, StSteps
<1>6. n \in S[s].outs /\ h = UndoFor(old[s], n)
  BY <1>2, <1>3, <1>4 DEF Right, Spendable, Noted
<1>7. job.j \in 1..Len(Inputs[CurTx]) /\ Inputs[CurTx][job.j][1] = s /\ Inputs[CurTx][job.j][2] = n
  BY <1>2, <1>3
<1> HIDE DEF s, n, h, S, clean
<1>8. SpendsOne(ViewCoins, old, s, n) /\ n \in old[s].outs /\ s \in TxId /\ old \in TidyMaps
      /\ old[s] \in Tidy
  BY <1>3, <1>4, <1>5, <1>6, <1>7, MidStep
<1> HIDE DEF old
<1>9. ViewCoins[s] = Spend(old[s], n)
  BY <1>8 DEF SpendsOne, TidyMaps
<1>10. clean = TRUE /\ Restored(ViewCoins[s], n, h) = old[s]
  BY <1>4, <1>6, <1>8, <1>9, UndoRestores DEF clean
<1>11. TipCoins' = TipCoins /\ ViewCoins' = [ViewCoins EXCEPT ![s] = old[s]]
  <2>1. old[s] \in CCoins /\ ViewModifies(s, old[s])
    BY <1>1, <1>8, <1>10 DEF Tidy
  <2> QED BY <1>1, <1>8, <2>1, ViewModifiesOne DEF Good, LayersOK
<1>12. ViewCoins' = old
  BY <1>8, <1>11 DEF SpendsOne, TidyMaps
<1>13. TipExact' /\ UndoRight'
  BY <1>1, <1>11 DEF Exact, TipExact, UndoRight
<1>14. CASE job.j > 1
  <2>1. job' = [job EXCEPT !.clean = clean, !.j = job.j - 1]
    BY <1>14 DEF RestoreInput, clean, s, n, h
  <2>2. job'.kind = "restore" /\ job'.block = job.block /\ job'.i = job.i /\ job'.clean = TRUE
        /\ job'.j = job.j - 1 /\ job'.undo = job.undo
    BY <1>1, <1>10, <2>1 DEF Job
  <2>3. CurTx' = CurTx
    BY <2>2 DEF CurTx
  <2>4. RemoveExact'
    BY <1>4, <1>12, <2>2, <2>3 DEF RemoveExact, S, old
  <2> QED BY <1>13, <2>2, <2>4 DEF Exact, CheckExact, SpendExact
<1>15. CASE ~(job.j > 1)
  <2>1. job' = [job EXCEPT !.clean = clean, !.kind = "remove", !.i = job.i - 1, !.j = 0]
    BY <1>15 DEF RestoreInput, clean, s, n, h
  <2>2. job'.kind = "remove" /\ job'.block = job.block /\ job'.i = job.i - 1 /\ job'.clean = TRUE
        /\ job'.undo = job.undo
    BY <1>1, <1>10, <2>1 DEF Job
  <2>3. job.j - 1 = 0
    BY <1>1, <1>2, <1>15
  <2>4. ViewCoins' = S
    BY <1>3, <1>5, <1>12, <2>3, MidSteps DEF old
  <2>5. RemoveExact'
    BY <1>4, <2>2, <2>4 DEF RemoveExact, S
  <2> QED BY <1>13, <2>2, <2>5 DEF Exact, CheckExact, SpendExact
<1> QED BY <1>14, <1>15

LEMMA ExactDisconnected ==
    ASSUME TypeInv, Good, Exact, Disconnected
    PROVE  Exact'
<1>1. UNCHANGED <<undo, db, dbBest, index>> /\ job.kind = "remove" /\ job.i = 0 /\ TypeOK
      /\ job \in Job /\ job.block \in Block \ {Genesis} /\ FlushView(Parent[job.block])
  BY DEF Disconnected, chainState, TypeInv, TypeOK, Job, DisconnectingOK, UndoFits, Exact
<1>2. TipCoins' = ViewCoins
  BY <1>1, FlushViewCommits DEF Good, LayersOK
<1>3. tipBest' = Parent[job.block] /\ job' = Idle
  BY <1>1 DEF FlushView
<1>4. ViewCoins = UTXOs[Parent[job.block]]
  BY <1>1, StFacts DEF Exact, RemoveExact
<1>5. TipExact' /\ UndoRight'
  BY <1>1, <1>2, <1>3, <1>4 DEF Exact, TipExact, UndoRight
<1> QED BY <1>3, <1>5, ExactIdle

LEMMA ExactFlushStateToDisk ==
    ASSUME TypeInv, Good, Exact, FlushStateToDisk, abort' = "never"
    PROVE  Exact'
<1>1. UNCHANGED <<view, tipBest, undo, job>> /\ tip' = NoEntries /\ index' = undo
      /\ CoinsWritten /\ job = Idle /\ TypeOK
  BY DEF FlushStateToDisk, IndexWritten, TypeInv
<1>2. db' = TipCoins /\ dbBest' = tipBest
  <2>1. ASSUME NEW t \in TxId
        PROVE  (IF IsDirty(tip[t]) THEN tip[t].coins ELSE db[t])
                 = (IF Holds(tip, t) THEN tip[t].coins ELSE db[t])
    <3>1. ~Holds(tip, t) => ~IsDirty(tip[t])
      BY DEF Holds, IsDirty, Absent
    <3>2. Holds(tip, t) /\ ~IsDirty(tip[t]) => tip[t].coins = db[t]
      BY <2>1 DEF Good, LayersOK, Layered
    <3> QED BY <3>1, <3>2
  <2>2. Saved = TipCoins
    BY <2>1 DEF Saved, TipCoins
  <2> QED BY <1>1, <2>2 DEF CoinsWritten
<1>3. TipCoins \in Maps /\ TipCoins' = Through(tip', db')
  BY <1>1, Views DEF TipCoins, Through
<1>4. TipCoins' = TipCoins
  BY <1>1, <1>2, <1>3, NothingCached
<1>5. TipExact' /\ UndoRight'
  BY <1>1, <1>2, <1>4 DEF Exact, TipExact, UndoRight
<1> QED BY <1>1, <1>5, ExactIdle

LEMMA ExactQuiet ==
    ASSUME Exact, UNCHANGED <<view, tipBest, job, db, dbBest, undo>>,
           TipCoins' = TipCoins, index' \in {index, undo}
    PROVE  Exact'
<1>1. ViewCoins' = ViewCoins
  BY DEF ViewCoins
<1>2. TipExact' /\ UndoRight'
  BY DEF Exact, TipExact, UndoRight
<1>3. CheckExact' /\ SpendExact' /\ RemoveExact'
  BY <1>1 DEF Exact, CheckExact, SpendExact, RemoveExact, CurTx
<1> QED BY <1>2, <1>3 DEF Exact

LEMMA ExactRestart ==
    ASSUME TypeInv, Exact, Restart
    PROVE  Exact'
<1>1. job' = Idle /\ tip' = NoEntries /\ tipBest' = dbBest /\ undo' = index
      /\ UNCHANGED <<db, dbBest, index>> /\ db \in Maps
  BY DEF Restart, TypeInv, TypeOK, Maps
<1>2. TipCoins' = Through(tip', db')
  BY DEF TipCoins, Through
<1>3. TipCoins' = db
  BY <1>1, <1>2, NothingCached
<1>4. TipExact' /\ UndoRight'
  BY <1>1, <1>3 DEF Exact, TipExact, UndoRight
<1> QED BY <1>1, <1>4, ExactIdle

LEMMA ExactStep ==
    ASSUME TypeInv, Good, Exact, [Next]_vars, abort' = "never"
    PROVE  Exact'
<1>1. ASSUME NEW b \in Block, ConnectTip(b) PROVE Exact'
  BY <1>1, ExactConnectTip
<1>2. CASE WriteIndex
  <2>1. UNCHANGED <<view, tip, tipBest, job, db, dbBest, undo>> /\ index' = undo
    BY <1>2 DEF WriteIndex, IndexWritten
  <2>2. TipCoins' = TipCoins
    BY <2>1 DEF TipCoins
  <2> QED BY <2>1, <2>2, ExactQuiet
<1>3. ASSUME NEW t \in TxId, ReadTip(t) PROVE Exact'
  <2>1. UNCHANGED <<view, tipBest, job, db, dbBest, undo, index>> /\ TipReads({t})
    BY <1>3 DEF ReadTip, chainState
  <2>2. TipCoins' = TipCoins
    BY <2>1, TipReadsKeep DEF TypeInv
  <2> QED BY <2>1, <2>2, ExactQuiet
<1>4. ASSUME NEW t \in TxId, Uncache(t) PROVE Exact'
  <2>1. UNCHANGED <<view, tipBest, job, db, dbBest, undo, index>>
        /\ tip' = [tip EXCEPT ![t] = Absent] /\ tip[t].flags = {}
    BY <1>4 DEF Uncache, chainState
  <2>2. tip \in Caches /\ Layered(tip, db)
    BY DEF TypeInv, TypeOK, Caches, Good, LayersOK
  <2>3. tip[t] # Absent /\ tip[t].coins = db[t]
    BY <1>4, <2>1, <2>2 DEF Absent, Layered, Holds, IsDirty
  <2>4. \A s \in TxId : (IF Holds(tip', s) THEN tip'[s].coins ELSE db[s])
                          = (IF Holds(tip, s) THEN tip[s].coins ELSE db[s])
    BY <2>1, <2>2, <2>3 DEF Holds, Caches
  <2>5. TipCoins' = TipCoins
    BY <2>1, <2>4 DEF TipCoins
  <2> QED BY <2>1, <2>5, ExactQuiet
<1>5. CASE UNCHANGED vars
  <2>1. UNCHANGED <<view, tip, tipBest, job, db, dbBest, undo, index>>
    BY <1>5 DEF vars
  <2>2. TipCoins' = TipCoins
    BY <2>1 DEF TipCoins
  <2> QED BY <2>1, <2>2, ExactQuiet
<1> QED BY <1>1, <1>2, <1>3, <1>4, <1>5, ExactCheckTx, ExactSpendInput, ExactAddOutputs,
           ExactRefuseBlock, ExactConnected, ExactDisconnectTip, ExactRemoveOutputs,
           ExactRestoreInput, ExactDisconnected, ExactFlushStateToDisk, ExactRestart DEF Next

ExactInv == Inv /\ (abort = "never" => Exact)

LEMMA ExactInvInit == Init => ExactInv
  BY InvInit, ExactInit DEF ExactInv

LEMMA ExactInvStep == ExactInv /\ [Next]_vars => ExactInv'
  BY InvStep, ExactStep, AbortStays DEF ExactInv, Inv

\* Over any connects, disconnects, flushes, reads and crashes, what pcoinsTip
\* answers is what replaying the chain to its best block gives: no coin of an
\* abandoned branch stays, and none that it had spent is lost.
THEOREM TipIsReplay == Spec => []TipMatchesChain
<1>1. ExactInv => TipMatchesChain
  BY DEF ExactInv, Exact, TipExact, TipMatchesChain
<1> QED BY <1>1, ExactInvInit, ExactInvStep, PTL DEF Spec

\* The database is at any moment what replaying the chain to its own best
\* block gives, so a restart finds a state it can go on from.
THEOREM DatabaseIsReplay == Spec => []DbMatchesBest
<1>1. ExactInv => DbMatchesBest
  BY DEF ExactInv, Exact, TipExact, DbMatchesBest
<1> QED BY <1>1, ExactInvInit, ExactInvStep, PTL DEF Spec

-----------------------------------------------------------------------------
(* The assertion of UpdateCoins, also after a failed write.                *)

\* Even where flags lie, ModifyCoins changes one answer, and to c unless c is
\* pruned.
LEMMA ModifiedAnyway ==
    ASSUME NEW cache \in Caches, NEW base \in Maps, NEW t \in TxId, NEW c \in CCoins, NEW s \in TxId
    PROVE  /\ s # t => Through(Modified(cache, t, base, c), base)[s] = Through(cache, base)[s]
           /\ c # Null => Through(Modified(cache, t, base, c), base)[t] = c
<1> DEFINE flags == CASE Holds(cache, t) -> cache[t].flags
                      [] ~Holds(cache, t) /\ base[t] = Null -> {"FRESH"}
                      [] OTHER -> {}
           e == [coins |-> c, flags |-> flags \cup {"DIRTY"}]
           new == Modified(cache, t, base, c)
<1>1. flags \in SUBSET {"DIRTY", "FRESH"}
  BY AbsentEntry DEF Caches, Entry, Holds
<1>2. e \in Entry /\ e.coins = c
  BY <1>1 DEF Entry
<1>3. new = [cache EXCEPT ![t] = Settled(e)]
  BY DEF Modified
<1> HIDE DEF flags, e, new
<1>4. (s # t => new[s] = cache[s]) /\ new[t] = Settled(e)
  BY <1>3 DEF Caches
<1>5. c # Null => new[t] = e /\ e # Absent
  BY <1>2, <1>4, SettledEntry, AbsentEntry
<1>6. /\ s # t => Through(new, base)[s] = Through(cache, base)[s]
      /\ c # Null => Through(new, base)[t] = c
  BY <1>2, <1>4, <1>5 DEF Through, Holds
<1> QED BY <1>6 DEF new

Available ==
    job.kind = "spend" =>
        \A k \in 1..Len(CurInputs) :
            k >= job.j => CurInputs[k][2] \in ViewCoins[CurInputs[k][1]].outs

LEMMA AvailableStep == TypeInv /\ Available /\ [Next]_vars => Available'
<1> SUFFICES ASSUME TypeInv, Available, [Next]_vars PROVE Available'
  OBVIOUS
<1>0. TypeOK /\ job \in Job
  BY DEF TypeInv, TypeOK
<1>1. CASE job' = Idle
  BY <1>1, IdleJob DEF Available
<1>2. CASE job'.kind # "spend"
  BY <1>2 DEF Available
<1>3. CASE CheckTx
  <2>1. UNCHANGED db /\ job.kind = "check" /\ job.j = 1
    BY <1>3 DEF CheckTx, chainState, TypeInv, CheckingOK
  <2>2. CASE job' = [job EXCEPT !.kind = "spend"] /\ (\E S : ViewReads(S))
             /\ {j \in 1..Len(CurInputs) : CurInputs[j][2] \notin ViewCoins[CurInputs[j][1]].outs} = {}
    <3>1. ViewCoins' = ViewCoins
      BY <1>0, <2>1, <2>2, ViewReadsKeep
    <3>2. job'.block = job.block /\ job'.i = job.i
      BY <1>0, <2>2 DEF Job
    <3>3. CurInputs' = CurInputs
      BY <3>2 DEF CurInputs, CurTx
    <3> QED BY <2>2, <3>1, <3>3 DEF Available
  <2>3. CASE DropView
    BY <1>1, <2>3 DEF DropView
  <2> QED BY <1>3, <2>2, <2>3 DEF CheckTx
<1>4. CASE SpendInput
  <2> DEFINE t == CurInputs[job.j][1]  n == CurInputs[job.j][2]  c == ViewCoins[t]
  <2>1. UNCHANGED db /\ job.kind = "spend" /\ job.block \in Block
    BY <1>0, <1>4 DEF SpendInput, chainState, Job
  <2>2. job.i \in 1..Len(Txs[job.block]) /\ job.block # Genesis
    BY <2>1 DEF TypeInv, ConnectingOK, SpendingOK, MoreTxs
  <2>3. CurTx \in TxId /\ Len(CurInputs) \in Nat /\ CurInputs = Inputs[CurTx]
        /\ \A k \in 1..Len(CurInputs) : CurInputs[k] \in TxId \X (Nat \ {0})
    BY <1>0, <2>2, Current DEF CurInputs
  <2>4. job.j \in 1..Len(CurInputs)
    BY <1>4, <2>1, <2>3 DEF SpendInput, TypeInv, SpendingOK
  <2>5. t \in TxId /\ n \in c.outs /\ ViewModifies(t, Spend(c, n))
    BY <1>4, <2>3, <2>4 DEF SpendInput
  <2>6. c \in CCoins /\ Spend(c, n) \in CCoins /\ ViewCoins \in Maps /\ TipCoins \in Maps
        /\ view \in Caches
    BY <1>0, <2>5, Views, CoinsTypes DEF Maps, TypeOK, Caches
  <2>7. job'.kind = "spend" /\ job'.block = job.block /\ job'.i = job.i /\ job'.j = job.j + 1
    BY <1>0, <1>4 DEF SpendInput, Job
  <2>8. CurInputs' = CurInputs
    BY <2>7 DEF CurInputs, CurTx
  <2>9. \A k \in 1..Len(CurInputs) : k # job.j => CurInputs[k] # <<t, n>>
    <3>1. CurInputs[job.j] = <<t, n>>
      BY <2>3, <2>4
    <3>2. \A j, k \in 1..Len(CurInputs) : CurInputs[j] = CurInputs[k] => j = k
      BY <2>3, BlocksAssumption
    <3> QED BY <3>1, <3>2, <2>4
  <2> HIDE DEF t, n, c
  <2>10. TipCoins' = TipCoins /\ view' = Modified(view, t, TipCoins, Spend(c, n))
    <3>1. PICK R : TipReads(R)
      BY <2>5 DEF ViewModifies
    <3> QED BY <1>0, <2>1, <2>5, <3>1, TipReadsKeep DEF ViewModifies
  <2>11. ViewCoins' = Through(view', TipCoins') /\ ViewCoins = Through(view, TipCoins)
    BY DEF ViewCoins, Through
  <2>12. ASSUME NEW s \in TxId
         PROVE  /\ s # t => ViewCoins'[s] = ViewCoins[s]
                /\ Spend(c, n) # Null => ViewCoins'[t] = Spend(c, n)
    <3> DEFINE d == Spend(c, n)
    <3>1. d \in CCoins /\ view' = Modified(view, t, TipCoins, d)
      BY <2>6, <2>10
    <3> HIDE DEF d
    <3>2. /\ s # t => ViewCoins'[s] = ViewCoins[s]
          /\ d # Null => ViewCoins'[t] = d
      BY <2>5, <2>6, <2>10, <2>11, <3>1, ModifiedAnyway
    <3> QED BY <3>2 DEF d
  <2>13. ASSUME NEW k \in 1..Len(CurInputs), k >= job.j + 1
         PROVE  CurInputs[k][2] \in ViewCoins'[CurInputs[k][1]].outs
    <3>1. CurInputs[k] # <<t, n>> /\ k >= job.j
      BY <2>3, <2>4, <2>9, <2>13
    <3>2. CurInputs[k][2] \in ViewCoins[CurInputs[k][1]].outs
      BY <2>1, <2>13, <3>1 DEF Available
    <3>3. CurInputs[k][1] \in TxId /\ CurInputs[k] = <<CurInputs[k][1], CurInputs[k][2]>>
      BY <2>3, <2>13
    <3>4. CASE CurInputs[k][1] # t
      BY <2>12, <3>2, <3>3, <3>4
    <3>5. CASE CurInputs[k][1] = t
      <4>1. CurInputs[k][2] # n /\ CurInputs[k][2] \in c.outs
        BY <3>1, <3>2, <3>3, <3>5 DEF c
      <4>2. CurInputs[k][2] \in Spend(c, n).outs
        BY <2>6, <4>1 DEF Spend, Cleanup, CCoins
      <4>3. Spend(c, n) # Null
        BY <4>2 DEF Null
      <4> QED BY <2>5, <2>12, <3>5, <4>2, <4>3
    <3> QED BY <3>4, <3>5
  <2> QED BY <2>7, <2>8, <2>13 DEF Available
<1>5. CASE UNCHANGED <<view, tip, db, job>>
  BY <1>5 DEF Available, CurInputs, CurTx, ViewCoins, TipCoins
<1>6. CASE AddOutputs
  <2>1. job'.kind = "check"
    BY <1>0, <1>6 DEF AddOutputs, Job
  <2> QED BY <1>2, <2>1
<1>7. CASE RemoveOutputs
  <2>1. PICK clean :
           \/ job' = [job EXCEPT !.clean = clean, !.kind = "restore", !.j = Len(CurInputs)]
           \/ job' = [job EXCEPT !.clean = clean, !.i = job.i - 1]
    BY <1>7 DEF RemoveOutputs
  <2>2. job'.kind # "spend"
    BY <1>0, <1>7, <2>1 DEF RemoveOutputs, Job
  <2> QED BY <1>2, <2>2
<1>11. CASE RestoreInput
  <2>1. PICK clean :
           \/ job' = [job EXCEPT !.clean = clean, !.j = job.j - 1]
           \/ job' = [job EXCEPT !.clean = clean, !.kind = "remove", !.i = job.i - 1, !.j = 0]
    BY <1>11 DEF RestoreInput
  <2>2. job'.kind # "spend"
    BY <1>0, <1>11, <2>1 DEF RestoreInput, Job
  <2> QED BY <1>2, <2>2
<1>8. CASE (\E b \in Block : ConnectTip(b)) \/ DisconnectTip
  <2>1. job'.kind # "spend"
    BY <1>8 DEF ConnectTip, DisconnectTip
  <2> QED BY <1>2, <2>1
<1>9. CASE RefuseBlock \/ Connected \/ Disconnected \/ Restart
  BY <1>1, <1>9 DEF RefuseBlock, Connected, Disconnected, Restart, DropView, FlushView
<1>10. CASE WriteIndex \/ FlushStateToDisk \/ \E t \in TxId : ReadTip(t) \/ Uncache(t)
  BY <1>1, <1>10 DEF WriteIndex, FlushStateToDisk, ReadTip, Uncache
<1> QED BY <1>3, <1>4, <1>5, <1>6, <1>7, <1>8, <1>9, <1>10, <1>11 DEF Next, vars

\* The assertion in UpdateCoins holds, also after a failed write, and no block
\* that was connected is refused by its own undo data while no write fails.
THEOREM UndoNeverSurprises == Spec => []NoSurprise
<1>1. Init => Available
  BY IdleJob DEF Init, Available
<1>2. ExactInv /\ Available => NoSurprise
  <2> SUFFICES ASSUME ExactInv, Available PROVE NoSurprise
    OBVIOUS
  <2>1. abort = "never" => job.clean
    BY DEF ExactInv, Exact
  <2>2. ASSUME job.kind = "spend", job.j <= Len(CurInputs)
        PROVE  CurInputs[job.j][2] \in ViewCoins[CurInputs[job.j][1]].outs
    <3>1. TypeOK /\ job.i \in 1..Len(Txs[job.block]) /\ job.j \in 1..(Len(CurInputs) + 1)
      BY <2>2 DEF ExactInv, Inv, TypeInv, ConnectingOK, SpendingOK, MoreTxs
    <3>2. Len(CurInputs) \in Nat
      BY <3>1, Current
    <3>3. job.j \in 1..Len(CurInputs) /\ job.j >= job.j
      BY <2>2, <3>1, <3>2
    <3> QED BY <2>2, <3>3 DEF Available
  <2> QED BY <2>1, <2>2 DEF NoSurprise
<1>3. ExactInv => TypeInv
  BY DEF ExactInv, Inv
<1> QED BY <1>1, <1>2, <1>3, ExactInvInit, ExactInvStep, AvailableStep, PTL DEF Spec

-----------------------------------------------------------------------------
(* Undo data on disk, for all the way back.                                *)

LEMMA ChainIs ==
    /\ Chain[Genesis] = {}
    /\ \A b \in Block \ {Genesis} : Chain[b] = {b} \cup Chain[Parent[b]]
<1> DEFINE S == SUBSET Block
           step == [b \in Block |-> [c \in S |-> {b} \cup c]]
<1>1. {} \in S /\ step \in [Block -> [S -> S]]
  OBVIOUS
<1>2. PICK f \in [Block -> S] :
         f[Genesis] = {} /\ \A b \in Block \ {Genesis} : f[b] = step[b][f[Parent[b]]]
  <2> HIDE DEF step, S
  <2> QED BY <1>1, TreeRecursion
<1>3. \A b \in Block \ {Genesis} : f[b] = {b} \cup f[Parent[b]]
  <2>1. \A b \in Block \ {Genesis} : Parent[b] \in Block
    BY BlocksAssumption
  <2> QED BY <1>2, <2>1
<1>4. f = [b \in Block |-> IF b = Genesis THEN {} ELSE {b} \cup f[Parent[b]]]
  BY <1>2, <1>3
<1>5. Chain = [b \in Block |-> IF b = Genesis THEN {} ELSE {b} \cup Chain[Parent[b]]]
  BY <1>4 DEF Chain
<1> QED BY <1>5, BlocksAssumption

\* The undo data in memory reaches back from the tip, that of the index from
\* the best block of the database, and the index has no more than the memory.
WayBack ==
    /\ Chain[tipBest] \subseteq DOMAIN undo /\ Chain[dbBest] \subseteq DOMAIN index
    /\ DOMAIN index \subseteq DOMAIN undo

LEMMA WayBackStep == TypeInv /\ WayBack /\ [Next]_vars => WayBack'
<1> SUFFICES ASSUME TypeInv, WayBack, [Next]_vars PROVE WayBack'
  OBVIOUS
<1>1. CASE UNCHANGED <<tipBest, dbBest, undo, index>>
  BY <1>1 DEF WayBack
<1>2. CASE Connected
  <2>1. UNCHANGED <<dbBest, index>> /\ tipBest' = job.block /\ job.kind = "check"
        /\ undo' = [b \in DOMAIN undo \cup {job.block} |->
                       IF b \in DOMAIN undo THEN undo[b] ELSE job.undo]
    BY <1>2 DEF Connected, FlushView, chainState
  <2>2. DOMAIN undo' = DOMAIN undo \cup {job.block}
    BY <2>1
  <2>3. job.block \in Block \ {Genesis} /\ Parent[job.block] = tipBest
    BY <2>1 DEF TypeInv, TypeOK, ConnectingOK, Job
  <2>4. Chain[job.block] = {job.block} \cup Chain[tipBest]
    BY <2>3, ChainIs
  <2> QED BY <2>1, <2>2, <2>4 DEF WayBack
<1>3. CASE Disconnected
  <2>1. UNCHANGED <<undo, dbBest, index>> /\ tipBest' \in {tipBest, Parent[job.block]}
        /\ job.kind = "remove"
    BY <1>3 DEF Disconnected, FlushView, chainState
  <2>2. job.block = tipBest /\ job.block \in Block \ {Genesis}
    BY <2>1 DEF TypeInv, TypeOK, Job, DisconnectingOK, UndoFits
  <2>3. Chain[tipBest] = {tipBest} \cup Chain[Parent[tipBest]]
    BY <2>2, ChainIs
  <2> QED BY <2>1, <2>2, <2>3 DEF WayBack
<1>4. CASE WriteIndex \/ FlushStateToDisk
  <2>1. UNCHANGED <<tipBest, undo>> /\ index' = undo /\ dbBest' \in {dbBest, tipBest}
    BY <1>4 DEF WriteIndex, FlushStateToDisk, IndexWritten, CoinsWritten
  <2> QED BY <2>1 DEF WayBack
<1>5. CASE Restart
  BY <1>5 DEF Restart, WayBack
<1> QED BY <1>1, <1>2, <1>3, <1>4, <1>5 DEF Next, vars, chainState, ConnectTip, CheckTx, DropView,
        SpendInput, AddOutputs, RefuseBlock, DisconnectTip, RemoveOutputs, RestoreInput,
        ReadTip, Uncache

\* Whenever the process dies, also after failed writes, the block index on disk
\* has the undo data of every block from the database's best block back to the
\* first one: the node can disconnect any of them after it restarts.
THEOREM UndoReachesBack == Spec => []UndoIsSaved
<1>1. Init => WayBack
  BY ChainIs DEF Init, WayBack
<1>2. WayBack => UndoIsSaved
  BY DEF WayBack, UndoIsSaved
<1> QED BY <1>1, <1>2, TypeInit, TypeStep, WayBackStep, PTL DEF Spec

-----------------------------------------------------------------------------
(* Sums over the transactions.                                             *)

Pick(s) == CHOOSE x \in s : TRUE

\* I is what adding up f one element after the other gives.
Adds(I, f) ==
    I = [s \in SUBSET TxId |-> IF s = {} THEN 0 ELSE f[Pick(s)] + I[s \ {Pick(s)}]]

LEMMA PickOne ==
    ASSUME NEW s \in SUBSET TxId, s # {}
    PROVE  /\ Pick(s) \in s /\ Pick(s) \in TxId /\ s \ {Pick(s)} \in SUBSET TxId
           /\ IsFiniteSet(s) /\ Cardinality(s) \in Nat
           /\ Cardinality(s \ {Pick(s)}) = Cardinality(s) - 1
<1>1. Pick(s) \in s
  BY DEF Pick
<1>2. IsFiniteSet(s)
  BY TxIdAssumption, FS_Subset
<1> QED BY <1>1, <1>2, FS_RemoveElement, FS_CardinalityType

LEMMA SubsetInduction ==
    ASSUME NEW G \in SUBSET (SUBSET TxId), {} \in G,
           \A s \in SUBSET TxId : s # {} /\ s \ {Pick(s)} \in G => s \in G
    PROVE  G = SUBSET TxId
<1> SUFFICES ASSUME NEW s \in SUBSET TxId PROVE s \in G
  OBVIOUS
<1>1. IsFiniteSet(TxId) /\ \A r \in SUBSET TxId : IsFiniteSet(r) /\ Cardinality(r) \in Nat
  BY TxIdAssumption, FS_Subset, FS_CardinalityType
<1> DEFINE n == Cardinality(s)
           Q(k) == \A r \in SUBSET TxId : Cardinality(r) <= k => r \in G
           K == {k \in 0..n : Q(k)}
<1>2. n \in Nat
  BY <1>1
<1>3. 0 \in K
  <2>1. ASSUME NEW r \in SUBSET TxId, Cardinality(r) <= 0 PROVE r \in G
    <3>1. r = {}
      BY <1>1, <2>1, FS_EmptySet
    <3> QED BY <3>1
  <2>2. Q(0)
    BY <2>1
  <2> HIDE DEF Q, n
  <2> QED BY <1>2, <2>2
<1>4. ASSUME NEW k \in K, k < n PROVE k + 1 \in K
  <2>1. k \in 0..n /\ Q(k)
    BY <1>4
  <2>2. ASSUME NEW r \in SUBSET TxId, Cardinality(r) <= k + 1 PROVE r \in G
    <3>1. CASE r = {}
      BY <3>1
    <3>2. CASE r # {}
      <4>1. Cardinality(r \ {Pick(r)}) <= k /\ r \ {Pick(r)} \in SUBSET TxId
        <5> HIDE DEF n, Q
        <5> QED BY <1>1, <1>2, <2>1, <2>2, <3>2, PickOne
      <4>2. r \ {Pick(r)} \in G
        BY <2>1, <4>1
      <4> QED BY <3>2, <4>2
    <3> QED BY <3>1, <3>2
  <2>3. Q(k + 1)
    BY <2>2
  <2> HIDE DEF Q, n
  <2> QED BY <1>2, <1>4, <2>1, <2>3
<1>5. K = 0..n
  <2>1. K \in SUBSET (0..n)
    OBVIOUS
  <2> HIDE DEF K, n
  <2> QED BY <1>2, <1>3, <1>4, <2>1, IntervalInduction
<1>6. n \in K
  <2> HIDE DEF K, n
  <2> QED BY <1>2, <1>5
<1>7. Q(n)
  BY <1>6
<1> QED BY <1>2, <1>7

\* Adding up has a result, and Total is it.
LEMMA TotalIs ==
    ASSUME NEW f \in [TxId -> Int]
    PROVE  \E I : Adds(I, f) /\ Total(f) = I[TxId]
<1> DEFINE n == Cardinality(TxId)
           Upto(I, k) == \A s \in SUBSET TxId : Cardinality(s) <= k =>
                            I[s] = IF s = {} THEN 0 ELSE f[Pick(s)] + I[s \ {Pick(s)}]
           K == {k \in 0..n : \E I : I = [s \in SUBSET TxId |-> I[s]] /\ Upto(I, k)}
<1>1. n \in Nat /\ \A s \in SUBSET TxId : IsFiniteSet(s) /\ Cardinality(s) \in Nat /\ Cardinality(s) <= n
  BY TxIdAssumption, FS_Subset, FS_CardinalityType
<1>2. \A s \in SUBSET TxId : Cardinality(s) <= 0 => s = {}
  BY <1>1, FS_EmptySet
<1> HIDE DEF Upto
<1>3. 0 \in K
  <2> DEFINE I == [s \in SUBSET TxId |-> 0]
  <2>1. I = [s \in SUBSET TxId |-> I[s]] /\ Upto(I, 0)
    BY <1>2 DEF Upto
  <2> HIDE DEF I
  <2>2. \E J : J = [s \in SUBSET TxId |-> J[s]] /\ Upto(J, 0)
    BY <2>1
  <2> QED BY <1>1, <2>2
<1>4. ASSUME NEW k \in K, k < n PROVE k + 1 \in K
  <2>1. PICK I : I = [s \in SUBSET TxId |-> I[s]] /\ Upto(I, k)
    BY <1>4
  <2> DEFINE J == [s \in SUBSET TxId |-> IF s = {} THEN 0 ELSE f[Pick(s)] + I[s \ {Pick(s)}]]
  <2>2. k \in Nat
    BY <1>1, <1>4
  <2>3. ASSUME NEW s \in SUBSET TxId, Cardinality(s) <= k PROVE J[s] = I[s]
    BY <2>1, <2>3 DEF Upto
  <2>4. ASSUME NEW s \in SUBSET TxId, Cardinality(s) <= k + 1
        PROVE  J[s] = IF s = {} THEN 0 ELSE f[Pick(s)] + J[s \ {Pick(s)}]
    <3>1. CASE s = {}
      BY <3>1
    <3>2. CASE s # {}
      <4>1. s \ {Pick(s)} \in SUBSET TxId /\ Cardinality(s \ {Pick(s)}) <= k
        BY <1>1, <2>2, <2>4, <3>2, PickOne
      <4>2. J[s \ {Pick(s)}] = I[s \ {Pick(s)}]
        BY <2>3, <4>1
      <4>3. J[s] = f[Pick(s)] + I[s \ {Pick(s)}]
        BY <3>2
      <4> HIDE DEF J
      <4> QED BY <3>2, <4>2, <4>3
    <3> HIDE DEF J
    <3> QED BY <3>1, <3>2
  <2>5. J = [s \in SUBSET TxId |-> J[s]]
    OBVIOUS
  <2> HIDE DEF J
  <2>6. Upto(J, k + 1)
    BY <2>4 DEF Upto
  <2>7. \E L : L = [s \in SUBSET TxId |-> L[s]] /\ Upto(L, k + 1)
    BY <2>5, <2>6
  <2> QED BY <1>1, <1>4, <2>7
<1>5. K = 0..n
  <2>1. K \in SUBSET (0..n)
    OBVIOUS
  <2> HIDE DEF K, n
  <2> QED BY <1>1, <1>3, <1>4, <2>1, IntervalInduction
<1>6. n \in K
  <2> HIDE DEF K, n
  <2> QED BY <1>1, <1>5
<1>7. PICK I : I = [s \in SUBSET TxId |-> I[s]] /\ Upto(I, n)
  BY <1>6
<1>8. \A s \in SUBSET TxId : I[s] = IF s = {} THEN 0 ELSE f[Pick(s)] + I[s \ {Pick(s)}]
  BY <1>1, <1>7 DEF Upto
<1>9. Adds(I, f)
  <2> DEFINE g(s) == IF s = {} THEN 0 ELSE f[Pick(s)] + I[s \ {Pick(s)}]
  <2>1. \A s \in SUBSET TxId : I[s] = g(s)
    BY <1>8
  <2> HIDE DEF g
  <2>2. [s \in SUBSET TxId |-> I[s]] = [s \in SUBSET TxId |-> g(s)]
    BY <2>1
  <2>3. I = [s \in SUBSET TxId |-> g(s)]
    BY <1>7, <2>2
  <2> QED BY <2>3 DEF Adds, g
<1>10. Adds(CHOOSE A : Adds(A, f), f)
  BY <1>9
<1>11. Total(f) = (CHOOSE A : Adds(A, f))[TxId]
  BY DEF Total, MapThenSumSet, MapThenFoldSet, Pick, Adds
<1> QED BY <1>10, <1>11

LEMMA AddsFacts ==
    ASSUME NEW I, NEW f, Adds(I, f)
    PROVE  /\ I[{}] = 0
           /\ \A s \in SUBSET TxId : s # {} => I[s] = f[Pick(s)] + I[s \ {Pick(s)}]
<1> DEFINE g(s) == IF s = {} THEN 0 ELSE f[Pick(s)] + I[s \ {Pick(s)}]
<1>1. I = [s \in SUBSET TxId |-> g(s)]
  BY DEF Adds
<1>2. g({}) = 0 /\ \A s : s # {} => g(s) = f[Pick(s)] + I[s \ {Pick(s)}]
  OBVIOUS
<1> HIDE DEF g
<1>3. \A s \in SUBSET TxId : I[s] = g(s)
  BY <1>1
<1> QED BY <1>2, <1>3

LEMMA AddsInt ==
    ASSUME NEW f \in [TxId -> Int], NEW I, Adds(I, f)
    PROVE  \A s \in SUBSET TxId : I[s] \in Int
<1> DEFINE G == {s \in SUBSET TxId : I[s] \in Int}
<1>1. {} \in G
  BY AddsFacts
<1>2. ASSUME NEW s \in SUBSET TxId, s # {}, s \ {Pick(s)} \in G PROVE s \in G
  <2>1. f[Pick(s)] \in Int /\ I[s \ {Pick(s)}] \in Int
    BY <1>2, PickOne
  <2>2. I[s] = f[Pick(s)] + I[s \ {Pick(s)}]
    BY <1>2, AddsFacts
  <2> QED BY <2>1, <2>2
<1>3. G = SUBSET TxId
  <2>1. G \in SUBSET (SUBSET TxId)
    OBVIOUS
  <2> HIDE DEF G
  <2> QED BY <1>1, <1>2, <2>1, SubsetInduction
<1> QED BY <1>3

\* Sums add up.
LEMMA TotalAdds ==
    ASSUME NEW f \in [TxId -> Int], NEW g \in [TxId -> Int], NEW h \in [TxId -> Int],
           \A t \in TxId : h[t] = f[t] + g[t]
    PROVE  /\ Total(f) \in Int /\ Total(g) \in Int /\ Total(h) = Total(f) + Total(g)
<1>1. PICK F : Adds(F, f) /\ Total(f) = F[TxId]
  BY TotalIs
<1>2. PICK H : Adds(H, h) /\ Total(h) = H[TxId]
  BY TotalIs
<1>3. PICK L : Adds(L, g) /\ Total(g) = L[TxId]
  BY TotalIs
<1>4. \A s \in SUBSET TxId : F[s] \in Int /\ L[s] \in Int /\ H[s] \in Int
  BY <1>1, <1>2, <1>3, AddsInt
<1>f. \A s \in SUBSET TxId : s # {} => F[s] = f[Pick(s)] + F[s \ {Pick(s)}]
  BY <1>1, AddsFacts
<1>h. \A s \in SUBSET TxId : s # {} => H[s] = h[Pick(s)] + H[s \ {Pick(s)}]
  BY <1>2, AddsFacts
<1>g. \A s \in SUBSET TxId : s # {} => L[s] = g[Pick(s)] + L[s \ {Pick(s)}]
  BY <1>3, AddsFacts
<1> DEFINE G == {s \in SUBSET TxId : H[s] = F[s] + L[s]}
<1>5. {} \in G
  <2>1. H[{}] = 0 /\ F[{}] = 0 /\ L[{}] = 0
    BY <1>1, <1>2, <1>3, AddsFacts
  <2> QED BY <2>1
<1>6. ASSUME NEW s \in SUBSET TxId, s # {}, s \ {Pick(s)} \in G PROVE s \in G
  <2> DEFINE x == Pick(s)  r == s \ {Pick(s)}
  <2>1. x \in TxId /\ r \in SUBSET TxId
    BY <1>6, PickOne
  <2>2. H[s] = h[x] + H[r] /\ F[s] = f[x] + F[r] /\ L[s] = g[x] + L[r]
    <3> HIDE DEF G
    <3> QED BY <1>f, <1>g, <1>h, <1>6
  <2>3. H[r] = F[r] + L[r] /\ h[x] = f[x] + g[x]
    BY <1>6, <2>1
  <2>4. f[x] \in Int /\ g[x] \in Int /\ F[r] \in Int /\ L[r] \in Int
    BY <1>4, <2>1
  <2> HIDE DEF x, r
  <2>5. H[s] = F[s] + L[s]
    BY <2>2, <2>3, <2>4
  <2> QED BY <2>5
<1>7. G = SUBSET TxId
  <2>1. G \in SUBSET (SUBSET TxId)
    OBVIOUS
  <2> HIDE DEF G
  <2> QED BY <1>5, <1>6, <2>1, SubsetInduction
<1>8. TxId \in G
  BY <1>7
<1> QED BY <1>1, <1>2, <1>3, <1>4, <1>8

\* The sum of a function that is 0 everywhere, or everywhere but for x.
LEMMA TotalOfOne ==
    ASSUME NEW f \in [TxId -> Int], NEW x \in TxId, \A t \in TxId : t # x => f[t] = 0
    PROVE  Total(f) = f[x]
<1>1. PICK F : Adds(F, f) /\ Total(f) = F[TxId]
  BY TotalIs
<1> DEFINE G == {s \in SUBSET TxId : F[s] = IF x \in s THEN f[x] ELSE 0}
<1>2. {} \in G
  BY <1>1, AddsFacts
<1>3. ASSUME NEW s \in SUBSET TxId, s # {}, s \ {Pick(s)} \in G PROVE s \in G
  <2> DEFINE y == Pick(s)  r == s \ {Pick(s)}
  <2>1. y \in TxId /\ y \in s /\ r \in SUBSET TxId /\ (x \in r <=> x \in s /\ x # y)
    BY <1>3, PickOne
  <2>2. F[s] = f[y] + F[r] /\ F[r] = IF x \in r THEN f[x] ELSE 0
    BY <1>1, <1>3, AddsFacts
  <2>3. f[x] \in Int
    OBVIOUS
  <2> HIDE DEF y, r
  <2>4. F[s] = IF x \in s THEN f[x] ELSE 0
    BY <2>1, <2>2, <2>3
  <2> QED BY <2>4
<1>4. G = SUBSET TxId
  <2>1. G \in SUBSET (SUBSET TxId)
    OBVIOUS
  <2> HIDE DEF G
  <2> QED BY <1>2, <1>3, <2>1, SubsetInduction
<1>5. TxId \in G
  BY <1>4
<1> QED BY <1>1, <1>5

LEMMA TotalOfNone ==
    ASSUME NEW f \in [TxId -> Int], \A t \in TxId : f[t] = 0
    PROVE  Total(f) = 0
<1>1. \A t \in TxId : f[t] = f[t] + f[t]
  OBVIOUS
<1>2. Total(f) \in Int /\ Total(f) = Total(f) + Total(f)
  BY <1>1, TotalAdds
<1>3. \A x \in Int : x = x + x => x = 0
  OBVIOUS
<1> QED BY <1>2, <1>3, Zenon

-----------------------------------------------------------------------------
(* The memory of pcoinsTip.                                                *)

Finite(cache) == \A t \in TxId : IsFiniteSet(cache[t].coins.outs)

\* All coins have finitely many outputs.
CoinsFinite == Finite(tip) /\ Finite(view) /\ \A t \in TxId : IsFiniteSet(db[t].outs)

LEMMA NothingFinite ==
    /\ IsFiniteSet(Null.outs) /\ Cardinality(Null.outs) = 0
    /\ Finite(NoEntries) /\ Memory(Absent) = 0
<1>1. IsFiniteSet({}) /\ Cardinality({}) = 0
  BY FS_EmptySet
<1>2. Null.outs = {} /\ \A t \in TxId : NoEntries[t].coins = Null
  BY DEF Null, NoEntries, Absent
<1> QED BY <1>1, <1>2 DEF Finite, Memory, Absent

LEMMA FetchedFinite ==
    ASSUME NEW cache, Finite(cache), NEW base, \A t \in TxId : IsFiniteSet(base[t].outs), NEW S, NEW held
    PROVE  Finite(Fetched(cache, S, base, held))
  BY DEF Fetched, Finite

LEMMA SettledFinite ==
    ASSUME NEW e, IsFiniteSet(e.coins.outs)
    PROVE  IsFiniteSet(Settled(e).coins.outs)
  BY NothingFinite, AbsentEntry DEF Settled

LEMMA TipReadsFinite ==
    ASSUME CoinsFinite, NEW S, TipReads(S)
    PROVE  Finite(tip')
  BY FetchedFinite DEF TipReads, CoinsFinite

LEMMA AnswersFinite ==
    ASSUME CoinsFinite
    PROVE  \A t \in TxId : IsFiniteSet(TipCoins[t].outs) /\ IsFiniteSet(ViewCoins[t].outs)
  BY DEF CoinsFinite, Finite, TipCoins, ViewCoins

LEMMA ModifiedFinite ==
    ASSUME NEW cache \in Caches, Finite(cache), NEW t \in TxId, NEW c, IsFiniteSet(c.outs), NEW base
    PROVE  Finite(Modified(cache, t, base, c)) /\ Finite(ModifiedNew(cache, t, c))
<1>1. ASSUME NEW flags PROVE Finite([cache EXCEPT ![t] = Settled([coins |-> c, flags |-> flags])])
  <2> DEFINE e == [coins |-> c, flags |-> flags]
  <2>1. IsFiniteSet(Settled(e).coins.outs)
    <3>1. e.coins = c
      OBVIOUS
    <3> HIDE DEF e
    <3> QED BY <3>1, SettledFinite
  <2> HIDE DEF e
  <2>2. \A s \in TxId : [cache EXCEPT ![t] = Settled(e)][s] = IF s = t THEN Settled(e) ELSE cache[s]
    BY DEF Caches
  <2>3. Finite([cache EXCEPT ![t] = Settled(e)])
    BY <2>1, <2>2 DEF Finite
  <2> QED BY <2>3 DEF e
<1>2. \E flags : Modified(cache, t, base, c) = [cache EXCEPT ![t] = Settled([coins |-> c, flags |-> flags])]
  BY DEF Modified
<1>3. ModifiedNew(cache, t, c) = [cache EXCEPT ![t] = Settled([coins |-> c, flags |-> {"DIRTY", "FRESH"}])]
  BY DEF ModifiedNew
<1> QED BY <1>1, <1>2, <1>3

LEMMA ViewModifiesFinite ==
    ASSUME TypeOK, CoinsFinite, UNCHANGED db, NEW t \in TxId, NEW c, IsFiniteSet(c.outs), ViewModifies(t, c)
    PROVE  CoinsFinite'
<1>1. Finite(tip')
  <2>1. PICK R : TipReads(R)
    BY DEF ViewModifies
  <2> QED BY <2>1, TipReadsFinite
<1>2. Finite(view')
  BY ModifiedFinite DEF ViewModifies, CoinsFinite, TypeOK, Caches
<1> QED BY <1>1, <1>2 DEF CoinsFinite

\* A flush of view writes entries of one of the two caches, or none.
LEMMA BatchWriteFinite ==
    ASSUME NEW parent, NEW child, Finite(parent), Finite(child)
    PROVE  Finite(BatchWrite(parent, child))
<1> SUFFICES ASSUME NEW t \in TxId PROVE IsFiniteSet(BatchWrite(parent, child)[t].coins.outs)
  BY DEF Finite
<1> DEFINE us == parent[t]  it == child[t]
<1>1. IsFiniteSet(us.coins.outs) /\ IsFiniteSet(it.coins.outs) /\ IsFiniteSet(Settled(it).coins.outs)
  BY SettledFinite DEF Finite
<1>2. BatchWrite(parent, child)[t] = Written(us, it)
  BY DEF BatchWrite
<1> HIDE DEF us, it
<1>3. \/ Written(us, it) \in {us, Settled(it), Absent}
      \/ Written(us, it) = [coins |-> it.coins, flags |-> us.flags \cup {"DIRTY"}]
  BY DEF Written
<1>4. IsFiniteSet(Absent.coins.outs)
  BY NothingFinite, AbsentEntry
<1> QED BY <1>1, <1>2, <1>3, <1>4

LEMMA FiniteStep == TypeInv /\ CoinsFinite /\ [Next]_vars => CoinsFinite'
<1> SUFFICES ASSUME TypeInv, CoinsFinite, [Next]_vars PROVE CoinsFinite'
  OBVIOUS
<1>0. TypeOK /\ job \in Job
  BY DEF TypeInv, TypeOK
<1>1. CASE UNCHANGED <<view, tip, db>>
  BY <1>1 DEF CoinsFinite
<1>2. CASE CheckTx
  <2>1. UNCHANGED db
    BY <1>2 DEF CheckTx, chainState
  <2>2. ASSUME NEW S, ViewReads(S) PROVE CoinsFinite'
    <3>1. PICK R : TipReads(R)
      BY <2>2 DEF ViewReads
    <3>2. Finite(tip')
      BY <3>1, TipReadsFinite
    <3>3. Finite(view')
      BY <2>2, AnswersFinite, FetchedFinite DEF ViewReads, CoinsFinite
    <3> QED BY <2>1, <3>2, <3>3 DEF CoinsFinite
  <2>3. ASSUME NEW S, TipReads(S), DropView PROVE CoinsFinite'
    <3>1. Finite(tip')
      BY <2>3, TipReadsFinite
    <3> QED BY <2>1, <2>3, <3>1, NothingFinite DEF CoinsFinite, DropView
  <2> QED BY <1>2, <2>2, <2>3 DEF CheckTx
<1>3. CASE SpendInput
  <2> DEFINE t == CurInputs[job.j][1]  n == CurInputs[job.j][2]  c == ViewCoins[t]
  <2>1. UNCHANGED db /\ job.kind = "spend" /\ job.j <= Len(CurInputs)
    BY <1>3 DEF SpendInput, chainState
  <2>2. job.i \in 1..Len(Txs[job.block]) /\ job.j \in 1..(Len(CurInputs) + 1)
    BY <2>1 DEF TypeInv, ConnectingOK, SpendingOK, MoreTxs
  <2>3. Len(CurInputs) \in Nat /\ \A k \in 1..Len(CurInputs) : CurInputs[k][1] \in TxId
    BY <1>0, <2>2, Current
  <2>4. t \in TxId /\ ViewModifies(t, Spend(c, n))
    BY <1>3, <2>1, <2>2, <2>3 DEF SpendInput
  <2>5. IsFiniteSet(Spend(c, n).outs)
    <3>1. IsFiniteSet(c.outs) /\ c \in CCoins
      BY <1>0, <2>4, AnswersFinite, Views DEF Maps
    <3> HIDE DEF c, n
    <3>2. Spend(c, n).outs \in SUBSET c.outs
      BY <3>1 DEF Spend, Cleanup, CCoins, Null
    <3> QED BY <3>1, <3>2, FS_Subset
  <2> HIDE DEF t, n, c
  <2> QED BY <1>0, <2>1, <2>4, <2>5, ViewModifiesFinite
<1>4. CASE AddOutputs
  <2> DEFINE c == FromTx(CurTx, Height[job.block])
  <2>1. UNCHANGED db /\ job.kind = "spend"
    BY <1>4 DEF AddOutputs, chainState
  <2>2. CurTx \in TxId
    BY <1>0, <2>1, Current DEF TypeInv, ConnectingOK, SpendingOK, MoreTxs
  <2>3. IsFiniteSet(c.outs)
    <3>1. NOuts[CurTx] \in Int
      BY <2>2, BlocksAssumption
    <3> QED BY <3>1, FS_Interval DEF FromTx
  <2>4. ViewModifies(CurTx, c) \/ (view' = ModifiedNew(view, CurTx, c) /\ UNCHANGED tip)
    BY <1>4 DEF AddOutputs
  <2> HIDE DEF c
  <2>5. CASE ViewModifies(CurTx, c)
    BY <1>0, <2>1, <2>2, <2>3, <2>5, ViewModifiesFinite
  <2>6. CASE view' = ModifiedNew(view, CurTx, c) /\ UNCHANGED tip
    BY <1>0, <2>1, <2>2, <2>3, <2>6, ModifiedFinite DEF CoinsFinite, TypeOK, Caches
  <2> QED BY <2>4, <2>5, <2>6
<1>5. CASE RemoveOutputs
  <2>1. UNCHANGED db /\ job.kind = "remove" /\ job.i > 0 /\ ViewModifies(CurTx, Null)
    BY <1>5 DEF RemoveOutputs, chainState
  <2>2. CurTx \in TxId
    <3>1. job.i \in 1..Len(Txs[job.block])
      BY <1>0, <2>1 DEF TypeInv, DisconnectingOK
    <3> QED BY <1>0, <3>1, Current
  <2> QED BY <1>0, <2>1, <2>2, NothingFinite, ViewModifiesFinite
<1>6. CASE RestoreInput
  <2> DEFINE t == CurInputs[job.j][1]  n == CurInputs[job.j][2]  h == job.undo[job.i][job.j]
             c == ViewCoins[t]
  <2>1. UNCHANGED db /\ job.kind = "restore" /\ ViewModifies(t, Restored(c, n, h))
    BY <1>6 DEF RestoreInput, chainState
  <2>2. job.i \in 1..Len(Txs[job.block]) /\ job.j \in 1..Len(CurInputs)
    BY <1>0, <2>1 DEF TypeInv, DisconnectingOK
  <2>3. t \in TxId
    BY <1>0, <2>2, Current
  <2>4. c \in CCoins /\ IsFiniteSet(c.outs)
    BY <1>0, <2>3, AnswersFinite, Views DEF Maps
  <2> HIDE DEF t, n, h, c
  <2>5. IsFiniteSet(Restored(c, n, h).outs)
    <3>1. Restored(c, n, h).outs \in {{n}, c.outs \cup {n}}
      BY <2>4 DEF Restored, CCoins
    <3>2. IsFiniteSet({n})
      BY FS_Singleton
    <3>3. IsFiniteSet(c.outs \cup {n})
      BY <2>4, FS_AddElement
    <3> QED BY <3>1, <3>2, <3>3
  <2> QED BY <1>0, <2>1, <2>3, <2>5, ViewModifiesFinite
<1>7. CASE RefuseBlock
  BY <1>7, NothingFinite DEF RefuseBlock, DropView, CoinsFinite, chainState
<1>8. CASE Connected \/ Disconnected
  <2>1. UNCHANGED db /\ ((\E b : FlushView(b)) \/ (DropView /\ UNCHANGED tip))
    BY <1>8 DEF Connected, Disconnected, chainState
  <2>2. view' = NoEntries /\ (tip' = BatchWrite(tip, view) \/ UNCHANGED tip)
    BY <2>1 DEF FlushView, DropView
  <2> QED BY <2>1, <2>2, BatchWriteFinite, NothingFinite DEF CoinsFinite
<1>9. CASE FlushStateToDisk
  <2>1. tip' = NoEntries /\ UNCHANGED view /\ (UNCHANGED db \/ db' = Saved)
    BY <1>9 DEF FlushStateToDisk, CoinsWritten
  <2>2. \A t \in TxId : IsFiniteSet(Saved[t].outs)
    BY DEF Saved, CoinsFinite, Finite
  <2> QED BY <2>1, <2>2, NothingFinite DEF CoinsFinite
<1>10. ASSUME NEW t \in TxId, ReadTip(t) PROVE CoinsFinite'
  BY <1>10, TipReadsFinite DEF ReadTip, CoinsFinite, chainState
<1>11. ASSUME NEW t \in TxId, Uncache(t) PROVE CoinsFinite'
  <2>1. tip' = [tip EXCEPT ![t] = Absent] /\ UNCHANGED <<view, db>> /\ tip \in Caches
    BY <1>0, <1>11 DEF Uncache, chainState, TypeOK, Caches
  <2>2. \A s \in TxId : tip'[s] = IF s = t THEN Absent ELSE tip[s]
    BY <2>1 DEF Caches
  <2>3. Finite(tip')
    BY <2>2, NothingFinite, AbsentEntry DEF CoinsFinite, Finite
  <2> QED BY <2>1, <2>3 DEF CoinsFinite
<1>12. CASE Restart
  BY <1>12, NothingFinite DEF Restart, CoinsFinite
<1> QED BY <1>1, <1>2, <1>3, <1>4, <1>5, <1>6, <1>7, <1>8, <1>9, <1>10, <1>11, <1>12
        DEF Next, vars, ConnectTip, DisconnectTip, WriteIndex, chainState

\* What pcoinsTip really takes, per transaction.
Memories == [t \in TxId |-> Memory(tip[t])]

UsageOK == usage \in Int /\ (abort = "never" => usage = Total(Memories))

LEMMA MemoriesInt ==
    ASSUME NEW cache, Finite(cache)
    PROVE  [t \in TxId |-> Memory(cache[t])] \in [TxId -> Int]
<1>1. \A t \in TxId : Memory(cache[t]) \in Int
  BY FS_CardinalityType DEF Finite, Memory
<1> QED BY <1>1

\* A step that adds to usage what it adds to the entries.
LEMMA UsageAdds ==
    ASSUME UsageOK, CoinsFinite, CoinsFinite', abort' = "never" => abort = "never",
           NEW d \in [TxId -> Int], \A t \in TxId : Memory(tip'[t]) = Memory(tip[t]) + d[t],
           usage' = usage + Total(d)
    PROVE  UsageOK'
<1>1. Memories \in [TxId -> Int] /\ Memories' \in [TxId -> Int]
  BY MemoriesInt DEF Memories, CoinsFinite
<1>2. \A t \in TxId : Memories'[t] = Memories[t] + d[t]
  BY DEF Memories
<1>3. Total(Memories) \in Int /\ Total(d) \in Int /\ Total(Memories') = Total(Memories) + Total(d)
  BY <1>1, <1>2, TotalAdds
<1>4. Total(Memories)' = Total(Memories')
  BY DEF Total, MapThenSumSet, MapThenFoldSet
<1> QED BY <1>3, <1>4 DEF UsageOK

\* A step that empties pcoinsTip and forgets its usage.
LEMMA UsageCleared ==
    ASSUME tip' = NoEntries, usage' = 0, CoinsFinite'
    PROVE  UsageOK'
<1>1. Memories' \in [TxId -> Int]
  BY MemoriesInt DEF Memories, CoinsFinite
<1>2. \A t \in TxId : Memories'[t] = 0
  BY NothingFinite DEF Memories, NoEntries
<1>3. Total(Memories') = 0
  BY <1>1, <1>2, TotalOfNone
<1>4. Total(Memories)' = Total(Memories')
  BY DEF Total, MapThenSumSet, MapThenFoldSet
<1> QED BY <1>3, <1>4 DEF UsageOK

LEMMA UsageSame ==
    ASSUME UsageOK, UNCHANGED <<tip, usage>>, abort' = "never" => abort = "never"
    PROVE  UsageOK'
<1>1. Memories' = Memories
  BY DEF Memories
<1>2. Total(Memories)' = Total(Memories)
  BY <1>1 DEF Total, MapThenSumSet, MapThenFoldSet
<1> QED BY <1>2 DEF UsageOK

LEMMA UsageReads ==
    ASSUME UsageOK, CoinsFinite, CoinsFinite', abort' = "never" => abort = "never",
           NEW S, TipReads(S)
    PROVE  UsageOK'
<1> DEFINE new == Fetched(tip, S, db, InDb)
           added == [t \in TxId |-> IF Holds(tip, t) THEN 0 ELSE Memory(new[t])]
<1>1. tip' = new /\ usage' = usage + Total(added)
  BY DEF TipReads
<1>2. \A t \in TxId : Memory(new[t]) \in Int /\ Memory(tip[t]) \in Int
  BY <1>1, FS_CardinalityType DEF CoinsFinite, Finite, Memory
<1>3. \A t \in TxId : Holds(tip, t) => new[t] = tip[t]
  BY DEF Fetched
<1>4. \A t \in TxId : ~Holds(tip, t) => Memory(tip[t]) = 0
  BY NothingFinite DEF Holds
<1> HIDE DEF new
<1>5. added \in [TxId -> Int]
  BY <1>2
<1>6. \A t \in TxId : Memory(tip'[t]) = Memory(tip[t]) + added[t]
  BY <1>1, <1>2, <1>3, <1>4
<1> HIDE DEF added
<1> QED BY <1>1, <1>5, <1>6, UsageAdds

LEMMA UsageFlush ==
    ASSUME UsageOK, CoinsFinite, CoinsFinite', abort' = "never" => abort = "never",
           NEW best, FlushView(best)
    PROVE  UsageOK'
<1> DEFINE written == [t \in TxId |-> WrittenUsage(tip[t], view[t])]
<1>1. tip' = BatchWrite(tip, view) /\ usage' = usage + Total(written)
  BY DEF FlushView
<1>2. ASSUME NEW t \in TxId
      PROVE  /\ WrittenUsage(tip[t], view[t]) \in Int
             /\ Memory(tip'[t]) = Memory(tip[t]) + WrittenUsage(tip[t], view[t])
  <2> DEFINE us == tip[t]  it == view[t]
  <2>1. tip'[t] = Written(us, it)
    BY <1>1 DEF BatchWrite
  <2>2. Memory(us) \in Int /\ Memory(it) \in Int /\ Memory(Settled(it)) \in Int
    BY SettledFinite, FS_CardinalityType DEF CoinsFinite, Finite, Memory
  <2>3. Memory(Absent) = 0
    BY NothingFinite
  <2>4. Memory([coins |-> it.coins, flags |-> us.flags \cup {"DIRTY"}]) = Memory(it)
    BY DEF Memory
  <2> HIDE DEF us, it
  <2>5. WrittenUsage(us, it) \in Int /\ Memory(Written(us, it)) = Memory(us) + WrittenUsage(us, it)
    <3>1. CASE ~IsDirty(it)
      BY <2>2, <3>1 DEF Written, WrittenUsage
    <3>2. CASE IsDirty(it) /\ us = Absent
      BY <2>2, <2>3, <3>2 DEF Written, WrittenUsage
    <3>3. CASE IsDirty(it) /\ us # Absent /\ IsFresh(us) /\ it.coins = Null
      BY <2>2, <2>3, <3>3 DEF Written, WrittenUsage
    <3>4. CASE IsDirty(it) /\ us # Absent /\ ~(IsFresh(us) /\ it.coins = Null)
      <4>1. Written(us, it) = [coins |-> it.coins, flags |-> us.flags \cup {"DIRTY"}]
            /\ WrittenUsage(us, it) = Memory(it) - Memory(us)
        BY <3>4 DEF Written, WrittenUsage
      <4>2. Memory(Written(us, it)) = Memory(it)
        BY <2>4, <4>1
      <4> QED BY <2>2, <4>1, <4>2
    <3> QED BY <3>1, <3>2, <3>3, <3>4
  <2> QED BY <2>1, <2>5 DEF us, it
<1>3. written \in [TxId -> Int] /\ \A t \in TxId : Memory(tip'[t]) = Memory(tip[t]) + written[t]
  BY <1>2
<1> HIDE DEF written
<1> QED BY <1>1, <1>3, UsageAdds

LEMMA UsageUncache ==
    ASSUME TypeOK, UsageOK, CoinsFinite, CoinsFinite', abort' = "never" => abort = "never",
           NEW t \in TxId, Uncache(t)
    PROVE  UsageOK'
<1> DEFINE d == [s \in TxId |-> IF s = t THEN -Memory(tip[t]) ELSE 0]
<1>1. tip' = [tip EXCEPT ![t] = Absent] /\ usage' = usage - Memory(tip[t]) /\ tip \in Caches
  BY DEF Uncache, TypeOK, Caches
<1>2. \A s \in TxId : Memory(tip[s]) \in Int
  BY FS_CardinalityType DEF CoinsFinite, Finite, Memory
<1>3. \A s \in TxId : tip'[s] = IF s = t THEN Absent ELSE tip[s]
  BY <1>1 DEF Caches
<1>4. \A s \in TxId : Memory(tip'[s]) = IF s = t THEN 0 ELSE Memory(tip[s])
  BY <1>3, NothingFinite
<1>5. d \in [TxId -> Int] /\ d[t] = -Memory(tip[t]) /\ \A s \in TxId : s # t => d[s] = 0
  BY <1>2
<1> HIDE DEF d
<1>6. \A s \in TxId : Memory(tip'[s]) = Memory(tip[s]) + d[s]
  BY <1>2, <1>4, <1>5
<1>7. Total(d) = -Memory(tip[t])
  BY <1>5, TotalOfOne
<1>8. usage' = usage + Total(d)
  BY <1>1, <1>2, <1>7 DEF UsageOK
<1> QED BY <1>5, <1>6, <1>8, UsageAdds

LEMMA UsageStep ==
    TypeInv /\ UsageOK /\ CoinsFinite /\ CoinsFinite' /\ [Next]_vars => UsageOK'
<1> SUFFICES ASSUME TypeInv, UsageOK, CoinsFinite, CoinsFinite', [Next]_vars PROVE UsageOK'
  OBVIOUS
<1>0. TypeOK /\ (abort' = "never" => abort = "never")
  BY AbortStays DEF TypeInv
<1>1. CASE UNCHANGED <<tip, usage>>
  BY <1>0, <1>1, UsageSame
<1>2. CASE CheckTx
  <2>1. PICK S : TipReads(S)
    BY <1>2 DEF CheckTx, ViewReads
  <2> QED BY <1>0, <2>1, UsageReads
<1>3. CASE SpendInput \/ RemoveOutputs \/ RestoreInput
  <2>1. PICK S : TipReads(S)
    BY <1>3 DEF SpendInput, RemoveOutputs, RestoreInput, ViewModifies
  <2> QED BY <1>0, <2>1, UsageReads
<1>4. CASE AddOutputs
  <2>1. (\E S : TipReads(S)) \/ UNCHANGED <<tip, usage>>
    BY <1>4 DEF AddOutputs, ViewModifies
  <2> QED BY <1>0, <1>1, <2>1, UsageReads
<1>5. CASE Connected \/ Disconnected
  <2>1. (\E b : FlushView(b)) \/ UNCHANGED <<tip, usage>>
    BY <1>5 DEF Connected, Disconnected
  <2> QED BY <1>0, <1>1, <2>1, UsageFlush
<1>6. CASE FlushStateToDisk
  <2>1. CASE usage' = 0
    BY <1>6, <2>1, UsageCleared DEF FlushStateToDisk
  <2>2. CASE abort' = "now" /\ UNCHANGED usage
    BY <2>2 DEF UsageOK
  <2> QED BY <1>6, <2>1, <2>2 DEF FlushStateToDisk
<1>7. ASSUME NEW t \in TxId, ReadTip(t) PROVE UsageOK'
  BY <1>0, <1>7, UsageReads DEF ReadTip
<1>8. ASSUME NEW t \in TxId, Uncache(t) PROVE UsageOK'
  BY <1>0, <1>8, UsageUncache
<1>9. CASE Restart
  BY <1>9, UsageCleared DEF Restart
<1> QED BY <1>1, <1>2, <1>3, <1>4, <1>5, <1>6, <1>7, <1>8, <1>9
        DEF Next, vars, ConnectTip, DisconnectTip, WriteIndex, RefuseBlock

\* For any transactions and any order of reads, connects, disconnects, flushes
\* and drops, cachedCoinsUsage is what the cached coins take: the count that
\* decides when to flush does not drift, and it never wraps below zero.
THEOREM UsageStaysExact == Spec => []UsageIsExact
<1>1. Init => CoinsFinite /\ UsageOK
  <2> SUFFICES ASSUME Init PROVE CoinsFinite /\ UsageOK
    OBVIOUS
  <2>1. CoinsFinite
    BY NothingFinite DEF Init, CoinsFinite
  <2>2. Memories \in [TxId -> Int]
    BY <2>1, MemoriesInt DEF Memories, CoinsFinite
  <2>3. \A t \in TxId : Memories[t] = 0
    BY NothingFinite DEF Memories, Init, NoEntries
  <2>4. Total(Memories) = 0
    BY <2>2, <2>3, TotalOfNone
  <2> QED BY <2>1, <2>4 DEF Init, UsageOK
<1>2. UsageOK => UsageIsExact
  BY DEF UsageOK, UsageIsExact, Memories
<1> QED BY <1>1, <1>2, TypeInit, TypeStep, FiniteStep, UsageStep, PTL DEF Spec
=============================================================================
