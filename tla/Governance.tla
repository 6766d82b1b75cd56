------------------------------ MODULE Governance ------------------------------
(***************************************************************************)
(* CGovernanceManager of one node with the part of CMasternodeMan it leans *)
(* on: governance objects, the votes of masternodes on them, votes and     *)
(* objects that arrive before what they refer to, and the bookkeeping that *)
(* takes the votes of departed masternodes back out.                       *)
(*                                                                         *)
(* Two threads run: "net" handles messages, "pool" is                      *)
(* ThreadCheckPrivateSendPool.  Both may run NotifyMasternodeUpdates.  The *)
(* steps follow the locks: what a thread does between taking and releasing *)
(* governance.cs or mnodeman.cs is one step.                               *)
(***************************************************************************)
EXTENDS Naturals, Sequences, SequencesExt, FiniteSets

CONSTANTS
    Obj,          \* governance objects
    MN,           \* masternodes
    NoMN,         \* the signer of a proposal
    Signer,       \* the masternode that signed a trigger, NoMN for a proposal
    Vote,         \* votes
    VoteOf,       \* what each vote says
    Forged,       \* the votes with a wrong signature
    MinQuorum,    \* nGovernanceMinQuorum
    FirstList,    \* vMasternodes at the start
    Leaving,      \* masternodes whose collateral may be spent
    MaxRequested, \* bound of the requests under way
    MaxEvents     \* bound of list changes and restarts

Thread == {"net", "pool"}
Place == {"idle", "recording", "check", "notify", "objects", "votes", "take", "clean", "clear"}
Signal == {"funding", "delete"}

ASSUME GovernanceAssumption ==
    /\ IsFiniteSet(MN) /\ NoMN \notin MN /\ Signer \in [Obj -> MN \cup {NoMN}]
    /\ VoteOf \in [Vote -> [mn : MN, obj : Obj, signal : Signal,
                            outcome : {"yes", "no", "abstain"}, time : Nat]]
    /\ IsFiniteSet(Vote) /\ Forged \subseteq Vote /\ MinQuorum \in Nat /\ MinQuorum > 0
    /\ FirstList \in Seq(MN) /\ IsInjective(FirstList) /\ Leaving \subseteq MN
    /\ MaxEvents \in Nat /\ MaxRequested \in Nat

VARIABLES
    masternodes,  \* vMasternodes, in the order of the vector
    indexed,      \* indexMasternodes
    votedOn,      \* mapGovernanceObjectsVotedOn of the listed masternodes
    dirtyHashes,  \* vecDirtyGovernanceObjectHashes
    flags,        \* fMasternodesAdded and fMasternodesRemoved
    objects,      \* mapObjects
    seen,         \* mapSeenGovernanceObjects
    orphans,      \* mapMasternodeOrphanObjects and mapOrphanVotes
    requested,    \* setRequestedObjects and setRequestedVotes
    invalid,      \* mapInvalidVotes
    refs,         \* the keys of mapVoteToObject
    thread,       \* where each thread is, and its local variables
    past,         \* what happened: erased, escaped, missed
    events

vars == <<masternodes, indexed, votedOn, dirtyHashes, flags, objects, seen, orphans,
          requested, invalid, refs, thread, past, events>>
mnodeman == <<masternodes, indexed, votedOn, dirtyHashes, flags>>

list == ToSet(masternodes)

VotesFor(o) == {v \in Vote : VoteOf[v].obj = o}
MnsOf(votes) == {VoteOf[v].mn : v \in votes}

\* A CGovernanceObject: mapCurrentMNVotes, fileVotes, mapOrphanVotes, flags.
NewObject == [current |-> {}, file |-> {}, waiting |-> {}, dirty |-> TRUE,
              funding |-> FALSE, deleting |-> FALSE, expired |-> FALSE]

Idle == [at |-> "idle", added |-> FALSE, removed |-> FALSE,
         hashes |-> {}, vote |-> {}]

Init ==
    /\ masternodes = FirstList /\ indexed = ToSet(FirstList)
    /\ votedOn = [m \in MN |-> {}] /\ dirtyHashes = {}
    /\ flags = [added |-> FALSE, removed |-> FALSE]
    /\ objects = <<>> /\ seen = {} /\ orphans = [objs |-> {}, votes |-> {}]
    /\ requested = {} /\ invalid = {} /\ refs = {}
    /\ thread = [t \in Thread |-> Idle]
    /\ past = [erased |-> {}, escaped |-> {}, missed |-> FALSE]
    /\ events = 0

Have == DOMAIN objects

At(t, place) == thread[t].at = place
GoTo(t, place) == thread' = [thread EXCEPT ![t].at = place]

\* governance.cs is free: no vote is between its check and its record.
LockFree == ~ At("net", "recording")

-----------------------------------------------------------------------------
(* One vote on one object.                                                 *)

\* CGovernanceObject::ProcessVote up to the vote's record.
SameSlot(v, w) ==
    VoteOf[v].mn = VoteOf[w].mn /\ VoteOf[v].signal = VoteOf[w].signal

ObsoleteNever(obj, v) == FALSE      \* mutant

Obsolete(obj, v) ==
    \E w \in obj.current : SameSlot(v, w) /\ VoteOf[v].time < VoteOf[w].time

Verdict(obj, v) ==
    IF VoteOf[v].mn \notin indexed THEN "unknown"
    ELSE IF Obsolete(obj, v) THEN "obsolete"
    ELSE IF VoteOf[v].mn \notin list \/ v \in Forged THEN "invalid"
    ELSE "ok"

\* mutant
RecordedClean(obj, v) ==
    [obj EXCEPT !.current = {w \in @ : ~ SameSlot(v, w)} \cup {v}, !.file = @ \cup {v}]

\* The end of ProcessVote.
Recorded(obj, v) ==
    [obj EXCEPT !.current = {w \in @ : ~ SameSlot(v, w)} \cup {v},
                !.file = @ \cup {v}, !.dirty = TRUE]

\* mnodeman.AddGovernanceVote: nothing for a masternode not in the list.
AddGovernanceVotes(votes) ==
    [m \in MN |-> votedOn[m] \cup
        {VoteOf[v].obj : v \in {w \in votes : VoteOf[w].mn = m /\ m \in list}}]

WaitsUntilExpired(v, expired) == v \notin expired      \* mutant

StillWaits(v, expired) == v \notin expired /\ VoteOf[v].mn \notin list

\* CGovernanceObject::CheckOrphanVotes on one vote, if it waits here: an expired
\* one is still processed, and put back when its masternode is not indexed.
CheckWaiting(acc, v, expired) ==
    IF v \notin acc.obj.waiting \/ StillWaits(v, expired) THEN acc
    ELSE LET verdict == Verdict(acc.obj, v)
             drop(obj) == [obj EXCEPT !.waiting = @ \ {v}]
         IN CASE verdict = "ok" ->
                   [acc EXCEPT !.obj = drop(Recorded(@, v)), !.ok = @ \cup {v}]
              [] verdict = "unknown" -> acc
              [] verdict = "invalid" ->
                   [acc EXCEPT !.obj = IF v \in expired THEN drop(@) ELSE @,
                               !.bad = @ \cup {v}]
              [] verdict = "obsolete" ->
                   [acc EXCEPT !.obj = IF v \in expired THEN drop(@) ELSE @]

\* CGovernanceManager::CheckOrphanVotes on one vote.  The object is the
\* handler's own copy, which is not the one in mapObjects.
CheckOrphan(acc, v) ==
    LET verdict == Verdict(acc.obj, v)
    IN CASE verdict = "ok" ->
              [acc EXCEPT !.obj = Recorded(@, v), !.ok = @ \cup {v}]
         [] verdict = "invalid" -> [acc EXCEPT !.bad = @ \cup {v}]
         [] OTHER -> acc

Start(obj) == [obj |-> obj, ok |-> {}, bad |-> {}]

\* The loops over the votes, in the order of the map.
CheckWaitingVotes(obj, order, expired) ==
    LET acc[i \in 0..Len(order)] ==
          IF i = 0 THEN Start(obj) ELSE CheckWaiting(acc[i - 1], order[i], expired)
    IN acc[Len(order)]

CheckOrphanVotes(obj, order) ==
    LET acc[i \in 0..Len(order)] ==
          IF i = 0 THEN Start(obj) ELSE CheckOrphan(acc[i - 1], order[i])
    IN acc[Len(order)]

\* GetAbsoluteYesCount(signal) >= required.
Supported(obj, signal, required) ==
    LET count(outcome) == Cardinality({v \in obj.current :
            VoteOf[v].signal = signal /\ VoteOf[v].outcome = outcome})
    IN count("yes") >= count("no") + required

Larger(a, b) == IF a >= b THEN a ELSE b

\* UpdateSentinelVariables with nMnCount enabled masternodes.
UpdateSentinelVariables(obj, enabled) ==
    IF enabled = 0 THEN obj
    ELSE [obj EXCEPT
            !.funding = Supported(obj, "funding",
                                  Larger(MinQuorum, enabled \div 10)),
            !.deleting = @ \/ Supported(obj, "delete",
                                  Larger(MinQuorum, (2 * enabled) \div 3)),
            !.dirty = FALSE]

\* ClearMasternodeVotes, and the flag UpdateCachesAndClean sets after it.
ClearMasternodeVotes(obj) ==
    LET gone == MnsOf(obj.current) \ list
    IN [obj EXCEPT !.current = {v \in @ : VoteOf[v].mn \notin gone},
                   !.file = {v \in @ : VoteOf[v].mn \notin gone},
                   !.dirty = TRUE]

-----------------------------------------------------------------------------
(* Messages: the net thread.                                               *)

\* ConfirmInventoryRequest for an announced object or vote.
ConfirmInventoryRequest(x) ==
    /\ At("net", "idle")
    /\ x \notin Have \cup refs \cup requested
    /\ Cardinality(requested) < MaxRequested
    /\ requested' = requested \cup {x}
    /\ UNCHANGED <<mnodeman, objects, seen, orphans, invalid, refs, thread, past, events>>

\* AcceptMessage: only one answer to a request is taken.
AcceptMessage(x) ==
    /\ At("net", "idle") /\ x \in requested
    /\ requested' = requested \ {x}

MarkSeenNever(o) == UNCHANGED seen      \* mutant

MarkSeen(o) == seen' = seen \cup {o}

\* MNGOVERNANCEOBJECT, already seen.
ObjectSeen(o) ==
    /\ AcceptMessage(o) /\ o \in seen
    /\ UNCHANGED <<mnodeman, objects, seen, orphans, invalid, refs, thread, past, events>>

\* MNGOVERNANCEOBJECT, not valid locally: a trigger's masternode is missing,
\* or a proposal's collateral is not found or not confirmed yet.
ObjectInvalid(o) ==
    /\ AcceptMessage(o) /\ o \notin seen /\ Signer[o] \notin list
    /\ orphans' = [orphans EXCEPT !.objs = IF Signer[o] = NoMN THEN @ ELSE @ \cup {o}]
    /\ MarkSeen(o)
    /\ UNCHANGED <<mnodeman, objects, invalid, refs, thread, past, events>>

\* MNGOVERNANCEOBJECT, accepted: UpdateSentinelVariables on the copy,
\* AddGovernanceObject, and CheckOrphanVotes in some order of the votes.
ObjectAdded(o) ==
    /\ AcceptMessage(o) /\ o \notin seen /\ Signer[o] \in list \cup {NoMN}
    /\ MarkSeen(o)
    /\ \E enabled \in 0..Cardinality(list), expired \in SUBSET (orphans.votes \cap VotesFor(o)) :
       \E order \in SetToSeqs((orphans.votes \cap VotesFor(o)) \ expired) :
         LET copy == UpdateSentinelVariables(NewObject, enabled)
             checked == CheckOrphanVotes(copy, order)
         IN /\ objects' = [x \in Have \cup {o} |-> IF x \in Have THEN objects[x] ELSE copy]
            /\ orphans' = [orphans EXCEPT !.votes = @ \ (expired \cup checked.ok)]
            /\ votedOn' = AddGovernanceVotes(checked.ok)
            /\ invalid' = invalid \cup checked.bad
    /\ UNCHANGED <<masternodes, indexed, dirtyHashes, flags, refs, thread, past, events>>

\* MNGOVERNANCEOBJECTVOTE: CGovernanceManager::ProcessVote when it records
\* nothing.
VoteIgnored(v) ==
    /\ AcceptMessage(v)
    /\ LET o == VoteOf[v].obj
       IN \/ v \in invalid
          \/ o \in Have /\ (objects[o].deleting \/ objects[o].expired)
          \/ o \in Have /\ Verdict(objects[o], v) = "obsolete"
    /\ UNCHANGED <<mnodeman, objects, seen, orphans, invalid, refs, thread, past, events>>

VoteWithoutObject(v) ==
    /\ AcceptMessage(v) /\ v \notin invalid /\ VoteOf[v].obj \notin Have
    /\ orphans' = [orphans EXCEPT !.votes = @ \cup {v}]
    /\ UNCHANGED <<mnodeman, objects, seen, invalid, refs, thread, past, events>>

\* The vote is about an object that takes votes.
Counts(v) ==
    /\ v \notin invalid /\ VoteOf[v].obj \in Have
    /\ ~ objects[VoteOf[v].obj].deleting /\ ~ objects[VoteOf[v].obj].expired

VoteWithoutMasternode(v) ==
    /\ AcceptMessage(v) /\ Counts(v)
    /\ Verdict(objects[VoteOf[v].obj], v) = "unknown"
    /\ objects' = [objects EXCEPT ![VoteOf[v].obj].waiting = @ \cup {v}]
    /\ UNCHANGED <<mnodeman, seen, orphans, invalid, refs, thread, past, events>>

VoteInvalid(v) ==
    /\ AcceptMessage(v) /\ Counts(v)
    /\ Verdict(objects[VoteOf[v].obj], v) = "invalid"
    /\ invalid' = invalid \cup {v}
    /\ UNCHANGED <<mnodeman, objects, seen, orphans, refs, thread, past, events>>

\* vote.IsValid has answered; mnodeman.cs is free until AddGovernanceVote.
VoteChecked(v) ==
    /\ AcceptMessage(v) /\ Counts(v)
    /\ Verdict(objects[VoteOf[v].obj], v) = "ok"
    /\ thread' = [thread EXCEPT !["net"].at = "recording", !["net"].vote = {v}]
    /\ UNCHANGED <<mnodeman, objects, seen, orphans, invalid, refs, past, events>>

VoteRecorded(v) ==
    /\ At("net", "recording") /\ v \in thread["net"].vote
    /\ objects' = [objects EXCEPT ![VoteOf[v].obj] = Recorded(@, v)]
    /\ votedOn' = AddGovernanceVotes({v})
    /\ refs' = refs \cup {v}
    /\ past' = [past EXCEPT !.escaped = @ \cup (MnsOf({v}) \ list)]
    /\ thread' = [thread EXCEPT !["net"] = Idle]
    /\ UNCHANGED <<masternodes, indexed, dirtyHashes, flags, seen, orphans, requested, invalid, events>>

\* The masternodes among these with a vote that is counted.
Counted(mns) == {m \in mns : \E o \in Have : m \in MnsOf(objects[o].current)}

\* MNANNOUNCE of a new masternode: CMasternodeMan::Add.  CMasternode's copy
\* constructor leaves mapGovernanceObjectsVotedOn out, so every entry loses
\* its map when push_back reallocates the vector.
Add(m) ==
    /\ At("net", "idle") /\ m \notin list /\ events < MaxEvents
    /\ events' = events + 1
    /\ masternodes' = Append(masternodes, m) /\ indexed' = indexed \cup {m}
    /\ \E copied \in {{}, list} :
         /\ votedOn' = [n \in MN |-> IF n \in copied \cup {m} THEN {} ELSE votedOn[n]]
         /\ past' = [past EXCEPT !.escaped = @ \cup Counted(copied \cup {m})]
    /\ flags' = [flags EXCEPT !.added = TRUE]
    /\ GoTo("net", "check")
    /\ UNCHANGED <<dirtyHashes, objects, seen, orphans, requested, invalid, refs>>

-----------------------------------------------------------------------------
(* The pool thread.                                                        *)

FlagNothing(m) == dirtyHashes      \* mutant

FlagGovernanceItemsAsDirty(m) == dirtyHashes \cup votedOn[m]

\* The place of the first masternode that leaves.
FirstOf(gone) ==
    CHOOSE i \in DOMAIN masternodes :
      masternodes[i] \in gone /\ \A j \in 1..(i - 1) : masternodes[j] \notin gone

\* The entries that the loop of CheckAndRemove leaves.
Remaining(gone) ==
    LET kept[i \in 0..Len(masternodes)] ==
          IF i = 0 THEN <<>>
          ELSE IF masternodes[i] \in gone THEN kept[i - 1]
          ELSE Append(kept[i - 1], masternodes[i])
    IN kept[Len(masternodes)]

\* CheckAndRemove: the masternodes whose collateral is spent leave the list.
\* erase() assigns every later entry to the place before it, a copy without
\* mapGovernanceObjectsVotedOn; only the first that leaves is flagged whole.
CheckAndRemove(gone) ==
    /\ At("pool", "idle") /\ gone # {} /\ events < MaxEvents
    /\ events' = events + 1
    /\ masternodes' = Remaining(gone)
    /\ LET first == FirstOf(gone)
           copied == {masternodes[i] : i \in (first + 1)..Len(masternodes)}
       IN /\ dirtyHashes' = FlagGovernanceItemsAsDirty(masternodes[first])
          /\ votedOn' = [m \in MN |-> IF m \in copied \cup gone THEN {} ELSE votedOn[m]]
          /\ past' = [past EXCEPT !.escaped = @ \cup Counted(copied)]
    /\ flags' = [flags EXCEPT !.removed = TRUE]
    /\ GoTo("pool", "check")
    /\ UNCHANGED <<indexed, objects, seen, orphans, requested, invalid, refs>>

\* DoMaintenance: CleanOrphanObjects, then UpdateCachesAndClean.
DoMaintenance ==
    /\ At("pool", "idle") /\ LockFree
    /\ \E expired \in SUBSET orphans.votes :
         orphans' = [orphans EXCEPT !.votes = @ \ expired]
    /\ GoTo("pool", "take")
    /\ UNCHANGED <<mnodeman, objects, seen, requested, invalid, refs, past, events>>

-----------------------------------------------------------------------------
(* NotifyMasternodeUpdates and UpdateCachesAndClean, on either thread.     *)

\* The test of the flag, without the lock, before the call.
Check(t) ==
    /\ At(t, "check")
    /\ GoTo(t, IF (t = "net" /\ flags.added) \/ (t = "pool" /\ flags.removed)
               THEN "notify" ELSE "idle")
    /\ UNCHANGED <<mnodeman, objects, seen, orphans, requested, invalid, refs, past, events>>

\* NotifyMasternodeUpdates reads both flags.
Notify(t) ==
    /\ At(t, "notify")
    /\ thread' = [thread EXCEPT ![t] =
          [@ EXCEPT !.added = flags.added, !.removed = flags.removed,
                    !.at = IF flags.added THEN "objects"
                           ELSE IF flags.removed THEN "take" ELSE "clear"]]
    /\ UNCHANGED <<mnodeman, objects, seen, orphans, requested, invalid, refs, past, events>>

CheckMasternodeOrphanObjects(t) ==
    /\ At(t, "objects") /\ LockFree
    /\ \E expired \in SUBSET orphans.objs :
         LET found == {o \in orphans.objs \ expired : Signer[o] \in list \ {NoMN}} \ Have
         IN /\ objects' = [o \in Have \cup found |->
                            IF o \in Have THEN objects[o] ELSE NewObject]
            /\ orphans' = [orphans EXCEPT !.objs = @ \ (expired \cup found)]
    /\ GoTo(t, "votes")
    /\ UNCHANGED <<mnodeman, seen, requested, invalid, refs, past, events>>

CheckMasternodeOrphanVotes(t) ==
    /\ At(t, "votes") /\ LockFree
    /\ LET waiting == UNION {objects[o].waiting : o \in Have}
       IN \E expired \in SUBSET waiting, order \in SetToSeqs(waiting) :
            LET checked == [o \in Have |-> CheckWaitingVotes(objects[o], order, expired)]
            IN /\ objects' = [o \in Have |-> checked[o].obj]
               /\ invalid' = invalid \cup UNION {checked[o].bad : o \in Have}
               /\ votedOn' = AddGovernanceVotes(UNION {checked[o].ok : o \in Have})
    /\ past' = [past EXCEPT !.missed = FALSE]
    /\ GoTo(t, IF thread[t].removed THEN "take" ELSE "clear")
    /\ UNCHANGED <<masternodes, indexed, dirtyHashes, flags, seen, orphans, requested, refs, events>>

\* UpdateCachesAndClean: GetAndClearDirtyGovernanceObjectHashes.
TakeDirty(t) ==
    /\ At(t, "take")
    /\ thread' = [thread EXCEPT ![t].at = "clean", ![t].hashes = dirtyHashes]
    /\ dirtyHashes' = {}
    /\ UNCHANGED <<masternodes, indexed, votedOn, flags, objects, seen, orphans, requested,
                   invalid, refs, past, events>>

\* The object after the loop over the dirty hashes, the triggers that
\* triggerman.CleanAndRemove expires, and the update of a dirty cache.
Cleaned(o, hashes, expired, enabled) ==
    LET cleared == IF o \in hashes THEN ClearMasternodeVotes(objects[o]) ELSE objects[o]
        marked == IF o \in expired THEN [cleared EXCEPT !.expired = TRUE] ELSE cleared
    IN IF marked.dirty THEN UpdateSentinelVariables(marked, enabled) ELSE marked

\* The rest of UpdateCachesAndClean: objects marked for more than
\* GOVERNANCE_DELETION_DELAY go, with every trace of them.
UpdateCachesAndClean(t) ==
    /\ At(t, "clean") /\ LockFree
    /\ \E enabled \in 0..Cardinality(list),
          expired \in SUBSET {o \in Have : Signer[o] # NoMN} :
         LET kept == [o \in Have |-> Cleaned(o, thread[t].hashes, expired, enabled)]
         IN \E due \in SUBSET {o \in Have : kept[o].deleting \/ kept[o].expired} :
              /\ objects' = [o \in Have \ due |-> kept[o]]
              /\ votedOn' = [m \in MN |-> votedOn[m] \ due]
              /\ refs' = {v \in refs : VoteOf[v].obj \notin due}
              /\ past' = [past EXCEPT !.erased = @ \cup due]
    /\ thread' = [thread EXCEPT ![t] =
          IF @.removed THEN [@ EXCEPT !.at = "clear", !.hashes = {}] ELSE Idle]
    /\ UNCHANGED <<masternodes, indexed, dirtyHashes, flags, seen, orphans, requested,
                   invalid, events>>

\* The end of NotifyMasternodeUpdates: both flags, whatever was set since.
Clear(t) ==
    /\ At(t, "clear")
    /\ flags' = [added |-> FALSE, removed |-> FALSE]
    /\ past' = [past EXCEPT !.missed = @ \/
                  \E u \in Thread \ {t} : thread[u].at \in {"check", "notify"}]
    /\ thread' = [thread EXCEPT ![t] = Idle]
    /\ UNCHANGED <<masternodes, indexed, votedOn, dirtyHashes, objects, seen, orphans,
                   requested, invalid, refs, events>>

-----------------------------------------------------------------------------

\* What governance.dat and mncache.dat bring back, and InitOnLoad's
\* RebuildIndexes.
Restart ==
    /\ \A t \in Thread : At(t, "idle")
    /\ events < MaxEvents /\ events' = events + 1
    /\ objects' = [o \in Have |-> [objects[o] EXCEPT !.waiting = {}, !.dirty = TRUE,
                                     !.funding = FALSE, !.deleting = FALSE]]
    /\ orphans' = [orphans EXCEPT !.objs = {}]
    /\ requested' = {} /\ dirtyHashes' = {}
    /\ flags' = [added |-> FALSE, removed |-> FALSE]
    /\ refs' = UNION {objects[o].file : o \in Have}
    /\ past' = [past EXCEPT !.missed = FALSE,
                  !.escaped = @ \cup UNION {MnsOf(objects[o].current) \ list : o \in Have}]
    /\ UNCHANGED <<masternodes, indexed, votedOn, seen, invalid, thread>>

Message ==
    \/ \E x \in Obj \cup Vote : ConfirmInventoryRequest(x)
    \/ \E o \in Obj : ObjectSeen(o) \/ ObjectInvalid(o) \/ ObjectAdded(o)
    \/ \E v \in Vote : \/ VoteIgnored(v) \/ VoteWithoutObject(v) \/ VoteInvalid(v)
                       \/ VoteWithoutMasternode(v) \/ VoteChecked(v)
    \/ \E m \in MN : Add(m)

Step(t) ==
    \/ Check(t) \/ Notify(t)
    \/ CheckMasternodeOrphanObjects(t) \/ CheckMasternodeOrphanVotes(t)
    \/ TakeDirty(t) \/ UpdateCachesAndClean(t) \/ Clear(t)

FinishVote == \E v \in Vote : VoteRecorded(v)

Next ==
    \/ Message \/ FinishVote
    \/ \E gone \in SUBSET (list \cap Leaving) : CheckAndRemove(gone)
    \/ DoMaintenance
    \/ \E t \in Thread : Step(t)
    \/ Restart

Spec == Init /\ [][Next]_vars

-----------------------------------------------------------------------------

\* Every map holds what its declaration says.
TypeOK ==
    /\ masternodes \in Seq(MN) /\ IsInjective(masternodes)
    /\ list \subseteq indexed /\ indexed \subseteq MN
    /\ votedOn \in [MN -> SUBSET Obj] /\ dirtyHashes \subseteq Obj
    /\ flags \in [added : BOOLEAN, removed : BOOLEAN]
    /\ Have \subseteq Obj
    /\ \A o \in Have : objects[o] \in
         [current : SUBSET VotesFor(o), file : SUBSET VotesFor(o),
          waiting : SUBSET VotesFor(o), dirty : BOOLEAN, funding : BOOLEAN,
          deleting : BOOLEAN, expired : BOOLEAN]
    /\ seen \subseteq Obj /\ orphans \in [objs : SUBSET Obj, votes : SUBSET Vote]
    /\ requested \subseteq Obj \cup Vote /\ invalid \subseteq Vote /\ refs \subseteq Vote
    /\ thread \in [Thread -> [at : Place, added : BOOLEAN, removed : BOOLEAN,
                               hashes : SUBSET Obj, vote : SUBSET Vote]]
    /\ past \in [erased : SUBSET Obj, escaped : SUBSET MN, missed : BOOLEAN]
    /\ events \in 0..MaxEvents

\* Counting and file agree: what an object counts of a masternode and signal
\* is exactly one vote of its file, none of whose votes is newer, whatever
\* order votes arrive in and whoever leaves (ProcessVote, ClearMasternodeVotes).
RecordedIsLatest ==
    \A o \in Have :
      LET obj == objects[o]
      IN /\ obj.current \subseteq obj.file
         /\ \A v \in obj.file : \E w \in obj.current :
              SameSlot(v, w) /\ VoteOf[v].time <= VoteOf[w].time
         /\ \A v, w \in obj.current : SameSlot(v, w) => v = w

\* A vote of a masternode that left the list is about to be taken back: the
\* object's hash is with mnodeman or with a thread on its way to clean it
\* (FlagGovernanceItemsAsDirty, UpdateCachesAndClean).  Only masternodes
\* escape whose entry was copied, that leave while their vote is recorded,
\* return before the clean-up or leave shortly before a restart.
DepartedVotesFlagged ==
    \A o \in Have : \A m \in (MnsOf(objects[o].current) \ list) \ past.escaped :
      o \in dirtyHashes \cup UNION {thread[t].hashes : t \in Thread}

\* A vote that waits for its masternode is counted once the masternode is in
\* the list, unless it is worth nothing: another thread is about to check, or
\* a notification was lost because Clear ended another thread's as well.
WaitingVotesCounted ==
    \/ past.missed \/ flags.added \/ \E t \in Thread : thread[t].at \in {"objects", "votes"}
    \/ \A o \in Have : \A v \in objects[o].waiting :
         VoteOf[v].mn \in list => v \in Forged \/ Obsolete(objects[o], v)

\* The cached funding flag stands on the votes counted now, not on the votes
\* of a masternode cleared since or of an earlier vote (fDirtyCache): they reach
\* the quorum of some number of enabled masternodes, or do not.
FundingFollowsVotes ==
    \A o \in Have :
      objects[o].dirty \/ \E enabled \in 1..Cardinality(MN) :
        objects[o].funding <=>
          Supported(objects[o], "funding", Larger(MinQuorum, enabled \div 10))

\* An erased object stays away, however often it is announced and whatever
\* waits for it, across restarts (mapSeenGovernanceObjects).
ErasedNeverReturns == past.erased \cap Have = {}
=============================================================================
