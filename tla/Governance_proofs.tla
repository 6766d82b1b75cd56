-------------------------- MODULE Governance_proofs --------------------------
(***************************************************************************)
(* Theorems about the governance manager, for any objects, masternodes and *)
(* votes: the latest votes are the ones that count, the votes of departed  *)
(* masternodes are on their way out, waiting votes are taken up, the       *)
(* cached flags follow the votes and erased objects stay away.             *)
(***************************************************************************)
EXTENDS Governance, FiniteSetTheorems, SequenceTheorems, TLAPS

-----------------------------------------------------------------------------
(* The inductive invariant.                                                *)

\* The vote between its check and its record is still worth recording: nobody
\* touches the objects while governance.cs is held.
VoteInHand ==
    \A v \in thread["net"].vote :
       /\ At("net", "recording")
       /\ VoteOf[v].obj \in Have /\ ~ Obsolete(objects[VoteOf[v].obj], v)

\* Dirty hashes are in the hands of threads that clean them next.
HashesInHand == \A t \in Thread : thread[t].hashes # {} => At(t, "clean")

\* mapGovernanceObjectsVotedOn knows every object a listed masternode has a
\* counted vote on, if its entry was never copied.
VotesTraced ==
    \A o \in Have : \A m \in (MnsOf(objects[o].current) \cap list) \ past.escaped :
       o \in votedOn[m]

AllCounted ==
    \A o \in Have : \A v \in objects[o].waiting :
       VoteOf[v].mn \in list => v \in Forged \/ Obsolete(objects[o], v)

\* The thread that added a masternode still has its notification before it.
NoticePending ==
    \/ past.missed
    \/ \E t \in Thread : thread[t].at \in {"objects", "votes"}
    \/ flags.added /\ thread["net"].at \in {"check", "notify"}
    \/ AllCounted

\* An object is held, waits or was erased, and was seen.
OncePerObject ==
    /\ Have \cup orphans.objs \cup past.erased \subseteq seen
    /\ Have \cap orphans.objs = {} /\ Have \cap past.erased = {}
    /\ orphans.objs \cap past.erased = {}

Inv ==
    /\ TypeOK /\ VoteInHand /\ HashesInHand /\ VotesTraced /\ DepartedVotesFlagged
    /\ NoticePending /\ OncePerObject /\ RecordedIsLatest /\ FundingFollowsVotes

-----------------------------------------------------------------------------
(* Induction and recursion over an interval.                               *)

LEMMA IntervalInduction ==
    ASSUME NEW n \in Nat, NEW G \in SUBSET (0..n),
           0 \in G, \A k \in G : k < n => k + 1 \in G
    PROVE  G = 0..n
<1> SUFFICES ASSUME NEW m \in (0..n) \ G PROVE FALSE
  OBVIOUS
<1> DEFINE below == {k \in G : k < m}
           next == [k \in below |-> k + 1]
<1>1. IsFiniteSet(below)
  <2>1. IsFiniteSet(0..n)
    BY FS_Interval
  <2> QED
    BY <2>1, FS_Subset
<1>2. next \in Injection(below, below)
  <2>1. \A k \in below : k + 1 \in below
    OBVIOUS
  <2>2. next \in [below -> below]
    BY <2>1
  <2>3. \A a, b \in DOMAIN next : next[a] = next[b] => a = b
    OBVIOUS
  <2> HIDE DEF below, next
  <2> QED
    BY <2>2, <2>3 DEF Injection, IsInjective
<1>3. next \in Surjection(below, below)
  BY <1>1, <1>2, FS_Injection
<1>4. \E k \in below : next[k] = 0
  <2>1. 0 \in below
    OBVIOUS
  <2> QED
    BY <1>3, <2>1 DEF Surjection
<1> QED
  BY <1>4

\* f is the run of step from s0.
Runs(f, S, n, s0, step) ==
    f \in [0..n -> S] /\ \A i \in 0..n : f[i] = IF i = 0 THEN s0 ELSE step[i][f[i - 1]]

LEMMA IntervalRecursion ==
    ASSUME NEW S, NEW n \in Nat, NEW s0 \in S, NEW step,
           \A i \in 1..n : \A s \in S : step[i][s] \in S
    PROVE  \E f : Runs(f, S, n, s0, step)
<1> DEFINE Upto(f, k) == \A i \in 0..n : i <= k => f[i] = IF i = 0 THEN s0 ELSE step[i][f[i - 1]]
           G == {k \in 0..n : \E f \in [0..n -> S] : Upto(f, k)}
<1> HIDE DEF Upto
<1>1. 0 \in G
  <2> DEFINE f == [i \in 0..n |-> s0]
  <2>1. f \in [0..n -> S] /\ Upto(f, 0)
    BY DEF Upto
  <2> HIDE DEF f
  <2> QED
    BY <2>1
<1>2. \A k \in G : k < n => k + 1 \in G
  <2> SUFFICES ASSUME NEW k \in G, k < n PROVE \E g \in [0..n -> S] : Upto(g, k + 1)
    OBVIOUS
  <2>1. PICK f \in [0..n -> S] : Upto(f, k)
    OBVIOUS
  <2> DEFINE g == [f EXCEPT ![k + 1] = step[k + 1][f[k]]]
  <2>2. step[k + 1][f[k]] \in S /\ k + 1 \in 0..n
    BY <2>1
  <2>3. g \in [0..n -> S]
    BY <2>1, <2>2
  <2>4. Upto(g, k + 1)
    <3> SUFFICES ASSUME NEW i \in 0..n, i <= k + 1
                 PROVE  g[i] = IF i = 0 THEN s0 ELSE step[i][g[i - 1]]
      BY DEF Upto
    <3>1. CASE i = k + 1
      BY <2>1, <2>2, <3>1
    <3>2. CASE i <= k
      BY <2>1, <2>2, <3>2 DEF Upto
    <3> QED
      BY <3>1, <3>2
  <2> HIDE DEF g
  <2> QED
    BY <2>3, <2>4
<1>3. G = 0..n
  <2>1. G \in SUBSET (0..n)
    OBVIOUS
  <2> HIDE DEF G
  <2> QED
    BY <1>1, <1>2, <2>1, IntervalInduction
<1>4. PICK f \in [0..n -> S] : Upto(f, n)
  BY <1>3
<1>5. Runs(f, S, n, s0, step)
  BY <1>4 DEF Upto, Runs
<1> QED
  BY <1>5

-----------------------------------------------------------------------------
(* One vote on one object.                                                 *)

Ballot == [mn : MN, obj : Obj, signal : Signal, outcome : {"yes", "no", "abstain"}, time : Nat]

LEMMA VoteFacts ==
    \A v \in Vote : /\ VoteOf[v] \in Ballot
                    /\ VoteOf[v].mn \in MN /\ VoteOf[v].obj \in Obj /\ VoteOf[v].time \in Nat
BY GovernanceAssumption DEF Ballot

\* What mapObjects may hold.
Content(votes) ==
    [current : SUBSET votes, file : SUBSET votes, waiting : SUBSET votes,
     dirty : BOOLEAN, funding : BOOLEAN, deleting : BOOLEAN, expired : BOOLEAN]

Latest(obj) ==
    /\ obj.current \subseteq obj.file
    /\ \A v \in obj.file : \E w \in obj.current :
         SameSlot(v, w) /\ VoteOf[v].time <= VoteOf[w].time
    /\ \A v, w \in obj.current : SameSlot(v, w) => v = w

Funded(obj) ==
    obj.dirty \/ \E enabled \in 1..Cardinality(MN) :
       obj.funding <=> Supported(obj, "funding", Larger(MinQuorum, enabled \div 10))

\* b is a with the vote v recorded.
IsRecorded(a, b, v) ==
    /\ b.current = {w \in a.current : ~ SameSlot(v, w)} \cup {v}
    /\ b.file = a.file \cup {v}
    /\ b.dirty = TRUE

LEMMA RecordedIs ==
    ASSUME NEW S \in SUBSET Vote, NEW obj \in Content(S), NEW v \in S
    PROVE  /\ Recorded(obj, v) \in Content(S)
           /\ IsRecorded(obj, Recorded(obj, v), v)
           /\ Recorded(obj, v).waiting = obj.waiting
BY DEF Recorded, Content, IsRecorded

\* A vote that is not obsolete becomes the latest of its slot.
LEMMA RecordedLatest ==
    ASSUME NEW S \in SUBSET Vote, NEW a \in Content(S), NEW b \in Content(S), NEW v \in S,
           Latest(a), ~ Obsolete(a, v), IsRecorded(a, b, v)
    PROVE  Latest(b)
<1>1. \A x \in S : VoteOf[x].time \in Nat
  BY VoteFacts
<1>2. a.current \subseteq S /\ a.file \subseteq S
  BY DEF Content
<1>3. b.current \subseteq b.file
  BY DEF Latest, IsRecorded
<1>4. ASSUME NEW x \in b.file
      PROVE  \E w \in b.current : SameSlot(x, w) /\ VoteOf[x].time <= VoteOf[w].time
  <2>1. CASE x = v
    BY <2>1, <1>1 DEF IsRecorded, SameSlot
  <2>2. CASE x # v
    <3>1. PICK w \in a.current : SameSlot(x, w) /\ VoteOf[x].time <= VoteOf[w].time
      BY <1>4, <2>2 DEF Latest, IsRecorded
    <3>2. CASE SameSlot(v, w)
      <4>1. VoteOf[x].time \in Nat /\ VoteOf[w].time \in Nat /\ VoteOf[v].time \in Nat
        BY <1>1, <1>2, <1>4, <2>2, <3>1 DEF IsRecorded
      <4>2. ~ (VoteOf[v].time < VoteOf[w].time)
        BY <3>1, <3>2 DEF Obsolete
      <4>3. SameSlot(x, v) /\ VoteOf[x].time <= VoteOf[v].time
        BY <3>1, <3>2, <4>1, <4>2 DEF SameSlot
      <4> QED
        BY <4>3 DEF IsRecorded
    <3>3. CASE ~ SameSlot(v, w)
      BY <3>1, <3>3 DEF IsRecorded
    <3> QED
      BY <3>2, <3>3
  <2> QED
    BY <2>1, <2>2
<1>5. \A x, w \in b.current : SameSlot(x, w) => x = w
  BY DEF Latest, IsRecorded, SameSlot
<1> QED
  BY <1>3, <1>4, <1>5 DEF Latest

\* What was obsolete stays so.
LEMMA RecordedObsolete ==
    ASSUME NEW S \in SUBSET Vote, NEW a \in Content(S), NEW b \in Content(S), NEW v \in S,
           ~ Obsolete(a, v), IsRecorded(a, b, v), NEW x \in Vote, Obsolete(a, x)
    PROVE  Obsolete(b, x)
<1>1. PICK w \in a.current : SameSlot(x, w) /\ VoteOf[x].time < VoteOf[w].time
  BY DEF Obsolete
<1>2. VoteOf[x].time \in Nat /\ VoteOf[w].time \in Nat /\ VoteOf[v].time \in Nat
  BY <1>1, VoteFacts DEF Content
<1>3. CASE SameSlot(v, w)
  <2>1. ~ (VoteOf[v].time < VoteOf[w].time)
    BY <1>1, <1>3 DEF Obsolete
  <2>2. SameSlot(x, v) /\ VoteOf[x].time < VoteOf[v].time
    BY <1>1, <1>2, <1>3, <2>1 DEF SameSlot
  <2> QED
    BY <2>2 DEF IsRecorded, Obsolete
<1>4. CASE ~ SameSlot(v, w)
  BY <1>1, <1>4 DEF IsRecorded, Obsolete
<1> QED
  BY <1>3, <1>4

LEMMA Verdicts ==
    ASSUME NEW obj, NEW v
    PROVE  /\ Verdict(obj, v) \in {"unknown", "obsolete", "invalid", "ok"}
           /\ Verdict(obj, v) = "ok" => /\ VoteOf[v].mn \in list /\ VoteOf[v].mn \in indexed
                                        /\ ~ Obsolete(obj, v)
           /\ Verdict(obj, v) = "obsolete" => Obsolete(obj, v)
           /\ Verdict(obj, v) = "invalid" => VoteOf[v].mn \notin list \/ v \in Forged
           /\ Verdict(obj, v) = "unknown" => VoteOf[v].mn \notin indexed
BY DEF Verdict

-----------------------------------------------------------------------------
(* The loops over waiting and orphan votes.                                *)

Accs(S) == [obj : Content(S), ok : SUBSET Vote, bad : SUBSET Vote]

LEMMA StartType ==
    ASSUME NEW S \in SUBSET Vote, NEW obj \in Content(S)
    PROVE  Start(obj) \in Accs(S) /\ Start(obj).obj = obj /\ Start(obj).ok = {}
BY DEF Start, Accs

\* a is left as it is, its vote v is recorded, or v is found worthless.
Skips(a, b, v, expired) ==
    b = a /\ (v \notin a.obj.waiting \/ StillWaits(v, expired) \/ Verdict(a.obj, v) = "unknown")

Takes(a, b, v) ==
    /\ v \in a.obj.waiting /\ Verdict(a.obj, v) = "ok"
    /\ IsRecorded(a.obj, b.obj, v)
    /\ b.obj.waiting = a.obj.waiting \ {v}
    /\ b.ok = a.ok \cup {v}

Rejects(a, b, v) ==
    /\ v \in a.obj.waiting /\ Verdict(a.obj, v) \in {"invalid", "obsolete"}
    /\ b.obj.current = a.obj.current /\ b.obj.file = a.obj.file
    /\ b.obj.dirty = a.obj.dirty /\ b.obj.funding = a.obj.funding
    /\ b.obj.waiting \subseteq a.obj.waiting
    /\ b.ok = a.ok

LEMMA CheckWaitingIs ==
    ASSUME NEW S \in SUBSET Vote, NEW a \in Accs(S), NEW v \in Vote, NEW expired,
           NEW b, b = CheckWaiting(a, v, expired)
    PROVE  /\ b \in Accs(S)
           /\ Skips(a, b, v, expired) \/ Takes(a, b, v) \/ Rejects(a, b, v)
<1> DEFINE obj == a.obj
           dropped == [obj EXCEPT !.waiting = @ \ {v}]
           kept == IF v \in expired THEN dropped ELSE obj
<1>1. obj \in Content(S) /\ a.ok \subseteq Vote /\ a.bad \subseteq Vote
  BY DEF Accs
<1>2. CASE v \notin obj.waiting \/ StillWaits(v, expired) \/ Verdict(obj, v) = "unknown"
  <2>1. b = a
    BY <1>2, Verdicts DEF CheckWaiting
  <2> QED
    BY <1>2, <2>1 DEF Skips
<1>3. CASE ~ (v \notin obj.waiting \/ StillWaits(v, expired)) /\ Verdict(obj, v) = "ok"
  <2> DEFINE r == Recorded(obj, v)
  <2>0. v \in S
    BY <1>1, <1>3 DEF Content
  <2>1. b = [a EXCEPT !.obj = [r EXCEPT !.waiting = @ \ {v}], !.ok = @ \cup {v}]
    BY <1>3 DEF CheckWaiting
  <2>2. r \in Content(S) /\ IsRecorded(obj, r, v) /\ r.waiting = obj.waiting
    BY <1>1, <2>0, RecordedIs
  <2> HIDE DEF r
  <2>3. /\ [r EXCEPT !.waiting = @ \ {v}] \in Content(S)
        /\ IsRecorded(obj, [r EXCEPT !.waiting = @ \ {v}], v)
        /\ [r EXCEPT !.waiting = @ \ {v}].waiting = obj.waiting \ {v}
    BY <2>2 DEF Content, IsRecorded
  <2>4. b \in Accs(S) /\ b.obj = [r EXCEPT !.waiting = @ \ {v}] /\ b.ok = a.ok \cup {v}
    BY <1>1, <2>1, <2>3 DEF Accs
  <2> QED
    BY <1>3, <2>3, <2>4 DEF Takes
<1>4. CASE ~ (v \notin obj.waiting \/ StillWaits(v, expired)) /\ Verdict(obj, v) \in {"invalid", "obsolete"}
  <2>1. b \in {[a EXCEPT !.obj = kept, !.bad = @ \cup {v}], [a EXCEPT !.obj = kept]}
    BY <1>4 DEF CheckWaiting
  <2>2. /\ kept \in Content(S)
        /\ kept.current = obj.current /\ kept.file = obj.file
        /\ kept.dirty = obj.dirty /\ kept.funding = obj.funding /\ kept.waiting \subseteq obj.waiting
    BY <1>1 DEF Content
  <2> HIDE DEF kept
  <2>3. b \in Accs(S) /\ b.obj = kept /\ b.ok = a.ok
    BY <1>1, <2>1, <2>2 DEF Accs
  <2> QED
    BY <1>4, <2>2, <2>3 DEF Rejects
<1> QED
  BY <1>2, <1>3, <1>4, Verdicts

LEMMA CheckOrphanType ==
    ASSUME NEW S \in SUBSET Vote, NEW a \in Accs(S), NEW v \in S
    PROVE  CheckOrphan(a, v) \in Accs(S)
<1>1. a.obj \in Content(S) /\ a.ok \subseteq Vote /\ a.bad \subseteq Vote
  BY DEF Accs
<1>2. Recorded(a.obj, v) \in Content(S)
  BY <1>1, RecordedIs
<1>3. CheckOrphan(a, v) \in {[a EXCEPT !.obj = Recorded(a.obj, v), !.ok = @ \cup {v}],
                             [a EXCEPT !.bad = @ \cup {v}], a}
  BY DEF CheckOrphan
<1> QED
  BY <1>1, <1>2, <1>3 DEF Accs

\* The loop of CheckWaitingVotes, as a run.
WaitingRun(f, obj, order, expired) ==
    /\ f[0] = Start(obj)
    /\ \A i \in 1..Len(order) : f[i] = CheckWaiting(f[i - 1], order[i], expired)
    /\ CheckWaitingVotes(obj, order, expired) = f[Len(order)]

LEMMA WaitingRuns ==
    ASSUME NEW S \in SUBSET Vote, NEW obj \in Content(S), NEW order \in Seq(Vote), NEW expired
    PROVE  \E f \in [0..Len(order) -> Accs(S)] : WaitingRun(f, obj, order, expired)
<1> DEFINE n == Len(order)
           T == Accs(S)
           step == [i \in 1..n |-> [a \in T |-> CheckWaiting(a, order[i], expired)]]
           body(g) == [i \in 0..n |-> IF i = 0 THEN Start(obj)
                                      ELSE CheckWaiting(g[i - 1], order[i], expired)]
           acc == CHOOSE g : g = body(g)
<1>1. n \in Nat /\ Start(obj) \in T /\ \A i \in 1..n : order[i] \in Vote
  BY StartType
<1>2. \A i \in 1..n : \A a \in T : step[i][a] \in T /\ step[i][a] = CheckWaiting(a, order[i], expired)
  BY <1>1, CheckWaitingIs
<1>3. CheckWaitingVotes(obj, order, expired) = acc[n]
  BY DEF CheckWaitingVotes
<1> HIDE DEF n, T, step
<1>4. PICK f : Runs(f, T, n, Start(obj), step)
  BY <1>1, <1>2, IntervalRecursion
<1>5. /\ f \in [0..n -> T] /\ f[0] = Start(obj)
      /\ \A i \in 1..n : f[i] = CheckWaiting(f[i - 1], order[i], expired)
  <2>1. f \in [0..n -> T] /\ \A i \in 0..n : f[i] = IF i = 0 THEN Start(obj) ELSE step[i][f[i - 1]]
    BY <1>4 DEF Runs
  <2>2. 0 \in 0..n /\ \A i \in 1..n : i \in 0..n /\ i - 1 \in 0..n /\ i # 0
    BY <1>1
  <2>3. f[0] = Start(obj)
    BY <2>1, <2>2
  <2>4. \A i \in 1..n : f[i] = step[i][f[i - 1]] /\ f[i - 1] \in T
    BY <2>1, <2>2
  <2> QED
    BY <1>2, <2>1, <2>3, <2>4
<1>6. f = body(f)
  BY <1>1, <1>5
<1>7. acc = body(acc)
  BY <1>6
<1> HIDE DEF acc
<1>8. acc[0] = Start(obj) /\ \A i \in 1..n : acc[i] = CheckWaiting(acc[i - 1], order[i], expired)
  <2> DEFINE h(i) == IF i = 0 THEN Start(obj) ELSE CheckWaiting(acc[i - 1], order[i], expired)
  <2>1. acc = [i \in 0..n |-> h(i)]
    BY <1>7
  <2>2. h(0) = Start(obj) /\ \A i \in 1..n : h(i) = CheckWaiting(acc[i - 1], order[i], expired)
    BY <1>1
  <2>3. 0 \in 0..n /\ \A i \in 1..n : i \in 0..n
    BY <1>1
  <2> HIDE DEF h
  <2>4. \A i \in 0..n : acc[i] = h(i)
    BY <2>1
  <2> QED
    BY <2>2, <2>3, <2>4
<1>9. acc \in [0..n -> T]
  <2> DEFINE G == {i \in 0..n : acc[i] = f[i]}
  <2>1. 0 \in G
    BY <1>1, <1>5, <1>8
  <2>2. \A k \in G : k < n => k + 1 \in G
    <3> SUFFICES ASSUME NEW k \in G, k < n PROVE acc[k + 1] = f[k + 1]
      BY <1>1
    <3>1. k + 1 \in 1..n /\ (k + 1) - 1 = k
      BY <1>1
    <3> QED
      BY <1>5, <1>8, <3>1
  <2>3. G = 0..n
    <3>1. G \in SUBSET (0..n)
      OBVIOUS
    <3> HIDE DEF G
    <3> QED
      BY <1>1, <2>1, <2>2, <3>1, IntervalInduction
  <2>4. \A i \in 0..n : acc[i] \in T
    BY <1>5, <2>3
  <2>5. DOMAIN acc = 0..n /\ acc = [i \in DOMAIN acc |-> acc[i]]
    BY <1>7
  <2> HIDE DEF G
  <2> QED
    BY <2>4, <2>5
<1>10. WaitingRun(acc, obj, order, expired)
  BY <1>3, <1>8 DEF WaitingRun, n
<1> QED
  BY <1>9, <1>10 DEF n, T

LEMMA OrphanType ==
    ASSUME NEW S \in SUBSET Vote, NEW obj \in Content(S), NEW order \in Seq(S)
    PROVE  CheckOrphanVotes(obj, order) \in Accs(S)
<1> DEFINE n == Len(order)
           T == Accs(S)
           step == [i \in 1..n |-> [a \in T |-> CheckOrphan(a, order[i])]]
           body(g) == [i \in 0..n |-> IF i = 0 THEN Start(obj) ELSE CheckOrphan(g[i - 1], order[i])]
           acc == CHOOSE g : g = body(g)
<1>1. n \in Nat /\ Start(obj) \in T /\ \A i \in 1..n : order[i] \in S
  BY StartType
<1>2. \A i \in 1..n : \A a \in T : step[i][a] \in T /\ step[i][a] = CheckOrphan(a, order[i])
  BY <1>1, CheckOrphanType
<1>3. CheckOrphanVotes(obj, order) = acc[n]
  BY DEF CheckOrphanVotes
<1> HIDE DEF n, T, step
<1>4. PICK f : Runs(f, T, n, Start(obj), step)
  BY <1>1, <1>2, IntervalRecursion
<1>5. /\ f \in [0..n -> T] /\ f[0] = Start(obj)
      /\ \A i \in 1..n : f[i] = CheckOrphan(f[i - 1], order[i])
  <2>1. f \in [0..n -> T] /\ \A i \in 0..n : f[i] = IF i = 0 THEN Start(obj) ELSE step[i][f[i - 1]]
    BY <1>4 DEF Runs
  <2>2. 0 \in 0..n /\ \A i \in 1..n : i \in 0..n /\ i - 1 \in 0..n /\ i # 0
    BY <1>1
  <2>3. f[0] = Start(obj)
    BY <2>1, <2>2
  <2>4. \A i \in 1..n : f[i] = step[i][f[i - 1]] /\ f[i - 1] \in T
    BY <2>1, <2>2
  <2> QED
    BY <1>2, <2>1, <2>3, <2>4
<1>6. f = body(f)
  BY <1>1, <1>5
<1>7. acc = body(acc)
  BY <1>6
<1> HIDE DEF acc
<1>8. acc[0] = Start(obj) /\ \A i \in 1..n : acc[i] = CheckOrphan(acc[i - 1], order[i])
  <2> DEFINE h(i) == IF i = 0 THEN Start(obj) ELSE CheckOrphan(acc[i - 1], order[i])
  <2>1. acc = [i \in 0..n |-> h(i)]
    BY <1>7
  <2>2. h(0) = Start(obj) /\ \A i \in 1..n : h(i) = CheckOrphan(acc[i - 1], order[i])
    BY <1>1
  <2>3. 0 \in 0..n /\ \A i \in 1..n : i \in 0..n
    BY <1>1
  <2> HIDE DEF h
  <2>4. \A i \in 0..n : acc[i] = h(i)
    BY <2>1
  <2> QED
    BY <2>2, <2>3, <2>4
<1> DEFINE G == {i \in 0..n : acc[i] = f[i]}
<1>9. 0 \in G
  BY <1>1, <1>5, <1>8
<1>10. \A k \in G : k < n => k + 1 \in G
  <2> SUFFICES ASSUME NEW k \in G, k < n PROVE acc[k + 1] = f[k + 1]
    BY <1>1
  <2>1. k + 1 \in 1..n /\ (k + 1) - 1 = k
    BY <1>1
  <2> QED
    BY <1>5, <1>8, <2>1
<1>11. G = 0..n
  <2>1. G \in SUBSET (0..n)
    OBVIOUS
  <2> HIDE DEF G
  <2> QED
    BY <1>1, <1>9, <1>10, <2>1, IntervalInduction
<1>12. acc[n] \in T
  BY <1>1, <1>5, <1>11
<1> QED
  BY <1>3, <1>12 DEF T

LEMMA SupportedSame ==
    ASSUME NEW a, NEW b, a.current = b.current, NEW signal, NEW required
    PROVE  Supported(a, signal, required) = Supported(b, signal, required)
BY DEF Supported

LEMMA FundedSame ==
    ASSUME NEW a, NEW b, a.current = b.current, a.dirty = b.dirty, a.funding = b.funding, Funded(a)
    PROVE  Funded(b)
<1>1. CASE a.dirty
  BY <1>1 DEF Funded
<1>2. ASSUME NEW enabled \in 1..Cardinality(MN),
             a.funding <=> Supported(a, "funding", Larger(MinQuorum, enabled \div 10))
      PROVE  Funded(b)
  <2>1. Supported(a, "funding", Larger(MinQuorum, enabled \div 10))
          = Supported(b, "funding", Larger(MinQuorum, enabled \div 10))
    BY SupportedSame
  <2> QED
    BY <1>2, <2>1 DEF Funded
<1> QED
  BY <1>1, <1>2 DEF Funded

\* One vote of the loop: what it does to the object, and to the vote.
LEMMA WaitingStep ==
    ASSUME NEW S \in SUBSET Vote, NEW a \in Accs(S), NEW v \in Vote, NEW expired,
           list \subseteq indexed, Latest(a.obj), Funded(a.obj),
           NEW b, b = CheckWaiting(a, v, expired)
    PROVE  /\ b \in Accs(S) /\ Latest(b.obj) /\ Funded(b.obj)
           /\ b.obj.waiting \subseteq a.obj.waiting
           /\ \A x \in Vote : Obsolete(a.obj, x) => Obsolete(b.obj, x)
           /\ b.obj.current \subseteq a.obj.current \cup b.ok /\ a.ok \subseteq b.ok
           /\ \A x \in b.ok : x \in a.ok \/ VoteOf[x].mn \in list
           /\ v \in b.obj.waiting /\ VoteOf[v].mn \in list => v \in Forged \/ Obsolete(b.obj, v)
<1>1. b \in Accs(S) /\ (Skips(a, b, v, expired) \/ Takes(a, b, v) \/ Rejects(a, b, v))
  BY CheckWaitingIs
<1>2. a.obj \in Content(S) /\ b.obj \in Content(S)
  BY <1>1 DEF Accs
<1>3. CASE Skips(a, b, v, expired)
  BY <1>1, <1>3, Verdicts DEF Skips, StillWaits
<1>4. CASE Takes(a, b, v)
  <2>1. v \in S /\ ~ Obsolete(a.obj, v) /\ VoteOf[v].mn \in list /\ IsRecorded(a.obj, b.obj, v)
    BY <1>2, <1>4, Verdicts DEF Takes, Content
  <2>2. Latest(b.obj) /\ \A x \in Vote : Obsolete(a.obj, x) => Obsolete(b.obj, x)
    BY <1>2, <2>1, RecordedLatest, RecordedObsolete
  <2>3. Funded(b.obj)
    BY <2>1 DEF Funded, IsRecorded
  <2>4. b.obj.current \subseteq a.obj.current \cup {v}
    BY <2>1 DEF IsRecorded
  <2> QED
    BY <1>1, <1>4, <2>1, <2>2, <2>3, <2>4 DEF Takes
<1>5. CASE Rejects(a, b, v)
  <2>1. Funded(b.obj)
    BY <1>5, FundedSame DEF Rejects
  <2>2. Latest(b.obj)
    BY <1>5 DEF Rejects, Latest
  <2>3. \A x \in Vote : Obsolete(a.obj, x) <=> Obsolete(b.obj, x)
    BY <1>5 DEF Rejects, Obsolete
  <2>4. VoteOf[v].mn \in list => v \in Forged \/ Obsolete(a.obj, v)
    BY <1>5, Verdicts DEF Rejects
  <2> QED
    BY <1>1, <1>5, <2>1, <2>2, <2>3, <2>4 DEF Rejects
<1> QED
  BY <1>1, <1>3, <1>4, <1>5

\* The whole loop, from obj to the result r.
TakenUp(obj, r, votes) ==
    /\ Latest(r.obj) /\ Funded(r.obj)
    /\ r.obj.waiting \subseteq obj.waiting
    /\ \A x \in Vote : Obsolete(obj, x) => Obsolete(r.obj, x)
    /\ r.obj.current \subseteq obj.current \cup r.ok
    /\ \A x \in r.ok : VoteOf[x].mn \in list
    /\ \A x \in votes : x \in r.obj.waiting /\ VoteOf[x].mn \in list
                           => x \in Forged \/ Obsolete(r.obj, x)

LEMMA WaitingResult ==
    ASSUME NEW S \in SUBSET Vote, NEW obj \in Content(S), NEW order \in Seq(Vote), NEW expired,
           list \subseteq indexed, Latest(obj), Funded(obj),
           NEW r, r = CheckWaitingVotes(obj, order, expired)
    PROVE  r \in Accs(S) /\ TakenUp(obj, r, {order[i] : i \in DOMAIN order})
<1> DEFINE n == Len(order)
           upto(i) == {order[j] : j \in 1..i}
<1>1. n \in Nat /\ DOMAIN order = 1..n /\ \A i \in 1..n : order[i] \in Vote
  OBVIOUS
<1>2. PICK f \in [0..n -> Accs(S)] : WaitingRun(f, obj, order, expired)
  BY WaitingRuns
<1>3. /\ f[0] = Start(obj) /\ r = f[n]
      /\ \A i \in 1..n : f[i] = CheckWaiting(f[i - 1], order[i], expired)
  BY <1>2 DEF WaitingRun
<1> HIDE DEF n
<1> DEFINE G == {i \in 0..n : TakenUp(obj, f[i], upto(i))}
<1>4. 0 \in G
  <2>1. Start(obj).obj = obj /\ Start(obj).ok = {}
    BY StartType
  <2> QED
    BY <1>1, <1>3, <2>1 DEF TakenUp
<1>5. \A k \in G : k < n => k + 1 \in G
  <2> SUFFICES ASSUME NEW k \in G, k < n PROVE TakenUp(obj, f[k + 1], upto(k + 1))
    BY <1>1
  <2> DEFINE a == f[k]
             b == f[k + 1]
             v == order[k + 1]
  <2>1. k + 1 \in 1..n /\ (k + 1) - 1 = k /\ k \in 0..n
    BY <1>1
  <2>2. b = CheckWaiting(a, v, expired) /\ a \in Accs(S) /\ v \in Vote
    BY <1>1, <1>2, <1>3, <2>1
  <2>3. TakenUp(obj, a, upto(k))
    OBVIOUS
  <2>4. upto(k + 1) = upto(k) \cup {v}
    <3>1. 1..(k + 1) = (1..k) \cup {k + 1}
      BY <1>1
    <3> QED
      BY <3>1
  <2>4a. upto(k) \subseteq Vote
    BY <1>1
  <2> HIDE DEF a, b, v, upto
  <2>5. /\ b \in Accs(S) /\ Latest(b.obj) /\ Funded(b.obj)
        /\ b.obj.waiting \subseteq a.obj.waiting
        /\ \A x \in Vote : Obsolete(a.obj, x) => Obsolete(b.obj, x)
        /\ b.obj.current \subseteq a.obj.current \cup b.ok /\ a.ok \subseteq b.ok
        /\ \A x \in b.ok : x \in a.ok \/ VoteOf[x].mn \in list
        /\ v \in b.obj.waiting /\ VoteOf[v].mn \in list => v \in Forged \/ Obsolete(b.obj, v)
    BY <2>2, <2>3, WaitingStep DEF TakenUp
  <2>6. TakenUp(obj, b, upto(k) \cup {v})
    BY <2>3, <2>4a, <2>5 DEF TakenUp
  <2> QED
    BY <2>4, <2>6 DEF b
<1>6. G = 0..n
  <2>1. G \in SUBSET (0..n)
    OBVIOUS
  <2> HIDE DEF G
  <2> QED
    BY <1>1, <1>4, <1>5, <2>1, IntervalInduction
<1>7. TakenUp(obj, r, upto(n))
  BY <1>1, <1>3, <1>6
<1>8. r \in Accs(S) /\ upto(n) = {order[i] : i \in DOMAIN order}
  BY <1>1, <1>2, <1>3
<1> HIDE DEF upto
<1> QED
  BY <1>7, <1>8

-----------------------------------------------------------------------------
(* The list without the masternodes that leave.                            *)

LEMMA AppendNew ==
    ASSUME NEW s \in Seq(MN), NEW m \in MN, IsInjective(s), m \notin ToSet(s)
    PROVE  /\ Append(s, m) \in Seq(MN) /\ IsInjective(Append(s, m))
           /\ ToSet(Append(s, m)) = ToSet(s) \cup {m}
<1> DEFINE n == Len(s)
           t == Append(s, m)
<1>1. n \in Nat /\ DOMAIN s = 1..n /\ \A i \in 1..n : s[i] # m
  BY DEF ToSet
<1>2. t \in Seq(MN) /\ Len(t) = n + 1 /\ t[n + 1] = m /\ \A i \in 1..n : t[i] = s[i]
  OBVIOUS
<1>3. DOMAIN t = 1..(n + 1) /\ 1..(n + 1) = (1..n) \cup {n + 1}
  BY <1>1, <1>2
<1> HIDE DEF n, t
<1>4. IsInjective(t)
  <2>1. \A i, j \in 1..n : s[i] = s[j] => i = j
    BY <1>1 DEF IsInjective
  <2>2. \A i, j \in DOMAIN t : t[i] = t[j] => i = j
    BY <1>1, <1>2, <1>3, <2>1
  <2> QED
    BY <2>2 DEF IsInjective
<1>5. ToSet(t) = ToSet(s) \cup {m}
  BY <1>1, <1>2, <1>3 DEF ToSet
<1> QED
  BY <1>2, <1>4, <1>5 DEF t

LEMMA RemainingIs ==
    ASSUME masternodes \in Seq(MN), IsInjective(masternodes), NEW gone
    PROVE  /\ Remaining(gone) \in Seq(MN) /\ IsInjective(Remaining(gone))
           /\ ToSet(Remaining(gone)) = list \ gone
<1> DEFINE n == Len(masternodes)
           T == Seq(MN)
           after(i, s) == IF masternodes[i] \in gone THEN s ELSE Append(s, masternodes[i])
           step == [i \in 1..n |-> [s \in T |-> after(i, s)]]
           body(g) == [i \in 0..n |-> IF i = 0 THEN <<>>
                                      ELSE IF masternodes[i] \in gone THEN g[i - 1]
                                      ELSE Append(g[i - 1], masternodes[i])]
           kept == CHOOSE g : g = body(g)
           upto(i) == {masternodes[j] : j \in 1..i} \ gone
<1>1. n \in Nat /\ <<>> \in T /\ DOMAIN masternodes = 1..n /\ \A i \in 1..n : masternodes[i] \in MN
  OBVIOUS
<1>2. \A i \in 1..n : \A s \in T : step[i][s] \in T /\ step[i][s] = after(i, s)
  BY <1>1
<1>3. Remaining(gone) = kept[n]
  BY DEF Remaining
<1> HIDE DEF n, T, step
<1>4. PICK f : Runs(f, T, n, <<>>, step)
  BY <1>1, <1>2, IntervalRecursion
<1>5. /\ f \in [0..n -> T] /\ f[0] = <<>>
      /\ \A i \in 1..n : f[i] = after(i, f[i - 1])
  <2>1. f \in [0..n -> T] /\ \A i \in 0..n : f[i] = IF i = 0 THEN <<>> ELSE step[i][f[i - 1]]
    BY <1>4 DEF Runs
  <2>2. 0 \in 0..n /\ \A i \in 1..n : i \in 0..n /\ i - 1 \in 0..n /\ i # 0
    BY <1>1
  <2>3. f[0] = <<>>
    BY <2>1, <2>2
  <2>4. \A i \in 1..n : f[i] = step[i][f[i - 1]] /\ f[i - 1] \in T
    BY <2>1, <2>2
  <2> HIDE DEF after
  <2> QED
    BY <1>2, <2>1, <2>3, <2>4
<1>6. f = body(f)
  <2> DEFINE h(i) == IF i = 0 THEN <<>> ELSE after(i, f[i - 1])
  <2>1. \A i \in 0..n : i # 0 => i \in 1..n
    BY <1>1
  <2> HIDE DEF after
  <2>2. \A i \in 0..n : f[i] = h(i)
    BY <1>5, <2>1
  <2> HIDE DEF h
  <2>3. f = [i \in 0..n |-> h(i)]
    BY <1>5, <2>2
  <2> QED
    BY <2>3 DEF h, after
<1>7. kept = body(kept)
  BY <1>6
<1> HIDE DEF kept
<1>8. kept[0] = <<>> /\ \A i \in 1..n : kept[i] = after(i, kept[i - 1])
  <2> DEFINE h(i) == IF i = 0 THEN <<>> ELSE after(i, kept[i - 1])
  <2>1. kept = [i \in 0..n |-> h(i)]
    BY <1>7
  <2>2. h(0) = <<>> /\ \A i \in 1..n : h(i) = after(i, kept[i - 1])
    BY <1>1
  <2>3. 0 \in 0..n /\ \A i \in 1..n : i \in 0..n
    BY <1>1
  <2> HIDE DEF h
  <2>4. \A i \in 0..n : kept[i] = h(i)
    BY <2>1
  <2> HIDE DEF after
  <2> QED
    BY <2>2, <2>3, <2>4
<1> DEFINE Good(i) == kept[i] \in Seq(MN) /\ IsInjective(kept[i]) /\ ToSet(kept[i]) = upto(i)
           G == {i \in 0..n : Good(i)}
<1>9. 0 \in G
  <2>1. IsInjective(<<>>) /\ ToSet(<<>>) = {} /\ upto(0) = {}
    BY DEF IsInjective, ToSet
  <2>2. <<>> \in Seq(MN) /\ 0 \in 0..n
    BY <1>1
  <2> HIDE DEF upto
  <2>3. Good(0)
    BY <1>8, <2>1, <2>2, Zenon
  <2> HIDE DEF Good
  <2> QED
    BY <2>2, <2>3
<1>10. \A k \in G : k < n => k + 1 \in G
  <2> SUFFICES ASSUME NEW k \in G, k < n PROVE Good(k + 1)
    <3> HIDE DEF Good
    <3> QED
      BY <1>1
  <2> DEFINE m == masternodes[k + 1]
             s == kept[k]
  <2>1. k + 1 \in 1..n /\ (k + 1) - 1 = k /\ 1..(k + 1) = (1..k) \cup {k + 1} /\ k \in Nat
    BY <1>1
  <2>2. kept[k + 1] = (IF m \in gone THEN s ELSE Append(s, m)) /\ m \in MN
    BY <1>1, <1>8, <2>1
  <2>3. s \in Seq(MN) /\ IsInjective(s) /\ ToSet(s) = upto(k)
    OBVIOUS
  <2>4. m \notin {masternodes[j] : j \in 1..k}
    <3>1. \A j \in 1..k : j \in 1..n /\ j # k + 1
      BY <1>1, <2>1
    <3> QED
      BY <1>1, <2>1, <3>1 DEF IsInjective
  <2>5. upto(k + 1) = upto(k) \cup ({m} \ gone)
    BY <2>1
  <2>6. m \notin upto(k)
    BY <2>4
  <2> HIDE DEF m, s, upto
  <2>7. CASE m \in gone
    BY <2>2, <2>3, <2>5, <2>7
  <2>8. CASE m \notin gone
    <3>1. /\ Append(s, m) \in Seq(MN) /\ IsInjective(Append(s, m))
          /\ ToSet(Append(s, m)) = ToSet(s) \cup {m}
      BY <2>2, <2>3, <2>6, AppendNew
    <3>2. kept[k + 1] = Append(s, m) /\ upto(k + 1) = upto(k) \cup {m}
      BY <2>2, <2>5, <2>8
    <3> QED
      BY <2>3, <3>1, <3>2, Zenon
  <2> QED
    BY <2>7, <2>8
<1>11. G = 0..n
  <2>1. G \in SUBSET (0..n)
    OBVIOUS
  <2> HIDE DEF G
  <2> QED
    BY <1>1, <1>9, <1>10, <2>1, IntervalInduction
<1>12. Good(n)
  <2> HIDE DEF Good
  <2> QED
    BY <1>1, <1>11
<1>13. upto(n) = list \ gone
  BY <1>1 DEF list, ToSet
<1> QED
  BY <1>3, <1>12, <1>13

-----------------------------------------------------------------------------
(* The clean-up of one object.                                             *)

LEMMA FiniteFacts ==
    /\ IsFiniteSet(Vote) /\ IsFiniteSet(MN) /\ Cardinality(MN) \in Nat
    /\ MinQuorum \in Nat /\ MaxEvents \in Nat
BY GovernanceAssumption, FS_CardinalityType

LEMMA SupportedType ==
    ASSUME NEW votes \in SUBSET Vote, NEW obj, obj.current = votes, NEW signal, NEW required \in Nat
    PROVE  Supported(obj, signal, required) \in BOOLEAN
<1> DEFINE of(outcome) == {v \in obj.current :
                             VoteOf[v].signal = signal /\ VoteOf[v].outcome = outcome}
<1>1. \A outcome \in {"yes", "no"} : Cardinality(of(outcome)) \in Nat
  <2> TAKE outcome \in {"yes", "no"}
  <2>1. of(outcome) \subseteq Vote
    OBVIOUS
  <2> HIDE DEF of
  <2> QED
    BY <2>1, FiniteFacts, FS_Subset, FS_CardinalityType
<1>2. Supported(obj, signal, required)
        = (Cardinality(of("yes")) >= Cardinality(of("no")) + required)
  BY DEF Supported
<1> HIDE DEF of
<1> QED
  BY <1>1, <1>2

LEMMA Quorums ==
    ASSUME NEW enabled \in Nat
    PROVE  /\ Larger(MinQuorum, enabled \div 10) \in Nat
           /\ Larger(MinQuorum, (2 * enabled) \div 3) \in Nat
<1>1. enabled \div 10 \in Nat /\ (2 * enabled) \div 3 \in Nat
  OBVIOUS
<1> QED
  BY <1>1, FiniteFacts DEF Larger

LEMMA UpdatedIs ==
    ASSUME NEW S \in SUBSET Vote, NEW obj \in Content(S), obj.dirty,
           NEW enabled \in 0..Cardinality(MN),
           NEW c, c = UpdateSentinelVariables(obj, enabled)
    PROVE  /\ c \in Content(S) /\ Funded(c)
           /\ c.current = obj.current /\ c.file = obj.file /\ c.waiting = obj.waiting
<1>1. CASE enabled = 0
  BY <1>1 DEF UpdateSentinelVariables, Funded
<1>2. CASE enabled # 0
  <2> DEFINE q == Larger(MinQuorum, enabled \div 10)
             d == Larger(MinQuorum, (2 * enabled) \div 3)
             fund == Supported(obj, "funding", q)
             del == Supported(obj, "delete", d)
  <2>1. enabled \in Nat /\ enabled \in 1..Cardinality(MN)
    BY <1>2, FiniteFacts
  <2>2. q \in Nat /\ d \in Nat
    BY <2>1, Quorums
  <2> HIDE DEF q, d
  <2>3. obj.current \in SUBSET Vote /\ obj.deleting \in BOOLEAN
    BY DEF Content
  <2>4. fund \in BOOLEAN /\ del \in BOOLEAN
    BY <2>2, <2>3, SupportedType
  <2>5. c = [obj EXCEPT !.funding = fund, !.deleting = @ \/ del, !.dirty = FALSE]
    BY <1>2 DEF UpdateSentinelVariables, q, d
  <2> HIDE DEF fund, del
  <2>6. (obj.deleting \/ del) \in BOOLEAN
    OBVIOUS
  <2>7. /\ c.current = obj.current /\ c.file = obj.file /\ c.waiting = obj.waiting
        /\ c.funding = fund /\ c \in Content(S)
    BY <2>4, <2>5, <2>6 DEF Content
  <2>8. Supported(c, "funding", q) = fund
    BY <2>7, SupportedSame DEF fund
  <2>9. Funded(c)
    BY <2>1, <2>7, <2>8 DEF Funded, q
  <2> QED
    BY <2>7, <2>9
<1> QED
  BY <1>1, <1>2

LEMMA ClearedIs ==
    ASSUME NEW S \in SUBSET Vote, NEW obj \in Content(S), Latest(obj),
           NEW c, c = ClearMasternodeVotes(obj)
    PROVE  /\ c \in Content(S) /\ Latest(c) /\ c.dirty = TRUE
           /\ c.waiting = obj.waiting /\ c.current \subseteq obj.current
           /\ MnsOf(c.current) \subseteq list
           /\ \A x \in Vote : VoteOf[x].mn \in list /\ Obsolete(obj, x) => Obsolete(c, x)
<1> DEFINE gone == MnsOf(obj.current) \ list
<1>1. /\ c.current = {v \in obj.current : VoteOf[v].mn \notin gone}
      /\ c.file = {v \in obj.file : VoteOf[v].mn \notin gone}
      /\ c.waiting = obj.waiting /\ c.dirty = TRUE /\ c \in Content(S)
  BY DEF ClearMasternodeVotes, Content
<1>2. \A v \in obj.current : VoteOf[v].mn \notin gone <=> VoteOf[v].mn \in list
  BY DEF MnsOf
<1> HIDE DEF gone
<1>3. Latest(c)
  <2>1. c.current \subseteq c.file
    BY <1>1 DEF Latest
  <2>2. ASSUME NEW v \in c.file
        PROVE  \E w \in c.current : SameSlot(v, w) /\ VoteOf[v].time <= VoteOf[w].time
    <3>1. PICK w \in obj.current : SameSlot(v, w) /\ VoteOf[v].time <= VoteOf[w].time
      BY <1>1, <2>2 DEF Latest
    <3>2. w \in c.current
      BY <1>1, <2>2, <3>1 DEF SameSlot
    <3> QED
      BY <3>1, <3>2
  <2>3. \A v, w \in c.current : SameSlot(v, w) => v = w
    BY <1>1 DEF Latest
  <2> QED
    BY <2>1, <2>2, <2>3 DEF Latest
<1>4. MnsOf(c.current) \subseteq list
  BY <1>1, <1>2 DEF MnsOf
<1>5. \A x \in Vote : VoteOf[x].mn \in list /\ Obsolete(obj, x) => Obsolete(c, x)
  BY <1>1, <1>2 DEF Obsolete, SameSlot
<1> QED
  BY <1>1, <1>3, <1>4, <1>5

LEMMA CleanedIs ==
    ASSUME NEW o \in Have, NEW S \in SUBSET Vote, objects[o] \in Content(S),
           Latest(objects[o]), Funded(objects[o]),
           NEW hashes, NEW expired, NEW enabled \in 0..Cardinality(MN),
           NEW c, c = Cleaned(o, hashes, expired, enabled)
    PROVE  /\ c \in Content(S) /\ Latest(c) /\ Funded(c)
           /\ c.waiting = objects[o].waiting /\ c.current \subseteq objects[o].current
           /\ o \in hashes => MnsOf(c.current) \subseteq list
           /\ \A x \in Vote : VoteOf[x].mn \in list /\ Obsolete(objects[o], x) => Obsolete(c, x)
<1> DEFINE obj == objects[o]
           cleared == IF o \in hashes THEN ClearMasternodeVotes(obj) ELSE obj
           marked == IF o \in expired THEN [cleared EXCEPT !.expired = TRUE] ELSE cleared
<1>1. /\ cleared \in Content(S) /\ Latest(cleared)
      /\ cleared.dirty = TRUE \/ cleared = obj
      /\ cleared.waiting = obj.waiting /\ cleared.current \subseteq obj.current
      /\ o \in hashes => MnsOf(cleared.current) \subseteq list
      /\ \A x \in Vote : VoteOf[x].mn \in list /\ Obsolete(obj, x) => Obsolete(cleared, x)
  <2> HIDE DEF obj
  <2>0. obj \in Content(S) /\ Latest(obj)
    BY DEF obj
  <2>1. CASE o \in hashes
    <3> DEFINE d == ClearMasternodeVotes(obj)
    <3>1. /\ d \in Content(S) /\ Latest(d) /\ d.dirty = TRUE
          /\ d.waiting = obj.waiting /\ d.current \subseteq obj.current
          /\ MnsOf(d.current) \subseteq list
          /\ \A x \in Vote : VoteOf[x].mn \in list /\ Obsolete(obj, x) => Obsolete(d, x)
      BY <2>0, ClearedIs
    <3>2. cleared = d
      BY <2>1
    <3> HIDE DEF d, cleared
    <3> QED
      BY <3>1, <3>2
  <2>2. CASE o \notin hashes
    <3>1. cleared = obj
      BY <2>2
    <3> HIDE DEF cleared
    <3> QED
      BY <2>0, <2>2, <3>1
  <2> QED
    BY <2>1, <2>2
<1>2. c = IF marked.dirty THEN UpdateSentinelVariables(marked, enabled) ELSE marked
  BY DEF Cleaned
<1>3. Funded(obj)
  OBVIOUS
<1> HIDE DEF obj, cleared
<1>4. /\ marked \in Content(S) /\ marked.current = cleared.current /\ marked.file = cleared.file
      /\ marked.waiting = cleared.waiting /\ marked.dirty = cleared.dirty
      /\ marked.funding = cleared.funding
  BY <1>1 DEF Content
<1> HIDE DEF marked
<1>5. /\ c \in Content(S) /\ Funded(c)
      /\ c.current = marked.current /\ c.file = marked.file /\ c.waiting = marked.waiting
  <2>1. CASE marked.dirty
    BY <1>2, <1>4, <2>1, UpdatedIs
  <2>2. CASE ~ marked.dirty
    <3>1. cleared = obj
      BY <1>1, <1>4, <2>2
    <3>2. Funded(marked)
      BY <1>3, <1>4, <3>1, FundedSame
    <3> QED
      BY <1>2, <1>4, <2>2, <3>2
  <2> QED
    BY <2>1, <2>2
<1>6. Latest(c) /\ \A x \in Vote : Obsolete(cleared, x) => Obsolete(c, x)
  BY <1>1, <1>4, <1>5 DEF Latest, Obsolete
<1> QED
  BY <1>1, <1>4, <1>5, <1>6 DEF obj

\* An order of the map is a sequence of all its votes.
LEMMA Orders ==
    ASSUME NEW W \in SUBSET Vote, NEW order \in SetToSeqs(W)
    PROVE  order \in Seq(W) /\ order \in Seq(Vote) /\ {order[i] : i \in DOMAIN order} = W
<1> DEFINE n == Cardinality(W)
<1>1. IsFiniteSet(W) /\ n \in Nat
  BY FiniteFacts, FS_Subset, FS_CardinalityType
<1>2. order \in [1..n -> W] /\ \A i, j \in 1..n : i # j => order[i] # order[j]
  BY DEF SetToSeqs
<1> HIDE DEF n
<1>3. order \in Seq(W) /\ order \in Seq(Vote)
  <2>1. order \in [1..n -> Vote]
    BY <1>2
  <2> QED
    BY <1>1, <1>2, <2>1, SeqDef
<1>4. order \in Injection(1..n, W)
  BY <1>2 DEF Injection, IsInjective
<1>5. Cardinality(1..n) = n
  BY <1>1, FS_Interval
<1>6. order \in Surjection(1..n, W)
  BY <1>1, <1>4, <1>5, FS_Injection DEF n
<1>7. {order[i] : i \in DOMAIN order} = W
  BY <1>2, <1>6 DEF Surjection
<1> QED
  BY <1>3, <1>7

-----------------------------------------------------------------------------
(* The invariant in parts.                                                 *)

ListType == masternodes \in Seq(MN) /\ IsInjective(masternodes)
            /\ list \subseteq indexed /\ indexed \subseteq MN

TracesType ==
    /\ votedOn \in [MN -> SUBSET Obj] /\ dirtyHashes \subseteq Obj
    /\ flags \in [added : BOOLEAN, removed : BOOLEAN]

ObjectsType == Have \subseteq Obj /\ \A o \in Have : objects[o] \in Content(VotesFor(o))

BooksType ==
    /\ seen \subseteq Obj /\ orphans \in [objs : SUBSET Obj, votes : SUBSET Vote]
    /\ requested \subseteq Obj \cup Vote /\ invalid \subseteq Vote /\ refs \subseteq Vote

Local == [at : Place, added : BOOLEAN, removed : BOOLEAN, hashes : SUBSET Obj, vote : SUBSET Vote]

ThreadType == thread \in [Thread -> Local]

PastType ==
    /\ past \in [erased : SUBSET Obj, escaped : SUBSET MN, missed : BOOLEAN]
    /\ events \in 0..MaxEvents

LEMMA TypeParts ==
    TypeOK <=> ListType /\ TracesType /\ ObjectsType /\ BooksType /\ ThreadType /\ PastType
BY DEF TypeOK, ListType, TracesType, ObjectsType, BooksType, ThreadType, PastType, Content, Local

LEMMA TypePartsNext ==
    TypeOK' <=> ListType' /\ TracesType' /\ ObjectsType' /\ BooksType' /\ ThreadType' /\ PastType'
BY DEF TypeOK, ListType, TracesType, ObjectsType, BooksType, ThreadType, PastType, Content, Local,
       Have, list

\* The objects are as good as they should be.
GoodObjects == \A o \in Have : Latest(objects[o]) /\ Funded(objects[o])

LEMMA GoodParts == GoodObjects <=> RecordedIsLatest /\ FundingFollowsVotes
BY DEF GoodObjects, RecordedIsLatest, FundingFollowsVotes, Latest, Funded

LEMMA GoodPartsNext == GoodObjects' <=> RecordedIsLatest' /\ FundingFollowsVotes'
BY DEF GoodObjects, RecordedIsLatest, FundingFollowsVotes, Latest, Funded, Have

LEMMA InvParts ==
    Inv <=> /\ ListType /\ TracesType /\ ObjectsType /\ BooksType /\ ThreadType /\ PastType
            /\ GoodObjects /\ VoteInHand /\ HashesInHand /\ VotesTraced /\ DepartedVotesFlagged
            /\ NoticePending /\ OncePerObject
BY TypeParts, GoodParts DEF Inv

LEMMA InvPartsNext ==
    Inv' <=> /\ ListType' /\ TracesType' /\ ObjectsType' /\ BooksType' /\ ThreadType' /\ PastType'
             /\ GoodObjects' /\ VoteInHand' /\ HashesInHand' /\ VotesTraced'
             /\ DepartedVotesFlagged' /\ NoticePending' /\ OncePerObject'
BY TypePartsNext, GoodPartsNext DEF Inv

LEMMA ThreadFacts ==
    ASSUME ThreadType
    PROVE  /\ Thread = {"net", "pool"}
           /\ \A t \in Thread : /\ thread[t] \in Local /\ thread[t].at \in Place
                                /\ thread[t].hashes \subseteq Obj /\ thread[t].vote \subseteq Vote
BY DEF Thread, ThreadType, Local

\* GoTo changes only the place of one thread.
LEMMA GoToIs ==
    ASSUME ThreadType, NEW t \in Thread, NEW place \in Place, GoTo(t, place)
    PROVE  /\ ThreadType' /\ thread'[t].at = place
           /\ \A u \in Thread \ {t} : thread'[u] = thread[u]
           /\ \A u \in Thread : /\ thread'[u].hashes = thread[u].hashes
                                /\ thread'[u].vote = thread[u].vote
                                /\ thread'[u].added = thread[u].added
                                /\ thread'[u].removed = thread[u].removed
BY DEF ThreadType, Local, GoTo

LEMMA InitInv == Init => Inv
<1> SUFFICES ASSUME Init PROVE Inv
  OBVIOUS
<1>1. ListType
  <2>1. list = ToSet(FirstList) /\ ToSet(FirstList) \subseteq MN
    BY GovernanceAssumption DEF Init, list, ToSet
  <2> QED
    BY <2>1, GovernanceAssumption DEF Init, ListType
<1>2. TracesType
  BY DEF Init, TracesType
<1>3. Have = {}
  BY DEF Init, Have
<1>4. ObjectsType /\ GoodObjects /\ VotesTraced /\ DepartedVotesFlagged
  BY <1>3 DEF ObjectsType, GoodObjects, VotesTraced, DepartedVotesFlagged
<1>5. BooksType
  BY DEF Init, BooksType
<1>6. ThreadType /\ \A t \in Thread : thread[t].hashes = {} /\ thread[t].vote = {}
  BY DEF Init, ThreadType, Local, Idle, Place
<1>7. PastType
  BY FiniteFacts DEF Init, PastType
<1>8. VoteInHand /\ HashesInHand
  BY <1>6 DEF VoteInHand, HashesInHand, Thread
<1>9. NoticePending
  BY <1>3 DEF NoticePending, AllCounted
<1>10. OncePerObject
  BY <1>3 DEF Init, OncePerObject
<1> QED
  BY <1>1, <1>2, <1>4, <1>5, <1>6, <1>7, <1>8, <1>9, <1>10, InvParts

-----------------------------------------------------------------------------
(* Messages that leave the objects as they are.                            *)

LEMMA FrameInv ==
    ASSUME Inv, UNCHANGED <<mnodeman, objects, thread, past, events>>, BooksType', OncePerObject'
    PROVE  Inv'
<1>0. /\ ListType /\ TracesType /\ ObjectsType /\ BooksType /\ ThreadType /\ PastType
      /\ GoodObjects /\ VoteInHand /\ HashesInHand /\ VotesTraced /\ DepartedVotesFlagged
      /\ NoticePending /\ OncePerObject
  BY InvParts
<1> USE DEF mnodeman
<1>1. ListType' /\ TracesType' /\ ObjectsType' /\ ThreadType' /\ PastType'
  BY <1>0 DEF ListType, TracesType, ObjectsType, ThreadType, PastType, Have, list
<1>2. GoodObjects' /\ VoteInHand' /\ HashesInHand'
  BY <1>0 DEF GoodObjects, VoteInHand, HashesInHand, Have, Latest, Funded, Obsolete, At
<1>3. VotesTraced' /\ DepartedVotesFlagged'
  BY <1>0 DEF VotesTraced, DepartedVotesFlagged, Have, list
<1>4. NoticePending'
  BY <1>0 DEF NoticePending, AllCounted, Have, list, Obsolete
<1> QED
  BY <1>1, <1>2, <1>3, <1>4, InvPartsNext

LEMMA BooksInv ==
    ASSUME Inv, UNCHANGED <<mnodeman, objects, seen, thread, past, events>>,
           BooksType', orphans'.objs = orphans.objs
    PROVE  Inv'
<1>1. OncePerObject'
  BY InvParts DEF OncePerObject, Have
<1> QED
  BY <1>1, FrameInv

LEMMA QuietMessagesInv ==
    ASSUME Inv,
           \/ \E x \in Obj \cup Vote : ConfirmInventoryRequest(x)
           \/ \E o \in Obj : ObjectSeen(o)
           \/ \E v \in Vote : VoteIgnored(v) \/ VoteWithoutObject(v) \/ VoteInvalid(v)
    PROVE  Inv'
<1>1. BooksType
  BY InvParts
<1>2. CASE \E x \in Obj \cup Vote : ConfirmInventoryRequest(x)
  <2>1. BooksType' /\ orphans' = orphans
    BY <1>1, <1>2 DEF ConfirmInventoryRequest, BooksType
  <2> QED
    BY <1>2, <2>1, BooksInv DEF ConfirmInventoryRequest
<1>3. CASE \E o \in Obj : ObjectSeen(o)
  <2>1. BooksType' /\ orphans' = orphans
    BY <1>1, <1>3 DEF ObjectSeen, AcceptMessage, BooksType
  <2> QED
    BY <1>3, <2>1, BooksInv DEF ObjectSeen
<1>4. CASE \E v \in Vote : VoteIgnored(v)
  <2>1. BooksType' /\ orphans' = orphans
    BY <1>1, <1>4 DEF VoteIgnored, AcceptMessage, BooksType
  <2> QED
    BY <1>4, <2>1, BooksInv DEF VoteIgnored
<1>5. CASE \E v \in Vote : VoteWithoutObject(v)
  <2>1. BooksType' /\ orphans'.objs = orphans.objs
    BY <1>1, <1>5 DEF VoteWithoutObject, AcceptMessage, BooksType
  <2> QED
    BY <1>5, <2>1, BooksInv DEF VoteWithoutObject
<1>6. CASE \E v \in Vote : VoteInvalid(v)
  <2>1. BooksType' /\ orphans' = orphans
    BY <1>1, <1>6 DEF VoteInvalid, AcceptMessage, BooksType
  <2> QED
    BY <1>6, <2>1, BooksInv DEF VoteInvalid
<1> QED
  BY <1>2, <1>3, <1>4, <1>5, <1>6

LEMMA ObjectInvalidInv ==
    ASSUME Inv, NEW o \in Obj, ObjectInvalid(o)
    PROVE  Inv'
<1>1. BooksType /\ OncePerObject
  BY InvParts
<1>2. /\ o \notin seen /\ seen' = seen \cup {o}
      /\ orphans' = [orphans EXCEPT !.objs = IF Signer[o] = NoMN THEN @ ELSE @ \cup {o}]
      /\ requested' = requested \ {o}
      /\ UNCHANGED <<mnodeman, objects, invalid, refs, thread, past, events>>
  BY DEF ObjectInvalid, AcceptMessage, MarkSeen
<1>3. BooksType' /\ orphans'.objs \subseteq orphans.objs \cup {o}
  BY <1>1, <1>2 DEF BooksType
<1>4. OncePerObject'
  BY <1>1, <1>2, <1>3 DEF OncePerObject, Have
<1> QED
  BY <1>2, <1>3, <1>4, FrameInv

-----------------------------------------------------------------------------
(* New objects, with nothing counted or waiting.                           *)

LEMMA NewIs ==
    ASSUME NEW o \in Obj, NEW enabled \in 0..Cardinality(MN)
    PROVE  /\ NewObject \in Content(VotesFor(o))
           /\ UpdateSentinelVariables(NewObject, enabled) \in Content(VotesFor(o))
           /\ \A obj \in {NewObject, UpdateSentinelVariables(NewObject, enabled)} :
                 /\ obj.current = {} /\ obj.waiting = {} /\ Latest(obj) /\ Funded(obj)
<1>1. NewObject \in Content(VotesFor(o))
  BY DEF NewObject, Content
<1>2. /\ NewObject.current = {} /\ NewObject.waiting = {} /\ NewObject.file = {}
      /\ NewObject.dirty = TRUE
  BY DEF NewObject
<1> DEFINE c == UpdateSentinelVariables(NewObject, enabled)
<1>3. VotesFor(o) \in SUBSET Vote
  BY DEF VotesFor
<1>4. /\ c \in Content(VotesFor(o)) /\ Funded(c) /\ c.current = NewObject.current
      /\ c.file = NewObject.file /\ c.waiting = NewObject.waiting
  BY <1>1, <1>2, <1>3, UpdatedIs
<1> HIDE DEF c
<1>5. Latest(NewObject) /\ Latest(c) /\ Funded(NewObject)
  BY <1>2, <1>4 DEF Latest, Funded
<1> QED
  BY <1>1, <1>2, <1>4, <1>5 DEF c

\* Objects in new are added, and nothing else changes that concerns objects.
LEMMA NewObjectsInv ==
    ASSUME Inv, NEW new \in SUBSET Obj, new \cap Have = {},
           DOMAIN objects' = Have \cup new,
           \A o \in Have : objects'[o] = objects[o],
           \A o \in new : /\ objects'[o] \in Content(VotesFor(o))
                          /\ objects'[o].current = {} /\ objects'[o].waiting = {}
                          /\ Latest(objects'[o]) /\ Funded(objects'[o]),
           UNCHANGED <<masternodes, indexed, dirtyHashes, flags, past, events>>,
           votedOn' \in [MN -> SUBSET Obj], \A m \in MN : votedOn[m] \subseteq votedOn'[m],
           BooksType', ThreadType', OncePerObject', VoteInHand', HashesInHand',
           \A t \in Thread : thread'[t].hashes = thread[t].hashes,
           NoticePending'
    PROVE  Inv'
<1>0. /\ ListType /\ TracesType /\ ObjectsType /\ PastType /\ ThreadType
      /\ GoodObjects /\ VotesTraced /\ DepartedVotesFlagged
  BY InvParts
<1>1. ListType' /\ TracesType' /\ PastType' /\ list' = list
  BY <1>0 DEF ListType, TracesType, PastType, list
<1>2. ObjectsType' /\ GoodObjects'
  <2>1. Have' = Have \cup new
    BY DEF Have
  <2> QED
    BY <1>0, <2>1 DEF ObjectsType, GoodObjects, Latest, Funded
<1>3. \A o \in Have' : \A m \in MnsOf(objects'[o].current) :
         o \in Have /\ m \in MnsOf(objects[o].current) /\ m \in MN
  <2> SUFFICES ASSUME NEW o \in Have', NEW m \in MnsOf(objects'[o].current)
               PROVE  o \in Have /\ m \in MnsOf(objects[o].current) /\ m \in MN
    OBVIOUS
  <2>1. PICK v \in objects'[o].current : m = VoteOf[v].mn
    BY DEF MnsOf
  <2>2. o \in Have /\ v \in objects[o].current
    BY <2>1 DEF Have
  <2>3. v \in Vote
    BY <1>0, <2>2 DEF ObjectsType, Content, VotesFor
  <2> QED
    BY <2>1, <2>2, <2>3, VoteFacts DEF MnsOf
<1>4. VotesTraced'
  BY <1>0, <1>1, <1>3 DEF VotesTraced, MnsOf
<1>5. DepartedVotesFlagged'
  <2>1. UNION {thread'[t].hashes : t \in Thread} = UNION {thread[t].hashes : t \in Thread}
    OBVIOUS
  <2> QED
    BY <1>0, <1>1, <1>3, <2>1 DEF DepartedVotesFlagged, MnsOf
<1> QED
  BY <1>1, <1>2, <1>4, <1>5, InvPartsNext

LEMMA NoVoteInHand ==
    ASSUME Inv, LockFree
    PROVE  thread["net"].vote = {}
BY InvParts DEF VoteInHand, LockFree

LEMMA EnabledBound ==
    ASSUME Inv
    PROVE  0..Cardinality(list) \subseteq 0..Cardinality(MN)
<1>1. list \subseteq MN
  BY InvParts DEF ListType
<1>2. IsFiniteSet(list) /\ Cardinality(list) \in Nat /\ Cardinality(list) <= Cardinality(MN)
  BY <1>1, FiniteFacts, FS_Subset, FS_CardinalityType
<1> QED
  BY <1>2, FiniteFacts

LEMMA AddedVotes ==
    ASSUME Inv, NEW votes \in SUBSET Vote
    PROVE  /\ AddGovernanceVotes(votes) \in [MN -> SUBSET Obj]
           /\ \A m \in MN : votedOn[m] \subseteq AddGovernanceVotes(votes)[m]
           /\ \A v \in votes : VoteOf[v].mn \in list
                 => VoteOf[v].obj \in AddGovernanceVotes(votes)[VoteOf[v].mn]
<1>1. votedOn \in [MN -> SUBSET Obj]
  BY InvParts DEF TracesType
<1>2. \A m \in MN : AddGovernanceVotes(votes)[m] = votedOn[m] \cup
        {VoteOf[v].obj : v \in {w \in votes : VoteOf[w].mn = m /\ m \in list}}
  BY DEF AddGovernanceVotes
<1>3. \A m \in MN : {VoteOf[v].obj : v \in {w \in votes : VoteOf[w].mn = m /\ m \in list}} \subseteq Obj
  BY VoteFacts
<1>4. AddGovernanceVotes(votes) \in [MN -> SUBSET Obj]
  BY <1>1, <1>3 DEF AddGovernanceVotes
<1>5. ASSUME NEW v \in votes, VoteOf[v].mn \in list
      PROVE  VoteOf[v].obj \in AddGovernanceVotes(votes)[VoteOf[v].mn]
  BY <1>2, <1>5, VoteFacts
<1> QED
  BY <1>2, <1>4, <1>5

LEMMA ObjectAddedInv ==
    ASSUME Inv, NEW o \in Obj, ObjectAdded(o)
    PROVE  Inv'
<1>0. /\ BooksType /\ OncePerObject /\ ThreadType /\ HashesInHand /\ NoticePending
  BY InvParts
<1>1. /\ At("net", "idle") /\ requested' = requested \ {o} /\ o \notin seen
      /\ seen' = seen \cup {o}
      /\ UNCHANGED <<masternodes, indexed, dirtyHashes, flags, refs, thread, past, events>>
  BY DEF ObjectAdded, AcceptMessage, MarkSeen
<1>2. PICK enabled \in 0..Cardinality(list), expired \in SUBSET (orphans.votes \cap VotesFor(o)) :
        \E order \in SetToSeqs((orphans.votes \cap VotesFor(o)) \ expired) :
          LET copy == UpdateSentinelVariables(NewObject, enabled)
              checked == CheckOrphanVotes(copy, order)
          IN /\ objects' = [x \in Have \cup {o} |-> IF x \in Have THEN objects[x] ELSE copy]
             /\ orphans' = [orphans EXCEPT !.votes = @ \ (expired \cup checked.ok)]
             /\ votedOn' = AddGovernanceVotes(checked.ok)
             /\ invalid' = invalid \cup checked.bad
  BY DEF ObjectAdded
<1> DEFINE W == (orphans.votes \cap VotesFor(o)) \ expired
           copy == UpdateSentinelVariables(NewObject, enabled)
<1>3. PICK order \in SetToSeqs(W) :
        /\ objects' = [x \in Have \cup {o} |-> IF x \in Have THEN objects[x] ELSE copy]
        /\ orphans' = [orphans EXCEPT !.votes = @ \ (expired \cup CheckOrphanVotes(copy, order).ok)]
        /\ votedOn' = AddGovernanceVotes(CheckOrphanVotes(copy, order).ok)
        /\ invalid' = invalid \cup CheckOrphanVotes(copy, order).bad
  BY <1>2
<1> DEFINE checked == CheckOrphanVotes(copy, order)
<1>4. enabled \in 0..Cardinality(MN) /\ VotesFor(o) \in SUBSET Vote /\ W \in SUBSET VotesFor(o)
  BY EnabledBound DEF VotesFor
<1> HIDE DEF W
<1>5. /\ copy \in Content(VotesFor(o)) /\ copy.current = {} /\ copy.waiting = {}
      /\ Latest(copy) /\ Funded(copy)
  BY <1>4, NewIs
<1> HIDE DEF copy
<1>6. order \in Seq(VotesFor(o))
  <2>1. order \in Seq(W)
    BY <1>4, Orders
  <2> QED
    BY <1>4, <2>1
<1>7. checked.ok \subseteq Vote /\ checked.bad \subseteq Vote
  <2>1. checked \in Accs(VotesFor(o))
    BY <1>4, <1>5, <1>6, OrphanType
  <2> HIDE DEF checked
  <2> QED
    BY <2>1 DEF Accs
<1>8. /\ objects' = [x \in Have \cup {o} |-> IF x \in Have THEN objects[x] ELSE copy]
      /\ orphans' = [orphans EXCEPT !.votes = @ \ (expired \cup checked.ok)]
      /\ votedOn' = AddGovernanceVotes(checked.ok) /\ invalid' = invalid \cup checked.bad
  BY <1>3
<1> HIDE DEF checked
<1>9. o \notin Have
  BY <1>0, <1>1 DEF OncePerObject
<1>10. /\ DOMAIN objects' = Have \cup {o} /\ \A x \in Have : objects'[x] = objects[x]
       /\ objects'[o] = copy
  BY <1>8, <1>9
<1>11. BooksType' /\ orphans'.objs = orphans.objs
  BY <1>0, <1>1, <1>7, <1>8 DEF BooksType
<1>12. OncePerObject'
  BY <1>0, <1>1, <1>10, <1>11 DEF OncePerObject, Have
<1>13. VoteInHand' /\ HashesInHand' /\ ThreadType'
  <2>1. thread["net"].vote = {}
    BY <1>1, NoVoteInHand DEF LockFree, At
  <2> QED
    BY <1>0, <1>1, <2>1 DEF VoteInHand, HashesInHand, ThreadType, At
<1>14. NoticePending'
  <2>1. AllCounted => AllCounted'
    BY <1>1, <1>5, <1>10 DEF AllCounted, Have, list, Obsolete
  <2> QED
    BY <1>0, <1>1, <2>1 DEF NoticePending
<1>15. votedOn' \in [MN -> SUBSET Obj] /\ \A m \in MN : votedOn[m] \subseteq votedOn'[m]
  BY <1>7, <1>8, AddedVotes
<1>16. {o} \in SUBSET Obj /\ {o} \cap Have = {}
  BY <1>9
<1>17. \A x \in {o} : /\ objects'[x] \in Content(VotesFor(x))
                      /\ objects'[x].current = {} /\ objects'[x].waiting = {}
                      /\ Latest(objects'[x]) /\ Funded(objects'[x])
  BY <1>5, <1>10
<1> QED
  BY <1>1, <1>10, <1>11, <1>12, <1>13, <1>14, <1>15, <1>16, <1>17, NewObjectsInv

LEMMA OrphanObjectsInv ==
    ASSUME Inv, NEW t \in Thread, CheckMasternodeOrphanObjects(t)
    PROVE  Inv'
<1>0. /\ BooksType /\ OncePerObject /\ ThreadType /\ HashesInHand /\ TracesType
  BY InvParts
<1>1. /\ At(t, "objects") /\ LockFree /\ GoTo(t, "votes")
      /\ UNCHANGED <<mnodeman, seen, requested, invalid, refs, past, events>>
  BY DEF CheckMasternodeOrphanObjects
<1>2. PICK expired \in SUBSET orphans.objs :
        LET found == {o \in orphans.objs \ expired : Signer[o] \in list \ {NoMN}} \ Have
        IN /\ objects' = [o \in Have \cup found |-> IF o \in Have THEN objects[o] ELSE NewObject]
           /\ orphans' = [orphans EXCEPT !.objs = @ \ (expired \cup found)]
  BY DEF CheckMasternodeOrphanObjects
<1> DEFINE found == {o \in orphans.objs \ expired : Signer[o] \in list \ {NoMN}} \ Have
<1>3. /\ objects' = [o \in Have \cup found |-> IF o \in Have THEN objects[o] ELSE NewObject]
      /\ orphans' = [orphans EXCEPT !.objs = @ \ (expired \cup found)]
  BY <1>2
<1>4. found \in SUBSET Obj /\ found \cap Have = {} /\ found \subseteq orphans.objs
  BY <1>0 DEF BooksType
<1> HIDE DEF found
<1>5. /\ DOMAIN objects' = Have \cup found /\ \A o \in Have : objects'[o] = objects[o]
      /\ \A o \in found : objects'[o] = NewObject
  BY <1>3, <1>4
<1>6. \A o \in found : /\ objects'[o] \in Content(VotesFor(o))
                       /\ objects'[o].current = {} /\ objects'[o].waiting = {}
                       /\ Latest(objects'[o]) /\ Funded(objects'[o])
  <2>1. 0 \in 0..Cardinality(MN)
    BY FiniteFacts
  <2> QED
    BY <1>4, <1>5, <2>1, NewIs
<1>7. BooksType' /\ orphans'.objs = orphans.objs \ (expired \cup found)
  BY <1>0, <1>1, <1>3 DEF BooksType
<1>8. OncePerObject'
  BY <1>0, <1>1, <1>4, <1>5, <1>7 DEF OncePerObject, Have
<1>9. "votes" \in Place
  BY DEF Place
<1>10. /\ ThreadType' /\ thread'[t].at = "votes"
       /\ \A u \in Thread \ {t} : thread'[u] = thread[u]
       /\ \A u \in Thread : thread'[u].hashes = thread[u].hashes /\ thread'[u].vote = thread[u].vote
  BY <1>0, <1>1, <1>9, GoToIs
<1>11. VoteInHand'
  <2>1. "net" \in Thread
    BY DEF Thread
  <2> QED
    BY <1>1, <1>10, <2>1, NoVoteInHand DEF VoteInHand
<1>12. HashesInHand'
  BY <1>0, <1>1, <1>10 DEF HashesInHand, At
<1>13. NoticePending'
  BY <1>10 DEF NoticePending
<1>14. votedOn' \in [MN -> SUBSET Obj] /\ \A m \in MN : votedOn[m] \subseteq votedOn'[m]
  BY <1>0, <1>1 DEF mnodeman, TracesType
<1> QED
  BY <1>1, <1>4, <1>5, <1>6, <1>7, <1>8, <1>10, <1>11, <1>12, <1>13, <1>14, NewObjectsInv
     DEF mnodeman

-----------------------------------------------------------------------------
(* Steps of a thread between its locks.                                    *)

LEMMA ThreadInv ==
    ASSUME Inv, UNCHANGED <<masternodes, indexed, votedOn, objects, seen>>,
           orphans'.objs = orphans.objs,
           past'.erased = past.erased, past'.escaped = past.escaped,
           TracesType', BooksType', ThreadType', PastType',
           VoteInHand', HashesInHand', DepartedVotesFlagged', NoticePending'
    PROVE  Inv'
<1>0. ListType /\ ObjectsType /\ GoodObjects /\ VotesTraced /\ OncePerObject
  BY InvParts
<1>1. ListType' /\ ObjectsType'
  BY <1>0 DEF ListType, ObjectsType, Have, list
<1>2. GoodObjects'
  BY <1>0 DEF GoodObjects, Have, Latest, Funded
<1>3. VotesTraced' /\ OncePerObject'
  BY <1>0 DEF VotesTraced, OncePerObject, Have, list
<1> QED
  BY <1>1, <1>2, <1>3, InvPartsNext

\* Objects, list and flags stay: the notice stays pending while a thread with
\* it does not leave it behind.
LEMMA NoticeKept ==
    ASSUME Inv, UNCHANGED <<masternodes, objects, flags>>, past'.missed = past.missed,
           \A t \in Thread : thread[t].at \in {"objects", "votes"}
              => thread'[t].at \in {"objects", "votes"},
           flags.added /\ thread["net"].at \in {"check", "notify"}
              => thread'["net"].at \in {"check", "notify", "objects", "votes"}
    PROVE  NoticePending'
<1>1. NoticePending /\ "net" \in Thread
  BY InvParts DEF Thread
<1>2. AllCounted => AllCounted'
  BY DEF AllCounted, Have, list, Obsolete
<1> QED
  BY <1>1, <1>2 DEF NoticePending

LEMMA HashesSame ==
    ASSUME Inv, UNCHANGED <<masternodes, objects, dirtyHashes>>, past'.escaped = past.escaped,
           \A t \in Thread : thread'[t].hashes = thread[t].hashes
    PROVE  DepartedVotesFlagged'
<1>1. UNION {thread'[t].hashes : t \in Thread} = UNION {thread[t].hashes : t \in Thread}
  OBVIOUS
<1> QED
  BY <1>1, InvParts DEF DepartedVotesFlagged, Have, list

LEMMA VoteCheckedInv ==
    ASSUME Inv, NEW v \in Vote, VoteChecked(v)
    PROVE  Inv'
<1>0. BooksType /\ TracesType /\ ThreadType /\ HashesInHand /\ PastType
  BY InvParts
<1>1. /\ At("net", "idle") /\ requested' = requested \ {v}
      /\ VoteOf[v].obj \in Have /\ Verdict(objects[VoteOf[v].obj], v) = "ok"
      /\ thread' = [thread EXCEPT !["net"].at = "recording", !["net"].vote = {v}]
      /\ UNCHANGED <<mnodeman, objects, seen, orphans, invalid, refs, past, events>>
  BY DEF VoteChecked, AcceptMessage, Counts
<1>2. /\ thread'["net"].at = "recording" /\ thread'["net"].vote = {v} /\ ThreadType'
      /\ thread'["pool"] = thread["pool"]
      /\ \A t \in Thread : thread'[t].hashes = thread[t].hashes
  BY <1>0, <1>1 DEF ThreadType, Local, Thread, Place
<1>3. BooksType' /\ TracesType' /\ PastType'
  BY <1>0, <1>1 DEF BooksType, TracesType, PastType, mnodeman
<1>4. VoteInHand'
  <2>1. ~ Obsolete(objects[VoteOf[v].obj], v)
    BY <1>1, Verdicts
  <2> QED
    BY <1>1, <1>2, <2>1 DEF VoteInHand, At, Have, Obsolete
<1>5. HashesInHand'
  BY <1>0, <1>1, <1>2 DEF HashesInHand, At, Thread
<1>6. DepartedVotesFlagged'
  BY <1>1, <1>2, HashesSame DEF mnodeman
<1>7. NoticePending'
  BY <1>1, <1>2, NoticeKept DEF mnodeman, At, Thread
<1> QED
  BY <1>1, <1>2, <1>3, <1>4, <1>5, <1>6, <1>7, ThreadInv DEF mnodeman

\* DoMaintenance and the test of the flag.
LEMMA GoOnInv ==
    ASSUME Inv, DoMaintenance \/ \E t \in Thread : Check(t)
    PROVE  Inv'
<1>0. BooksType /\ TracesType /\ ThreadType /\ HashesInHand /\ PastType /\ VoteInHand
  BY InvParts
<1>1. /\ UNCHANGED <<mnodeman, objects, seen, requested, invalid, refs, past, events>>
      /\ BooksType' /\ orphans'.objs = orphans.objs
  BY <1>0 DEF DoMaintenance, Check, BooksType
<1>2. PICK t \in Thread, place \in Place :
        /\ GoTo(t, place) /\ thread[t].at \in {"idle", "check"}
        /\ flags.added /\ t = "net" /\ thread[t].at = "check" => place = "notify"
  BY DEF DoMaintenance, Check, At, Place, Thread
<1>3. /\ ThreadType' /\ thread'[t].at = place
      /\ \A u \in Thread \ {t} : thread'[u] = thread[u]
      /\ \A u \in Thread : thread'[u].hashes = thread[u].hashes /\ thread'[u].vote = thread[u].vote
  BY <1>0, <1>2, GoToIs
<1>4. TracesType' /\ PastType'
  BY <1>0, <1>1 DEF TracesType, PastType, mnodeman
<1>5. VoteInHand'
  <2>1. "net" \in Thread
    BY DEF Thread
  <2>2. CASE t = "net"
    BY <1>0, <1>2, <1>3, <2>1, <2>2 DEF VoteInHand, At
  <2>3. CASE t # "net"
    BY <1>0, <1>1, <1>3, <2>1, <2>3 DEF VoteInHand, At, Have, Obsolete
  <2> QED
    BY <2>2, <2>3
<1>6. HashesInHand'
  BY <1>0, <1>2, <1>3 DEF HashesInHand, At
<1>7. DepartedVotesFlagged'
  BY <1>1, <1>3, HashesSame DEF mnodeman
<1>8. NoticePending'
  <2>1. \A u \in Thread : thread[u].at \in {"objects", "votes"} => thread'[u].at \in {"objects", "votes"}
    BY <1>2, <1>3
  <2>2. flags.added /\ thread["net"].at \in {"check", "notify"}
           => thread'["net"].at \in {"check", "notify", "objects", "votes"}
    BY <1>2, <1>3 DEF Thread
  <2> QED
    BY <1>1, <2>1, <2>2, NoticeKept DEF mnodeman
<1> QED
  BY <1>1, <1>3, <1>4, <1>5, <1>6, <1>7, <1>8, ThreadInv DEF mnodeman

LEMMA NotifyInv ==
    ASSUME Inv, NEW t \in Thread, Notify(t)
    PROVE  Inv'
<1>0. BooksType /\ TracesType /\ ThreadType /\ HashesInHand /\ PastType /\ VoteInHand
  BY InvParts
<1> DEFINE place == IF flags.added THEN "objects" ELSE IF flags.removed THEN "take" ELSE "clear"
<1>1. /\ At(t, "notify")
      /\ thread' = [thread EXCEPT ![t] = [@ EXCEPT !.added = flags.added, !.removed = flags.removed,
                                                   !.at = place]]
      /\ UNCHANGED <<mnodeman, objects, seen, orphans, requested, invalid, refs, past, events>>
  BY DEF Notify
<1>2. place \in Place /\ (flags.added => place = "objects")
  BY DEF Place
<1>3. flags.added \in BOOLEAN /\ flags.removed \in BOOLEAN
  BY <1>0 DEF TracesType
<1> HIDE DEF place
<1>4. /\ ThreadType' /\ thread'[t].at = place
      /\ \A u \in Thread \ {t} : thread'[u] = thread[u]
      /\ \A u \in Thread : thread'[u].hashes = thread[u].hashes /\ thread'[u].vote = thread[u].vote
  BY <1>0, <1>1, <1>2, <1>3 DEF ThreadType, Local
<1>5. BooksType' /\ TracesType' /\ PastType'
  BY <1>0, <1>1 DEF BooksType, TracesType, PastType, mnodeman
<1>6. VoteInHand'
  <2>1. "net" \in Thread
    BY DEF Thread
  <2>2. CASE t = "net"
    BY <1>0, <1>1, <1>4, <2>1, <2>2 DEF VoteInHand, At
  <2>3. CASE t # "net"
    BY <1>0, <1>1, <1>4, <2>1, <2>3 DEF VoteInHand, At, Have, Obsolete
  <2> QED
    BY <2>2, <2>3
<1>7. HashesInHand'
  BY <1>0, <1>1, <1>4 DEF HashesInHand, At
<1>8. DepartedVotesFlagged'
  BY <1>1, <1>4, HashesSame DEF mnodeman
<1>9. NoticePending'
  <2>1. \A u \in Thread : thread[u].at \in {"objects", "votes"} => thread'[u].at \in {"objects", "votes"}
    BY <1>1, <1>4 DEF At
  <2>2. flags.added /\ thread["net"].at \in {"check", "notify"}
           => thread'["net"].at \in {"check", "notify", "objects", "votes"}
    BY <1>2, <1>4 DEF Thread
  <2> QED
    BY <1>1, <2>1, <2>2, NoticeKept DEF mnodeman
<1> QED
  BY <1>1, <1>4, <1>5, <1>6, <1>7, <1>8, <1>9, ThreadInv DEF mnodeman

LEMMA TakeDirtyInv ==
    ASSUME Inv, NEW t \in Thread, TakeDirty(t)
    PROVE  Inv'
<1>0. BooksType /\ TracesType /\ ThreadType /\ HashesInHand /\ PastType /\ VoteInHand
      /\ DepartedVotesFlagged
  BY InvParts
<1>1. /\ At(t, "take") /\ dirtyHashes' = {}
      /\ thread' = [thread EXCEPT ![t].at = "clean", ![t].hashes = dirtyHashes]
      /\ UNCHANGED <<masternodes, indexed, votedOn, flags, objects, seen, orphans, requested,
                     invalid, refs, past, events>>
  BY DEF TakeDirty
<1>2. /\ ThreadType' /\ thread'[t].at = "clean" /\ thread'[t].hashes = dirtyHashes
      /\ \A u \in Thread \ {t} : thread'[u] = thread[u]
      /\ \A u \in Thread : thread'[u].vote = thread[u].vote
  BY <1>0, <1>1 DEF ThreadType, Local, Place, TracesType
<1>3. BooksType' /\ TracesType' /\ PastType'
  BY <1>0, <1>1 DEF BooksType, TracesType, PastType
<1>4. VoteInHand'
  <2>1. "net" \in Thread
    BY DEF Thread
  <2>2. CASE t = "net"
    BY <1>0, <1>1, <1>2, <2>1, <2>2 DEF VoteInHand, At
  <2>3. CASE t # "net"
    BY <1>0, <1>1, <1>2, <2>1, <2>3 DEF VoteInHand, At, Have, Obsolete
  <2> QED
    BY <2>2, <2>3
<1>5. HashesInHand'
  BY <1>0, <1>2 DEF HashesInHand, At
<1>6. DepartedVotesFlagged'
  <2>1. thread[t].hashes = {}
    BY <1>0, <1>1 DEF HashesInHand, At
  <2>2. dirtyHashes \cup UNION {thread[u].hashes : u \in Thread}
          \subseteq UNION {thread'[u].hashes : u \in Thread}
    BY <1>2, <2>1
  <2> QED
    BY <1>0, <1>1, <2>2 DEF DepartedVotesFlagged, Have, list
<1>7. NoticePending'
  <2>1. \A u \in Thread : thread[u].at \in {"objects", "votes"} => thread'[u].at \in {"objects", "votes"}
    BY <1>1, <1>2 DEF At
  <2>2. thread["net"].at \in {"check", "notify"} => thread'["net"].at \in {"check", "notify"}
    BY <1>1, <1>2 DEF Thread, At
  <2> QED
    BY <1>1, <2>1, <2>2, NoticeKept
<1> QED
  BY <1>1, <1>2, <1>3, <1>4, <1>5, <1>6, <1>7, ThreadInv

LEMMA ClearInv ==
    ASSUME Inv, NEW t \in Thread, Clear(t)
    PROVE  Inv'
<1>0. BooksType /\ TracesType /\ ThreadType /\ HashesInHand /\ PastType /\ VoteInHand
      /\ NoticePending
  BY InvParts
<1> DEFINE other == \E u \in Thread \ {t} : thread[u].at \in {"check", "notify"}
<1>1. /\ At(t, "clear") /\ flags' = [added |-> FALSE, removed |-> FALSE]
      /\ past' = [past EXCEPT !.missed = @ \/ other]
      /\ thread' = [thread EXCEPT ![t] = Idle]
      /\ UNCHANGED <<masternodes, indexed, votedOn, dirtyHashes, objects, seen, orphans,
                     requested, invalid, refs, events>>
  BY DEF Clear
<1>2. Idle \in Local /\ Idle.hashes = {} /\ Idle.vote = {}
  BY DEF Idle, Local, Place
<1>3. /\ ThreadType' /\ thread'[t] = Idle /\ \A u \in Thread \ {t} : thread'[u] = thread[u]
  BY <1>0, <1>1, <1>2 DEF ThreadType
<1>4. /\ past'.erased = past.erased /\ past'.escaped = past.escaped
      /\ past'.missed = (past.missed \/ other) /\ PastType'
  <2>1. past.missed \in BOOLEAN /\ (past.missed \/ other) \in BOOLEAN
    BY <1>0 DEF PastType
  <2> HIDE DEF other
  <2> QED
    BY <1>0, <1>1, <2>1 DEF PastType
<1>5. BooksType' /\ TracesType'
  BY <1>0, <1>1 DEF BooksType, TracesType
<1>6. VoteInHand'
  <2>1. "net" \in Thread
    BY DEF Thread
  <2>2. CASE t = "net"
    BY <1>2, <1>3, <2>1, <2>2 DEF VoteInHand
  <2>3. CASE t # "net"
    BY <1>0, <1>1, <1>3, <2>1, <2>3 DEF VoteInHand, At, Have, Obsolete
  <2> QED
    BY <2>2, <2>3
<1>7. HashesInHand'
  BY <1>0, <1>2, <1>3 DEF HashesInHand, At
<1>8. DepartedVotesFlagged'
  <2>1. thread[t].hashes = {}
    BY <1>0, <1>1 DEF HashesInHand, At
  <2>2. \A u \in Thread : thread'[u].hashes = thread[u].hashes
    BY <1>2, <1>3, <2>1
  <2> QED
    BY <1>1, <1>4, <2>2, HashesSame
<1>9. NoticePending'
  <2>1. CASE past.missed
    BY <1>4, <2>1 DEF NoticePending
  <2>2. CASE \E u \in Thread : thread[u].at \in {"objects", "votes"}
    <3>1. PICK u \in Thread : thread[u].at \in {"objects", "votes"}
      BY <2>2
    <3>2. u # t
      BY <1>1, <3>1 DEF At
    <3> QED
      BY <1>3, <3>1, <3>2 DEF NoticePending
  <2>3. CASE flags.added /\ thread["net"].at \in {"check", "notify"}
    <3>1. "net" \in Thread \ {t}
      BY <1>1, <2>3 DEF At, Thread
    <3> QED
      BY <1>4, <2>3, <3>1 DEF NoticePending
  <2>4. CASE AllCounted
    BY <1>1, <2>4 DEF NoticePending, AllCounted, Have, list, Obsolete
  <2> QED
    BY <1>0, <2>1, <2>2, <2>3, <2>4 DEF NoticePending
<1> QED
  BY <1>1, <1>3, <1>4, <1>5, <1>6, <1>7, <1>8, <1>9, ThreadInv

-----------------------------------------------------------------------------
(* Votes on an object that is held.                                        *)

LEMMA SameObjectsInv ==
    ASSUME Inv, UNCHANGED <<masternodes, indexed, seen>>, DOMAIN objects' = Have,
           \A o \in Have : /\ objects'[o] \in Content(VotesFor(o))
                           /\ Latest(objects'[o]) /\ Funded(objects'[o]),
           orphans'.objs = orphans.objs, past'.erased = past.erased,
           TracesType', BooksType', ThreadType', PastType',
           VoteInHand', HashesInHand', VotesTraced', DepartedVotesFlagged', NoticePending'
    PROVE  Inv'
<1>0. ListType /\ ObjectsType /\ OncePerObject
  BY InvParts
<1>1. ListType' /\ ObjectsType' /\ GoodObjects'
  BY <1>0 DEF ListType, ObjectsType, GoodObjects, Have, list, Latest, Funded
<1>2. OncePerObject'
  BY <1>0 DEF OncePerObject, Have
<1> QED
  BY <1>1, <1>2, InvPartsNext

LEMMA HeldObject ==
    ASSUME Inv, NEW o \in Have
    PROVE  /\ o \in Obj /\ objects[o] \in Content(VotesFor(o)) /\ VotesFor(o) \in SUBSET Vote
           /\ Latest(objects[o]) /\ Funded(objects[o])
BY InvParts DEF ObjectsType, GoodObjects, VotesFor

LEMMA VoteWithoutMasternodeInv ==
    ASSUME Inv, NEW v \in Vote, VoteWithoutMasternode(v)
    PROVE  Inv'
<1> DEFINE o == VoteOf[v].obj
<1>0. /\ BooksType /\ TracesType /\ ThreadType /\ PastType /\ HashesInHand /\ ListType
      /\ VotesTraced /\ DepartedVotesFlagged /\ NoticePending
  BY InvParts
<1>1. /\ At("net", "idle") /\ requested' = requested \ {v} /\ o \in Have
      /\ Verdict(objects[o], v) = "unknown"
      /\ objects' = [objects EXCEPT ![o].waiting = @ \cup {v}]
      /\ UNCHANGED <<mnodeman, seen, orphans, invalid, refs, thread, past, events>>
  BY DEF VoteWithoutMasternode, AcceptMessage, Counts
<1>2. v \in VotesFor(o)
  BY DEF VotesFor
<1> HIDE DEF o
<1>3. /\ DOMAIN objects' = Have
      /\ \A x \in Have \ {o} : objects'[x] = objects[x]
      /\ objects'[o] = [objects[o] EXCEPT !.waiting = @ \cup {v}]
  BY <1>1 DEF Have
<1>4. /\ objects'[o] \in Content(VotesFor(o))
      /\ objects'[o].current = objects[o].current /\ objects'[o].file = objects[o].file
      /\ objects'[o].dirty = objects[o].dirty /\ objects'[o].funding = objects[o].funding
      /\ objects'[o].waiting = objects[o].waiting \cup {v}
  BY <1>1, <1>2, <1>3, HeldObject DEF Content
<1>5. \A x \in Have : /\ objects'[x] \in Content(VotesFor(x))
                      /\ objects'[x].current = objects[x].current
                      /\ Latest(objects'[x]) /\ Funded(objects'[x])
  <2>1. Latest(objects'[o]) /\ Funded(objects'[o])
    <3>1. Latest(objects[o]) /\ Funded(objects[o])
      BY <1>1, HeldObject
    <3>2. Funded(objects'[o])
      BY <1>4, <3>1, FundedSame
    <3> QED
      BY <1>4, <3>1, <3>2 DEF Latest
  <2> QED
    BY <1>3, <1>4, <2>1, HeldObject
<1>6. BooksType' /\ TracesType' /\ ThreadType' /\ PastType' /\ HashesInHand' /\ list' = list
  BY <1>0, <1>1 DEF BooksType, TracesType, ThreadType, PastType, HashesInHand, At, mnodeman, list
<1>7. VoteInHand'
  BY <1>1, NoVoteInHand DEF VoteInHand, At, LockFree
<1>8. VotesTraced' /\ DepartedVotesFlagged'
  <2>1. Have' = Have
    BY <1>3 DEF Have
  <2> QED
    BY <1>0, <1>1, <1>5, <1>6, <2>1 DEF VotesTraced, DepartedVotesFlagged, MnsOf, mnodeman
<1>9. NoticePending'
  <2>1. AllCounted => AllCounted'
    <3> SUFFICES ASSUME AllCounted, NEW x \in Have', NEW w \in objects'[x].waiting,
                        VoteOf[w].mn \in list
                 PROVE  w \in Forged \/ Obsolete(objects'[x], w)
      BY <1>6 DEF AllCounted, Obsolete
    <3>1. x \in Have
      BY <1>3 DEF Have
    <3>2. v # w
      BY <1>0, <1>1, Verdicts DEF ListType
    <3>3. w \in objects[x].waiting
      BY <1>3, <1>4, <3>1, <3>2
    <3>4. w \in Forged \/ Obsolete(objects[x], w)
      BY <3>1, <3>3 DEF AllCounted
    <3> QED
      BY <1>5, <3>1, <3>4 DEF Obsolete
  <2> QED
    BY <1>0, <1>1, <2>1 DEF NoticePending, mnodeman
<1> QED
  BY <1>1, <1>3, <1>5, <1>6, <1>7, <1>8, <1>9, SameObjectsInv DEF mnodeman

LEMMA VoteRecordedInv ==
    ASSUME Inv, NEW v \in Vote, VoteRecorded(v)
    PROVE  Inv'
<1> DEFINE o == VoteOf[v].obj
           m == VoteOf[v].mn
<1>0. /\ BooksType /\ TracesType /\ ThreadType /\ PastType /\ HashesInHand /\ ListType
      /\ VotesTraced /\ DepartedVotesFlagged /\ NoticePending /\ VoteInHand
  BY InvParts
<1>1. /\ At("net", "recording") /\ v \in thread["net"].vote
      /\ objects' = [objects EXCEPT ![o] = Recorded(@, v)]
      /\ votedOn' = AddGovernanceVotes({v}) /\ refs' = refs \cup {v}
      /\ past' = [past EXCEPT !.escaped = @ \cup (MnsOf({v}) \ list)]
      /\ thread' = [thread EXCEPT !["net"] = Idle]
      /\ UNCHANGED <<masternodes, indexed, dirtyHashes, flags, seen, orphans, requested, invalid, events>>
  BY DEF VoteRecorded
<1>2. v \in VotesFor(o) /\ MnsOf({v}) = {m} /\ m \in MN /\ o \in Obj
  BY VoteFacts DEF VotesFor, MnsOf
<1>3. o \in Have /\ ~ Obsolete(objects[o], v)
  BY <1>0, <1>1 DEF VoteInHand
<1>4. /\ votedOn' \in [MN -> SUBSET Obj] /\ \A n \in MN : votedOn[n] \subseteq votedOn'[n]
      /\ m \in list => o \in votedOn'[m]
  BY <1>1, AddedVotes
<1> HIDE DEF o, m
<1>5. /\ DOMAIN objects' = Have
      /\ \A x \in Have \ {o} : objects'[x] = objects[x]
      /\ objects'[o] = Recorded(objects[o], v)
  BY <1>1, <1>3 DEF Have
<1>6. /\ objects'[o] \in Content(VotesFor(o)) /\ IsRecorded(objects[o], objects'[o], v)
      /\ objects'[o].waiting = objects[o].waiting
  BY <1>2, <1>3, <1>5, HeldObject, RecordedIs
<1>7. Latest(objects'[o]) /\ Funded(objects'[o])
  <2>1. Latest(objects'[o])
    BY <1>2, <1>3, <1>6, HeldObject, RecordedLatest
  <2> QED
    BY <1>6, <2>1 DEF Funded, IsRecorded
<1>8. \A x \in Have : /\ objects'[x] \in Content(VotesFor(x))
                      /\ Latest(objects'[x]) /\ Funded(objects'[x])
  BY <1>5, <1>6, <1>7, HeldObject
<1>9. /\ past' \in [erased : SUBSET Obj, escaped : SUBSET MN, missed : BOOLEAN]
      /\ past'.erased = past.erased /\ past'.missed = past.missed
      /\ past'.escaped = past.escaped \cup ({m} \ list)
  BY <1>0, <1>1, <1>2 DEF PastType
<1>10. Idle \in Local /\ Idle.hashes = {} /\ Idle.vote = {} /\ Idle.at = "idle"
  BY DEF Idle, Local, Place
<1>11. /\ ThreadType' /\ thread'["net"] = Idle /\ thread'["pool"] = thread["pool"]
  BY <1>0, <1>1, <1>10 DEF ThreadType, Thread
<1>12. BooksType' /\ TracesType' /\ PastType' /\ list' = list
  BY <1>0, <1>1, <1>4, <1>9 DEF BooksType, TracesType, PastType, list
<1>13. VoteInHand' /\ HashesInHand'
  BY <1>0, <1>10, <1>11 DEF VoteInHand, HashesInHand, At, Thread
<1>14. ASSUME NEW x \in Have', NEW n \in MnsOf(objects'[x].current)
       PROVE  n \in MN /\ x \in Have /\ (n \in MnsOf(objects[x].current) \/ (n = m /\ x = o))
  <2>1. PICK w \in objects'[x].current : n = VoteOf[w].mn
    BY <1>14 DEF MnsOf
  <2>2. x \in Have
    BY <1>5 DEF Have
  <2>3. w \in objects[x].current \/ (x = o /\ w = v)
    BY <1>5, <1>6, <2>1, <2>2 DEF IsRecorded
  <2>4. w \in Vote
    BY <2>2, <2>3, HeldObject DEF Content
  <2> QED
    BY <2>1, <2>2, <2>3, <2>4, VoteFacts DEF MnsOf, m
<1>15. VotesTraced'
  <2> SUFFICES ASSUME NEW x \in Have', NEW n \in (MnsOf(objects'[x].current) \cap list) \ past'.escaped
               PROVE  x \in votedOn'[n]
    BY <1>12 DEF VotesTraced, MnsOf
  <2>1. n \in MN /\ x \in Have /\ (n \in MnsOf(objects[x].current) \/ (n = m /\ x = o))
    BY <1>14
  <2>2. n \notin past.escaped
    BY <1>9
  <2> QED
    BY <1>0, <1>4, <2>1, <2>2 DEF VotesTraced
<1>16. DepartedVotesFlagged'
  <2> SUFFICES ASSUME NEW x \in Have', NEW n \in (MnsOf(objects'[x].current) \ list) \ past'.escaped
               PROVE  x \in dirtyHashes \cup UNION {thread'[t].hashes : t \in Thread}
    BY <1>1, <1>12 DEF DepartedVotesFlagged, MnsOf
  <2>1. x \in Have /\ (n \in MnsOf(objects[x].current) \/ n = m)
    BY <1>14
  <2>2. n # m /\ n \notin past.escaped
    BY <1>9
  <2>3. x \in dirtyHashes \cup UNION {thread[t].hashes : t \in Thread}
    BY <1>0, <2>1, <2>2 DEF DepartedVotesFlagged
  <2>4. thread["net"].hashes = {}
    BY <1>0, <1>1 DEF HashesInHand, At, Thread
  <2> QED
    BY <1>10, <1>11, <2>3, <2>4 DEF Thread
<1>17. NoticePending'
  <2>1. AllCounted => AllCounted'
    <3> SUFFICES ASSUME AllCounted, NEW x \in Have', NEW w \in objects'[x].waiting,
                        VoteOf[w].mn \in list
                 PROVE  w \in Forged \/ Obsolete(objects'[x], w)
      BY <1>12 DEF AllCounted, Obsolete
    <3>1. x \in Have
      BY <1>5 DEF Have
    <3>2. w \in objects[x].waiting
      BY <1>5, <1>6, <3>1
    <3>3. w \in Forged \/ Obsolete(objects[x], w)
      BY <3>1, <3>2 DEF AllCounted
    <3>4. CASE x = o /\ Obsolete(objects[x], w)
      <4>1. w \in Vote
        BY <3>1, <3>2, HeldObject DEF Content
      <4> QED
        BY <1>2, <1>3, <1>6, <3>4, <4>1, HeldObject, RecordedObsolete
    <3> QED
      BY <1>5, <3>1, <3>3, <3>4
  <2> QED
    BY <1>0, <1>1, <1>9, <1>11, <2>1 DEF NoticePending, Thread, At
<1> QED
  BY <1>1, <1>5, <1>8, <1>9, <1>11, <1>12, <1>13, <1>15, <1>16, <1>17, SameObjectsInv

-----------------------------------------------------------------------------
(* Masternodes come and go.                                                *)

\* The list changes, the objects do not.
LEMMA ListInv ==
    ASSUME Inv, UNCHANGED <<objects, seen, orphans, requested, invalid, refs>>,
           past'.erased = past.erased,
           ListType', TracesType', ThreadType', PastType',
           VoteInHand', HashesInHand', VotesTraced', DepartedVotesFlagged', NoticePending'
    PROVE  Inv'
<1>0. ObjectsType /\ GoodObjects /\ BooksType /\ OncePerObject
  BY InvParts
<1>1. ObjectsType' /\ BooksType' /\ OncePerObject'
  BY <1>0 DEF ObjectsType, BooksType, OncePerObject, Have
<1>2. GoodObjects'
  BY <1>0 DEF GoodObjects, Have, Latest, Funded
<1> QED
  BY <1>1, <1>2, InvPartsNext

LEMMA EventsBound ==
    ASSUME Inv, events < MaxEvents, events' = events + 1
    PROVE  events' \in 0..MaxEvents
BY InvParts, FiniteFacts DEF PastType

LEMMA AddInv ==
    ASSUME Inv, NEW m \in MN, Add(m)
    PROVE  Inv'
<1>0. /\ ListType /\ TracesType /\ ThreadType /\ PastType /\ HashesInHand
      /\ VotesTraced /\ DepartedVotesFlagged
  BY InvParts
<1>1. /\ At("net", "idle") /\ m \notin list /\ events < MaxEvents /\ events' = events + 1
      /\ masternodes' = Append(masternodes, m) /\ indexed' = indexed \cup {m}
      /\ flags' = [flags EXCEPT !.added = TRUE] /\ GoTo("net", "check")
      /\ UNCHANGED <<dirtyHashes, objects, seen, orphans, requested, invalid, refs>>
  BY DEF Add
<1>2. PICK copied \in {{}, list} :
         /\ votedOn' = [n \in MN |-> IF n \in copied \cup {m} THEN {} ELSE votedOn[n]]
         /\ past' = [past EXCEPT !.escaped = @ \cup Counted(copied \cup {m})]
  BY DEF Add
<1>3. ListType' /\ list' = list \cup {m}
  <2>1. /\ Append(masternodes, m) \in Seq(MN) /\ IsInjective(Append(masternodes, m))
        /\ ToSet(Append(masternodes, m)) = ToSet(masternodes) \cup {m}
    BY <1>0, <1>1, AppendNew DEF ListType, list
  <2>2. list' = list \cup {m}
    BY <1>1, <2>1 DEF list
  <2> QED
    BY <1>0, <1>1, <2>1, <2>2 DEF ListType
<1>4. copied \cup {m} \subseteq MN
  BY <1>0 DEF ListType
<1>5. TracesType' /\ flags'.added = TRUE
  BY <1>0, <1>1, <1>2 DEF TracesType
<1>6. /\ PastType' /\ past'.erased = past.erased
      /\ past'.escaped = past.escaped \cup Counted(copied \cup {m})
  <2>1. Counted(copied \cup {m}) \subseteq MN
    BY <1>4 DEF Counted
  <2>2. events' \in 0..MaxEvents
    BY <1>1, EventsBound
  <2> QED
    BY <1>0, <1>2, <2>1, <2>2 DEF PastType
<1>7. "check" \in Place /\ "net" \in Thread
  BY DEF Place, Thread
<1>8. /\ ThreadType' /\ thread'["net"].at = "check"
      /\ \A u \in Thread \ {"net"} : thread'[u] = thread[u]
      /\ \A u \in Thread : thread'[u].hashes = thread[u].hashes /\ thread'[u].vote = thread[u].vote
  BY <1>0, <1>1, <1>7, GoToIs
<1>9. VoteInHand'
  <2>1. thread["net"].vote = {}
    BY <1>1, NoVoteInHand DEF LockFree, At
  <2> QED
    BY <1>7, <1>8, <2>1 DEF VoteInHand
<1>10. HashesInHand'
  BY <1>0, <1>1, <1>7, <1>8 DEF HashesInHand, At
<1>11. NoticePending'
  BY <1>5, <1>8 DEF NoticePending
<1>12. VotesTraced'
  <2> SUFFICES ASSUME NEW o \in Have, NEW n \in (MnsOf(objects[o].current) \cap list') \ past'.escaped
               PROVE  o \in votedOn'[n]
    BY <1>1 DEF VotesTraced, MnsOf, Have
  <2>1. n \notin copied \cup {m}
    BY <1>6 DEF Counted
  <2>2. n \in list /\ n \in MN /\ n \notin past.escaped
    BY <1>0, <1>3, <1>6, <2>1 DEF ListType
  <2>3. o \in votedOn[n]
    BY <1>0, <2>2 DEF VotesTraced
  <2> QED
    BY <1>2, <2>1, <2>2, <2>3
<1>13. DepartedVotesFlagged'
  <2> SUFFICES ASSUME NEW o \in Have, NEW n \in (MnsOf(objects[o].current) \ list') \ past'.escaped
               PROVE  o \in dirtyHashes \cup UNION {thread'[t].hashes : t \in Thread}
    BY <1>1 DEF DepartedVotesFlagged, MnsOf, Have
  <2>1. o \in dirtyHashes \cup UNION {thread[t].hashes : t \in Thread}
    BY <1>0, <1>3, <1>6 DEF DepartedVotesFlagged
  <2> QED
    BY <1>8, <2>1
<1> QED
  BY <1>1, <1>3, <1>5, <1>6, <1>8, <1>9, <1>10, <1>11, <1>12, <1>13, ListInv

\* There is a first masternode that leaves.
IsFirst(i, gone) ==
    masternodes[i] \in gone /\ \A j \in 1..(i - 1) : masternodes[j] \notin gone

LEMMA FirstLeaves ==
    ASSUME masternodes \in Seq(MN), NEW gone \in SUBSET list, gone # {}
    PROVE  \E i \in DOMAIN masternodes : IsFirst(i, gone)
<1> SUFFICES ASSUME \A i \in DOMAIN masternodes : ~ IsFirst(i, gone) PROVE FALSE
  OBVIOUS
<1> DEFINE n == Len(masternodes)
           Free(k) == \A j \in 1..k : masternodes[j] \notin gone
           G == {k \in 0..n : Free(k)}
<1>1. n \in Nat /\ DOMAIN masternodes = 1..n
  OBVIOUS
<1> HIDE DEF n
<1>2. 0 \in G
  BY <1>1
<1>3. \A k \in G : k < n => k + 1 \in G
  <2> SUFFICES ASSUME NEW k \in 0..n, Free(k), k < n PROVE Free(k + 1)
    <3>1. \A k \in 0..n : k < n => k + 1 \in 0..n
      BY <1>1
    <3> HIDE DEF Free
    <3> QED
      BY <3>1
  <2>1. k + 1 \in 1..n /\ (k + 1) - 1 = k /\ 1..(k + 1) = (1..k) \cup {k + 1}
    BY <1>1
  <2>2. masternodes[k + 1] \notin gone
    BY <1>1, <2>1 DEF IsFirst
  <2> QED
    BY <2>1, <2>2
<1>4. G = 0..n
  <2>1. G \in SUBSET (0..n)
    OBVIOUS
  <2> HIDE DEF G
  <2> QED
    BY <1>1, <1>2, <1>3, <2>1, IntervalInduction
<1>5. \A j \in 1..n : masternodes[j] \notin gone
  BY <1>1, <1>4
<1> QED
  BY <1>1, <1>5 DEF list, ToSet

LEMMA CheckAndRemoveInv ==
    ASSUME Inv, NEW gone \in SUBSET (list \cap Leaving), CheckAndRemove(gone)
    PROVE  Inv'
<1>0. /\ ListType /\ TracesType /\ ThreadType /\ PastType /\ HashesInHand
      /\ VotesTraced /\ DepartedVotesFlagged /\ VoteInHand /\ NoticePending
  BY InvParts
<1> DEFINE first == FirstOf(gone)
           copied == {masternodes[i] : i \in (first + 1)..Len(masternodes)}
           leaver == masternodes[first]
<1>1. /\ At("pool", "idle") /\ gone # {} /\ events < MaxEvents /\ events' = events + 1
      /\ masternodes' = Remaining(gone)
      /\ dirtyHashes' = dirtyHashes \cup votedOn[leaver]
      /\ votedOn' = [m \in MN |-> IF m \in copied \cup gone THEN {} ELSE votedOn[m]]
      /\ past' = [past EXCEPT !.escaped = @ \cup Counted(copied)]
      /\ flags' = [flags EXCEPT !.removed = TRUE] /\ GoTo("pool", "check")
      /\ UNCHANGED <<indexed, objects, seen, orphans, requested, invalid, refs>>
  BY DEF CheckAndRemove, FlagGovernanceItemsAsDirty
<1>2. first \in DOMAIN masternodes /\ IsFirst(first, gone)
  <2>1. \E i \in DOMAIN masternodes : IsFirst(i, gone)
    BY <1>0, <1>1, FirstLeaves DEF ListType
  <2> QED
    BY <2>1 DEF FirstOf, IsFirst
<1>3. copied \subseteq MN /\ leaver \in MN /\ leaver \in gone /\ leaver \in list
  <2>1. first \in 1..Len(masternodes) /\ Len(masternodes) \in Nat
    BY <1>0, <1>2 DEF ListType
  <2> HIDE DEF first
  <2>2. \A i \in (first + 1)..Len(masternodes) : masternodes[i] \in MN
    BY <1>0, <2>1 DEF ListType
  <2>3. leaver \in gone
    BY <1>2 DEF IsFirst
  <2> QED
    BY <1>0, <2>2, <2>3 DEF ListType
<1>4. \A m \in gone : m = leaver \/ m \in copied
  <2>1. first \in 1..Len(masternodes) /\ Len(masternodes) \in Nat
    BY <1>0, <1>2 DEF ListType
  <2> HIDE DEF first
  <2> SUFFICES ASSUME NEW m \in gone PROVE m = leaver \/ m \in copied
    OBVIOUS
  <2>2. PICK i \in 1..Len(masternodes) : m = masternodes[i]
    BY <1>0 DEF ListType, list, ToSet
  <2>3. ~ (i < first)
    <3> SUFFICES ASSUME i < first PROVE FALSE
      OBVIOUS
    <3>1. i \in 1..(first - 1)
      BY <2>1, <2>2
    <3> QED
      BY <1>2, <2>2, <3>1 DEF IsFirst
  <2>4. i = first \/ i \in (first + 1)..Len(masternodes)
    BY <2>1, <2>3
  <2> QED
    BY <2>2, <2>4
<1> HIDE DEF first, copied, leaver
<1>5. ListType' /\ list' = list \ gone
  <2>1. /\ Remaining(gone) \in Seq(MN) /\ IsInjective(Remaining(gone))
        /\ ToSet(Remaining(gone)) = list \ gone
    BY <1>0, RemainingIs DEF ListType
  <2>2. list' = list \ gone
    BY <1>1, <2>1 DEF list
  <2> QED
    BY <1>0, <1>1, <2>1, <2>2 DEF ListType
<1>6. TracesType' /\ flags'.added = flags.added
  BY <1>0, <1>1, <1>3 DEF TracesType
<1>7. /\ PastType' /\ past'.erased = past.erased /\ past'.missed = past.missed
      /\ past'.escaped = past.escaped \cup Counted(copied)
  <2>1. Counted(copied) \subseteq MN
    BY <1>3 DEF Counted
  <2>2. events' \in 0..MaxEvents
    BY <1>1, EventsBound
  <2> QED
    BY <1>0, <1>1, <2>1, <2>2 DEF PastType
<1>8. "check" \in Place /\ "net" \in Thread /\ "pool" \in Thread /\ Thread = {"net", "pool"}
  BY DEF Place, Thread
<1>9. /\ ThreadType' /\ thread'["pool"].at = "check" /\ thread'["net"] = thread["net"]
      /\ \A u \in Thread : thread'[u].hashes = thread[u].hashes /\ thread'[u].vote = thread[u].vote
  <2>1. "net" \in Thread \ {"pool"}
    BY <1>8
  <2> QED
    BY <1>0, <1>1, <1>8, <2>1, GoToIs
<1>10. VoteInHand'
  BY <1>0, <1>1, <1>9 DEF VoteInHand, At, Have, Obsolete
<1>11. HashesInHand'
  BY <1>0, <1>1, <1>8, <1>9 DEF HashesInHand, At
<1>12. NoticePending'
  <2>1. AllCounted => AllCounted'
    BY <1>1, <1>5 DEF AllCounted, Have, Obsolete
  <2>2. thread["pool"].at = "idle"
    BY <1>1 DEF At
  <2> QED
    BY <1>0, <1>6, <1>7, <1>8, <1>9, <2>1, <2>2 DEF NoticePending
<1>13. VotesTraced'
  <2> SUFFICES ASSUME NEW o \in Have, NEW n \in (MnsOf(objects[o].current) \cap list') \ past'.escaped
               PROVE  o \in votedOn'[n]
    BY <1>1 DEF VotesTraced, MnsOf, Have
  <2>1. n \notin copied \cup gone
    BY <1>5, <1>7 DEF Counted
  <2>2. n \in list /\ n \in MN /\ n \notin past.escaped
    BY <1>0, <1>5, <1>7 DEF ListType
  <2>3. o \in votedOn[n]
    BY <1>0, <2>2 DEF VotesTraced
  <2> QED
    BY <1>1, <2>1, <2>2, <2>3
<1>14. DepartedVotesFlagged'
  <2> SUFFICES ASSUME NEW o \in Have, NEW n \in (MnsOf(objects[o].current) \ list') \ past'.escaped
               PROVE  o \in dirtyHashes' \cup UNION {thread'[t].hashes : t \in Thread}
    BY <1>1 DEF DepartedVotesFlagged, MnsOf, Have
  <2>1. n \notin past.escaped /\ n \notin copied
    BY <1>7 DEF Counted
  <2>2. CASE n \notin list
    <3>1. o \in dirtyHashes \cup UNION {thread[t].hashes : t \in Thread}
      BY <1>0, <2>1, <2>2 DEF DepartedVotesFlagged
    <3> QED
      BY <1>1, <1>9, <3>1
  <2>3. CASE n \in list
    <3>1. n = leaver
      BY <1>4, <1>5, <2>1, <2>3
    <3>2. o \in votedOn[leaver]
      BY <1>0, <2>1, <2>3, <3>1 DEF VotesTraced
    <3> QED
      BY <1>1, <3>2
  <2> QED
    BY <2>2, <2>3
<1> QED
  BY <1>1, <1>5, <1>6, <1>7, <1>9, <1>10, <1>11, <1>12, <1>13, <1>14, ListInv

-----------------------------------------------------------------------------
(* The loops over all objects.                                             *)

LEMMA OrphanVotesInv ==
    ASSUME Inv, NEW t \in Thread, CheckMasternodeOrphanVotes(t)
    PROVE  Inv'
<1>0. /\ BooksType /\ TracesType /\ ThreadType /\ PastType /\ HashesInHand /\ ListType
      /\ VotesTraced /\ DepartedVotesFlagged
  BY InvParts
<1> DEFINE waiting == UNION {objects[o].waiting : o \in Have}
           r(o, order, expired) == CheckWaitingVotes(objects[o], order, expired)
           place == IF thread[t].removed THEN "take" ELSE "clear"
<1>1. /\ At(t, "votes") /\ LockFree /\ past' = [past EXCEPT !.missed = FALSE]
      /\ GoTo(t, place)
      /\ UNCHANGED <<masternodes, indexed, dirtyHashes, flags, seen, orphans, requested, refs, events>>
  BY DEF CheckMasternodeOrphanVotes
<1>2. PICK expired \in SUBSET waiting, order \in SetToSeqs(waiting) :
        /\ objects' = [o \in Have |-> r(o, order, expired).obj]
        /\ invalid' = invalid \cup UNION {r(o, order, expired).bad : o \in Have}
        /\ votedOn' = AddGovernanceVotes(UNION {r(o, order, expired).ok : o \in Have})
  <2> HIDE DEF waiting, place
  <2>1. \E expired \in SUBSET waiting, order \in SetToSeqs(waiting) :
          LET checked == [o \in Have |-> CheckWaitingVotes(objects[o], order, expired)]
          IN /\ objects' = [o \in Have |-> checked[o].obj]
             /\ invalid' = invalid \cup UNION {checked[o].bad : o \in Have}
             /\ votedOn' = AddGovernanceVotes(UNION {checked[o].ok : o \in Have})
    BY DEF CheckMasternodeOrphanVotes, waiting
  <2>2. PICK expired \in SUBSET waiting, order \in SetToSeqs(waiting) :
          LET checked == [o \in Have |-> CheckWaitingVotes(objects[o], order, expired)]
          IN /\ objects' = [o \in Have |-> checked[o].obj]
             /\ invalid' = invalid \cup UNION {checked[o].bad : o \in Have}
             /\ votedOn' = AddGovernanceVotes(UNION {checked[o].ok : o \in Have})
    BY <2>1
  <2> DEFINE checked == [o \in Have |-> CheckWaitingVotes(objects[o], order, expired)]
  <2>3. \A o \in Have : checked[o] = r(o, order, expired)
    OBVIOUS
  <2>4. /\ objects' = [o \in Have |-> checked[o].obj]
        /\ invalid' = invalid \cup UNION {checked[o].bad : o \in Have}
        /\ votedOn' = AddGovernanceVotes(UNION {checked[o].ok : o \in Have})
    BY <2>2
  <2> HIDE DEF checked, r
  <2>5. /\ [o \in Have |-> checked[o].obj] = [o \in Have |-> r(o, order, expired).obj]
        /\ {checked[o].bad : o \in Have} = {r(o, order, expired).bad : o \in Have}
        /\ {checked[o].ok : o \in Have} = {r(o, order, expired).ok : o \in Have}
    BY <2>3
  <2> QED
    BY <2>4, <2>5
<1> DEFINE s(o) == r(o, order, expired)
<1>3. waiting \in SUBSET Vote
  <2>1. \A o \in Have : objects[o].waiting \subseteq Vote
    BY HeldObject DEF Content
  <2> QED
    BY <2>1
<1>4. order \in Seq(Vote) /\ {order[i] : i \in DOMAIN order} = waiting
  BY <1>3, Orders
<1>5. \A o \in Have : objects[o].waiting \subseteq waiting
  OBVIOUS
<1> HIDE DEF waiting
<1>6. \A o \in Have : s(o) \in Accs(VotesFor(o)) /\ TakenUp(objects[o], s(o), waiting)
  <2> TAKE o \in Have
  <2>1. /\ objects[o] \in Content(VotesFor(o)) /\ VotesFor(o) \in SUBSET Vote
        /\ Latest(objects[o]) /\ Funded(objects[o]) /\ list \subseteq indexed
    BY <1>0, HeldObject DEF ListType
  <2> QED
    BY <1>4, <2>1, WaitingResult
<1>7. /\ objects' = [o \in Have |-> s(o).obj]
      /\ invalid' = invalid \cup UNION {s(o).bad : o \in Have}
      /\ votedOn' = AddGovernanceVotes(UNION {s(o).ok : o \in Have})
  BY <1>2
<1> HIDE DEF r, s
<1>8. /\ DOMAIN objects' = Have /\ \A o \in Have : objects'[o] = s(o).obj
      /\ Have' = Have
  BY <1>7 DEF Have
<1>9. \A o \in Have : /\ objects'[o] \in Content(VotesFor(o)) /\ s(o).ok \subseteq Vote
                      /\ s(o).bad \subseteq Vote
                      /\ Latest(objects'[o]) /\ Funded(objects'[o])
  BY <1>6, <1>8 DEF Accs, TakenUp
<1>10. UNION {s(o).ok : o \in Have} \in SUBSET Vote /\ invalid' \subseteq Vote
  BY <1>0, <1>7, <1>9 DEF BooksType
<1>11. /\ votedOn' \in [MN -> SUBSET Obj] /\ \A n \in MN : votedOn[n] \subseteq votedOn'[n]
       /\ \A o \in Have : \A v \in s(o).ok : VoteOf[v].mn \in list => VoteOf[v].obj \in votedOn'[VoteOf[v].mn]
  BY <1>7, <1>10, AddedVotes
<1>12. BooksType' /\ TracesType' /\ list' = list
  BY <1>0, <1>1, <1>10, <1>11 DEF BooksType, TracesType, list
<1>13. /\ PastType' /\ past'.erased = past.erased /\ past'.escaped = past.escaped
  BY <1>0, <1>1 DEF PastType
<1>14. /\ ThreadType' /\ thread'[t].at \in {"take", "clear"}
       /\ \A u \in Thread \ {t} : thread'[u] = thread[u]
       /\ \A u \in Thread : thread'[u].hashes = thread[u].hashes /\ thread'[u].vote = thread[u].vote
  <2>1. place \in Place /\ place \in {"take", "clear"}
    BY DEF Place
  <2> HIDE DEF place
  <2> QED
    BY <1>0, <1>1, <2>1, GoToIs
<1>15. VoteInHand'
  <2>1. thread'["net"].vote = {}
    BY <1>1, <1>14, NoVoteInHand DEF Thread
  <2> QED
    BY <2>1 DEF VoteInHand
<1>16. HashesInHand'
  BY <1>0, <1>1, <1>14 DEF HashesInHand, At
<1>17. ASSUME NEW o \in Have', NEW n \in MnsOf(objects'[o].current)
       PROVE  o \in Have /\ n \in MN /\ (n \in MnsOf(objects[o].current) \/ (n \in list /\ o \in votedOn'[n]))
  <2>1. PICK v \in objects'[o].current : n = VoteOf[v].mn
    BY <1>17 DEF MnsOf
  <2>2. o \in Have /\ v \in VotesFor(o) /\ v \in Vote
    BY <1>8, <1>9, <2>1 DEF Content, VotesFor
  <2>3. v \in objects[o].current \/ v \in s(o).ok
    BY <1>6, <1>8, <2>1, <2>2 DEF TakenUp
  <2>4. v \in s(o).ok => VoteOf[v].mn \in list
    BY <1>6, <2>2 DEF TakenUp
  <2> QED
    BY <1>11, <2>1, <2>2, <2>3, <2>4, VoteFacts DEF MnsOf, VotesFor
<1>18. VotesTraced'
  <2> SUFFICES ASSUME NEW o \in Have', NEW n \in (MnsOf(objects'[o].current) \cap list) \ past'.escaped
               PROVE  o \in votedOn'[n]
    BY <1>12 DEF VotesTraced, MnsOf
  <2>1. o \in Have /\ n \in MN /\ (n \in MnsOf(objects[o].current) \/ o \in votedOn'[n])
    BY <1>17
  <2> QED
    BY <1>0, <1>11, <1>13, <2>1 DEF VotesTraced
<1>19. DepartedVotesFlagged'
  <2> SUFFICES ASSUME NEW o \in Have', NEW n \in (MnsOf(objects'[o].current) \ list) \ past'.escaped
               PROVE  o \in dirtyHashes \cup UNION {thread'[u].hashes : u \in Thread}
    BY <1>1, <1>12 DEF DepartedVotesFlagged, MnsOf
  <2>1. o \in Have /\ n \in MnsOf(objects[o].current)
    BY <1>17
  <2>2. o \in dirtyHashes \cup UNION {thread[u].hashes : u \in Thread}
    BY <1>0, <1>13, <2>1 DEF DepartedVotesFlagged
  <2> QED
    BY <1>14, <2>2
<1>20. NoticePending'
  <2>1. AllCounted'
    <3> SUFFICES ASSUME NEW o \in Have', NEW v \in objects'[o].waiting, VoteOf[v].mn \in list
                 PROVE  v \in Forged \/ Obsolete(objects'[o], v)
      BY <1>12 DEF AllCounted, Obsolete
    <3>1. o \in Have /\ v \in s(o).obj.waiting
      BY <1>8
    <3>2. v \in waiting
      BY <1>5, <1>6, <3>1 DEF TakenUp
    <3> QED
      BY <1>6, <1>8, <3>1, <3>2 DEF TakenUp
  <2> QED
    BY <2>1 DEF NoticePending
<1> QED
  BY <1>1, <1>8, <1>9, <1>12, <1>13, <1>14, <1>15, <1>16, <1>18, <1>19, <1>20, SameObjectsInv

LEMMA UpdateCachesAndCleanInv ==
    ASSUME Inv, NEW t \in Thread, UpdateCachesAndClean(t)
    PROVE  Inv'
<1>0. /\ BooksType /\ TracesType /\ ThreadType /\ PastType /\ HashesInHand /\ ListType
      /\ VotesTraced /\ DepartedVotesFlagged /\ NoticePending /\ OncePerObject /\ ObjectsType
  BY InvParts
<1> DEFINE hashes == thread[t].hashes
           after == IF thread[t].removed
                    THEN [thread[t] EXCEPT !.at = "clear", !.hashes = {}] ELSE Idle
<1>1. /\ At(t, "clean") /\ LockFree /\ thread' = [thread EXCEPT ![t] = after]
      /\ UNCHANGED <<masternodes, indexed, dirtyHashes, flags, seen, orphans, requested,
                     invalid, events>>
  BY DEF UpdateCachesAndClean
<1>2. PICK enabled \in 0..Cardinality(list), expired \in SUBSET {o \in Have : Signer[o] # NoMN} :
        LET kept == [o \in Have |-> Cleaned(o, hashes, expired, enabled)]
        IN \E due \in SUBSET {o \in Have : kept[o].deleting \/ kept[o].expired} :
              /\ objects' = [o \in Have \ due |-> kept[o]]
              /\ votedOn' = [m \in MN |-> votedOn[m] \ due]
              /\ refs' = {v \in refs : VoteOf[v].obj \notin due}
              /\ past' = [past EXCEPT !.erased = @ \cup due]
  BY DEF UpdateCachesAndClean
<1> DEFINE kept == [o \in Have |-> Cleaned(o, hashes, expired, enabled)]
<1>3. \A o \in Have : kept[o] = Cleaned(o, hashes, expired, enabled)
  OBVIOUS
<1>4. PICK due \in SUBSET {o \in Have : kept[o].deleting \/ kept[o].expired} :
        /\ objects' = [o \in Have \ due |-> kept[o]]
        /\ votedOn' = [m \in MN |-> votedOn[m] \ due]
        /\ refs' = {v \in refs : VoteOf[v].obj \notin due}
        /\ past' = [past EXCEPT !.erased = @ \cup due]
  BY <1>2
<1> HIDE DEF kept
<1>5. due \subseteq Have
  OBVIOUS
<1>6. \A o \in Have :
        /\ kept[o] \in Content(VotesFor(o)) /\ Latest(kept[o]) /\ Funded(kept[o])
        /\ kept[o].waiting = objects[o].waiting /\ kept[o].current \subseteq objects[o].current
        /\ o \in hashes => MnsOf(kept[o].current) \subseteq list
        /\ \A x \in Vote : VoteOf[x].mn \in list /\ Obsolete(objects[o], x) => Obsolete(kept[o], x)
  <2> TAKE o \in Have
  <2>1. /\ objects[o] \in Content(VotesFor(o)) /\ VotesFor(o) \in SUBSET Vote
        /\ Latest(objects[o]) /\ Funded(objects[o])
    BY HeldObject
  <2>2. enabled \in 0..Cardinality(MN)
    BY EnabledBound
  <2> HIDE DEF hashes
  <2> QED
    BY <1>3, <2>1, <2>2, CleanedIs
<1> HIDE DEF hashes
<1>7. Have' = Have \ due /\ \A o \in Have \ due : objects'[o] = kept[o]
  BY <1>4 DEF Have
<1>8. ObjectsType' /\ GoodObjects'
  <2>1. Have' \subseteq Obj /\ \A o \in Have' : objects'[o] \in Content(VotesFor(o))
    BY <1>0, <1>6, <1>7 DEF ObjectsType
  <2>2. \A o \in Have' : Latest(objects'[o]) /\ Funded(objects'[o])
    BY <1>6, <1>7
  <2> QED
    BY <2>1, <2>2 DEF ObjectsType, GoodObjects, Latest, Funded
<1>9. ListType' /\ TracesType' /\ BooksType' /\ list' = list
  BY <1>0, <1>1, <1>4 DEF ListType, TracesType, BooksType, list
<1>10. /\ PastType' /\ past'.missed = past.missed /\ past'.escaped = past.escaped
       /\ past'.erased = past.erased \cup due
  BY <1>0, <1>1, <1>4, <1>5 DEF PastType, ObjectsType
<1>11. after \in Local /\ after.hashes = {} /\ after.vote \subseteq thread[t].vote
  <2>1. thread[t] \in Local
    BY <1>0 DEF ThreadType
  <2> QED
    BY <2>1 DEF Local, Place, Idle
<1> HIDE DEF after
<1>12. ThreadType' /\ thread'[t] = after /\ \A u \in Thread \ {t} : thread'[u] = thread[u]
  BY <1>0, <1>1, <1>11 DEF ThreadType
<1>13. VoteInHand'
  <2>1. thread'["net"].vote = {}
    BY <1>1, <1>11, <1>12, NoVoteInHand DEF Thread
  <2> QED
    BY <2>1 DEF VoteInHand
<1>14. HashesInHand'
  BY <1>0, <1>11, <1>12 DEF HashesInHand, At
<1>15. \A o \in Have' : o \in Have /\ o \notin due
                        /\ MnsOf(objects'[o].current) \subseteq MnsOf(objects[o].current)
  BY <1>6, <1>7 DEF MnsOf
<1>16. VotesTraced'
  <2> SUFFICES ASSUME NEW o \in Have', NEW n \in (MnsOf(objects'[o].current) \cap list) \ past'.escaped
               PROVE  o \in votedOn'[n]
    BY <1>9 DEF VotesTraced, MnsOf
  <2>1. n \in MN
    BY <1>0 DEF ListType
  <2> QED
    BY <1>0, <1>4, <1>10, <1>15, <2>1 DEF VotesTraced
<1>17. DepartedVotesFlagged'
  <2> SUFFICES ASSUME NEW o \in Have', NEW n \in (MnsOf(objects'[o].current) \ list) \ past'.escaped
               PROVE  o \in dirtyHashes \cup UNION {thread'[u].hashes : u \in Thread}
    BY <1>1, <1>9 DEF DepartedVotesFlagged, MnsOf
  <2>1. o \in Have /\ n \in MnsOf(objects[o].current) /\ o \notin hashes
    BY <1>6, <1>7, <1>15
  <2>2. o \in dirtyHashes \cup UNION {thread[u].hashes : u \in Thread}
    BY <1>0, <1>10, <2>1 DEF DepartedVotesFlagged
  <2>3. CASE o \in dirtyHashes
    BY <2>3
  <2>4. CASE \E u \in Thread : o \in thread[u].hashes
    <3>1. PICK u \in Thread : o \in thread[u].hashes
      BY <2>4
    <3>2. u \in Thread \ {t}
      BY <2>1, <3>1 DEF hashes
    <3> QED
      BY <1>12, <3>1, <3>2
  <2> QED
    BY <2>2, <2>3, <2>4
<1>18. NoticePending'
  <2>1. AllCounted => AllCounted'
    <3> SUFFICES ASSUME AllCounted, NEW o \in Have', NEW v \in objects'[o].waiting,
                        VoteOf[v].mn \in list
                 PROVE  v \in Forged \/ Obsolete(objects'[o], v)
      BY <1>9 DEF AllCounted, Obsolete
    <3>1. o \in Have /\ v \in objects[o].waiting /\ objects'[o] = kept[o]
      BY <1>6, <1>7
    <3>2. v \in Vote
      BY <3>1, HeldObject DEF Content
    <3> QED
      BY <1>6, <3>1, <3>2 DEF AllCounted
  <2>2. CASE past.missed
    BY <1>10, <2>2 DEF NoticePending
  <2>3. CASE \E u \in Thread : thread[u].at \in {"objects", "votes"}
    <3>1. PICK u \in Thread : thread[u].at \in {"objects", "votes"}
      BY <2>3
    <3>2. u \in Thread \ {t}
      BY <1>1, <3>1 DEF At
    <3> QED
      BY <1>12, <3>1, <3>2 DEF NoticePending
  <2>4. CASE flags.added /\ thread["net"].at \in {"check", "notify"}
    <3>1. "net" \in Thread \ {t}
      BY <1>1, <2>4 DEF At, Thread
    <3> QED
      BY <1>1, <1>12, <2>4, <3>1 DEF NoticePending
  <2> QED
    BY <1>0, <2>1, <2>2, <2>3, <2>4 DEF NoticePending
<1>19. OncePerObject'
  BY <1>0, <1>1, <1>5, <1>7, <1>10 DEF OncePerObject
<1> QED
  BY <1>8, <1>9, <1>10, <1>12, <1>13, <1>14, <1>16, <1>17, <1>18, <1>19, InvPartsNext

LEMMA RestartInv ==
    ASSUME Inv, Restart
    PROVE  Inv'
<1>0. /\ BooksType /\ TracesType /\ ThreadType /\ PastType /\ HashesInHand /\ ListType
      /\ VotesTraced /\ VoteInHand /\ OncePerObject
  BY InvParts
<1> DEFINE restored(o) == [objects[o] EXCEPT !.waiting = {}, !.dirty = TRUE,
                                             !.funding = FALSE, !.deleting = FALSE]
           left == UNION {MnsOf(objects[o].current) \ list : o \in Have}
<1>1. /\ \A t \in Thread : At(t, "idle")
      /\ events < MaxEvents /\ events' = events + 1
      /\ objects' = [o \in Have |-> restored(o)]
      /\ orphans' = [orphans EXCEPT !.objs = {}]
      /\ requested' = {} /\ dirtyHashes' = {}
      /\ flags' = [added |-> FALSE, removed |-> FALSE]
      /\ refs' = UNION {objects[o].file : o \in Have}
      /\ past' = [past EXCEPT !.missed = FALSE, !.escaped = @ \cup left]
      /\ UNCHANGED <<masternodes, indexed, votedOn, seen, invalid, thread>>
  BY Zenon DEF Restart
<1>2. \A o \in Have : /\ restored(o) \in Content(VotesFor(o))
                      /\ restored(o).current = objects[o].current
                      /\ restored(o).file = objects[o].file
                      /\ restored(o).waiting = {} /\ restored(o).dirty = TRUE
  BY HeldObject DEF Content
<1> HIDE DEF restored
<1>3. /\ DOMAIN objects' = Have /\ Have' = Have /\ \A o \in Have : objects'[o] = restored(o)
  BY <1>1 DEF Have
<1>4. \A o \in Have : Latest(objects'[o]) /\ Funded(objects'[o])
  <2> TAKE o \in Have
  <2>1. Latest(objects[o])
    BY HeldObject
  <2> QED
    BY <1>2, <1>3, <2>1 DEF Latest, Funded
<1>5. left \subseteq MN
  <2>1. \A o \in Have : \A v \in objects[o].current : v \in Vote
    BY HeldObject DEF Content
  <2> QED
    BY <2>1, VoteFacts DEF MnsOf
<1>6. \A o \in Have : MnsOf(objects[o].current) \subseteq list \cup left
  OBVIOUS
<1> HIDE DEF left
<1>7. BooksType' /\ orphans'.objs = {}
  <2>1. UNION {objects[o].file : o \in Have} \subseteq Vote
    <3>1. \A o \in Have : objects[o].file \subseteq Vote
      BY HeldObject DEF Content
    <3> QED
      BY <3>1
  <2> QED
    BY <1>0, <1>1, <2>1 DEF BooksType
<1>8. TracesType' /\ ThreadType' /\ ListType' /\ list' = list
  BY <1>0, <1>1 DEF TracesType, ThreadType, ListType, list
<1>9. /\ PastType' /\ past'.erased = past.erased
      /\ past'.escaped = past.escaped \cup left
  <2>1. events' \in 0..MaxEvents
    BY <1>1, EventsBound
  <2> QED
    BY <1>0, <1>1, <1>5, <2>1 DEF PastType
<1>10. VoteInHand' /\ HashesInHand'
  <2>1. thread["net"].vote = {}
    BY <1>0, <1>1 DEF VoteInHand, At, Thread
  <2> QED
    BY <1>0, <1>1, <2>1 DEF VoteInHand, HashesInHand, At
<1>11. ObjectsType' /\ GoodObjects'
  <2>1. Have' \subseteq Obj /\ \A o \in Have' : objects'[o] \in Content(VotesFor(o))
    BY <1>2, <1>3, HeldObject
  <2> QED
    BY <1>3, <1>4, <2>1 DEF ObjectsType, GoodObjects, Latest, Funded
<1>12. VotesTraced'
  BY <1>0, <1>1, <1>2, <1>3, <1>8, <1>9 DEF VotesTraced, MnsOf
<1>13. DepartedVotesFlagged'
  <2> SUFFICES ASSUME NEW o \in Have', NEW n \in (MnsOf(objects'[o].current) \ list) \ past'.escaped
               PROVE  FALSE
    BY <1>8 DEF DepartedVotesFlagged, MnsOf
  <2> QED
    BY <1>2, <1>3, <1>6, <1>9
<1>14. NoticePending'
  BY <1>2, <1>3 DEF NoticePending, AllCounted
<1>15. OncePerObject'
  BY <1>0, <1>1, <1>3, <1>7, <1>9 DEF OncePerObject
<1> QED
  BY <1>7, <1>8, <1>9, <1>10, <1>11, <1>12, <1>13, <1>14, <1>15, InvPartsNext

-----------------------------------------------------------------------------
(* The theorems.                                                           *)

LEMMA NextInv ==
    ASSUME Inv, [Next]_vars
    PROVE  Inv'
<1>1. CASE UNCHANGED vars
  <2>1. BooksType' /\ orphans'.objs = orphans.objs
    BY <1>1, InvParts DEF vars, BooksType
  <2> QED
    BY <1>1, <2>1, BooksInv DEF vars, mnodeman
<1>2. CASE Message
  BY <1>2, QuietMessagesInv, ObjectInvalidInv, ObjectAddedInv, VoteWithoutMasternodeInv,
     VoteCheckedInv, AddInv DEF Message
<1>3. CASE FinishVote
  BY <1>3, VoteRecordedInv DEF FinishVote
<1>4. CASE \E gone \in SUBSET (list \cap Leaving) : CheckAndRemove(gone)
  BY <1>4, CheckAndRemoveInv
<1>5. CASE DoMaintenance
  BY <1>5, GoOnInv
<1>6. CASE \E t \in Thread : Step(t)
  BY <1>6, GoOnInv, NotifyInv, OrphanObjectsInv, OrphanVotesInv, TakeDirtyInv,
     UpdateCachesAndCleanInv, ClearInv DEF Step
<1>7. CASE Restart
  BY <1>7, RestartInv
<1> QED
  BY <1>1, <1>2, <1>3, <1>4, <1>5, <1>6, <1>7 DEF Next

\* What the threads, the maps and the flags hold together, in every state.
THEOREM InvHolds == Spec => []Inv
<1>1. Init => Inv
  BY InitInv
<1>2. Inv /\ [Next]_vars => Inv'
  BY NextInv
<1> QED
  BY <1>1, <1>2, PTL DEF Spec

\* Every map of CGovernanceManager and CMasternodeMan holds what its
\* declaration says.
THEOREM TypeCorrect == Spec => []TypeOK
<1>1. Inv => TypeOK
  BY DEF Inv
<1> QED
  BY <1>1, InvHolds, PTL

\* Whatever order votes arrive in, are held back or cleared, an object counts
\* per masternode and signal exactly one vote, one of its file that is as new
\* as any there (CGovernanceObject::ProcessVote, ClearMasternodeVotes).
THEOREM LatestVoteCounts == Spec => []RecordedIsLatest
<1>1. Inv => RecordedIsLatest
  BY DEF Inv
<1> QED
  BY <1>1, InvHolds, PTL

\* A counted vote of a masternode that left is flagged to be taken back, by
\* mnodeman or by a thread about to clean, unless its masternode escaped
\* (FlagGovernanceItemsAsDirty, UpdateCachesAndClean).
THEOREM DepartedAreFlagged == Spec => []DepartedVotesFlagged
<1>1. Inv => DepartedVotesFlagged
  BY DEF Inv
<1> QED
  BY <1>1, InvHolds, PTL

\* A vote worth counting does not wait for a masternode in the list, unless a
\* check is due or a notification was lost (CheckMasternodeOrphanVotes,
\* NotifyMasternodeUpdates).
THEOREM WaitingAreCounted == Spec => []WaitingVotesCounted
<1>1. Inv => WaitingVotesCounted
  BY DEF Inv, NoticePending, WaitingVotesCounted, AllCounted
<1> QED
  BY <1>1, InvHolds, PTL

\* A clean object's cached funding flag is the verdict on the votes it counts
\* now (UpdateSentinelVariables, fDirtyCache).
THEOREM FundingIsCurrent == Spec => []FundingFollowsVotes
<1>1. Inv => FundingFollowsVotes
  BY DEF Inv
<1> QED
  BY <1>1, InvHolds, PTL

\* An erased object never comes back: it is seen, and nothing waits for it
\* (mapSeenGovernanceObjects, UpdateCachesAndClean).
THEOREM ErasedStaysErased == Spec => []ErasedNeverReturns
<1>1. Inv => ErasedNeverReturns
  BY DEF Inv, OncePerObject, ErasedNeverReturns
<1> QED
  BY <1>1, InvHolds, PTL
=============================================================================
