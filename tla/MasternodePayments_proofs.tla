----------------------- MODULE MasternodePayments_proofs -----------------------
(***************************************************************************)
(* Proofs about MasternodePayments, for any nodes, masternodes, payees and *)
(* heights: the two maps of votes agree, a node accepts the blocks it      *)
(* builds, winners stay, and two nodes can be divided only by an exact     *)
(* split of the ranked masternodes.                                        *)
(***************************************************************************)
EXTENDS MasternodePayments, FiniteSetTheorems, TLAPS

-----------------------------------------------------------------------------
(* The best payee exists.                                                  *)

\* Induction over an interval, from the pigeonhole principle: the successor
\* would map the members below a missing one into themselves, one to one and
\* without reaching 0.
LEMMA IntervalInduction ==
    ASSUME NEW n \in Nat, NEW G \in SUBSET (0..n),
           0 \in G, \A k \in G : k < n => k + 1 \in G
    PROVE  G = 0..n
<1> SUFFICES ASSUME NEW m \in (0..n) \ G PROVE FALSE
  OBVIOUS
<1> DEFINE H == {k \in G : k < m}
           f == [k \in H |-> k + 1]
<1>1. IsFiniteSet(H)
  <2>1. IsFiniteSet(0..n)
    BY FS_Interval
  <2> QED
    BY <2>1, FS_Subset
<1>2. f \in Injection(H, H)
  <2>1. \A k \in H : k + 1 \in H
    OBVIOUS
  <2>2. f \in [H -> H]
    BY <2>1
  <2>3. \A a, b \in DOMAIN f : f[a] = f[b] => a = b
    OBVIOUS
  <2> HIDE DEF H, f
  <2> QED
    BY <2>2, <2>3 DEF Injection, IsInjective
<1>3. f \in Surjection(H, H)
  BY <1>1, <1>2, FS_Injection
<1>4. 0 \in H
  OBVIOUS
<1>5. \E k \in H : f[k] = 0
  BY <1>3, <1>4 DEF Surjection
<1> QED
  BY <1>5

PayeeVotes == [payee : Payee, hashes : Seq(Vote)]
Vec == Seq(PayeeVotes)

LEMMA VecType ==
    ASSUME NEW vec \in Vec
    PROVE  /\ DOMAIN vec = 1..Len(vec) /\ Len(vec) \in Nat
           /\ \A i \in DOMAIN vec :
                 /\ vec[i] \in PayeeVotes
                 /\ VoteCount(vec, i) \in Nat
                 /\ DOMAIN vec[i].hashes = 1..VoteCount(vec, i)
<1>1. DOMAIN vec = 1..Len(vec) /\ Len(vec) \in Nat
  BY DEF Vec
<1>2. \A i \in DOMAIN vec : vec[i] \in PayeeVotes
  BY DEF Vec
<1>3. ASSUME NEW i \in DOMAIN vec
      PROVE  VoteCount(vec, i) \in Nat /\ DOMAIN vec[i].hashes = 1..VoteCount(vec, i)
  <2> DEFINE s == vec[i].hashes
  <2>1. s \in Seq(Vote)
    BY <1>2 DEF PayeeVotes
  <2> HIDE DEF s
  <2>2. Len(s) \in Nat /\ DOMAIN s = 1..Len(s)
    BY <2>1
  <2> QED
    BY <2>2 DEF VoteCount, s
<1> QED
  BY <1>1, <1>2, <1>3

\* i has more votes than j, or as many and comes first.
Beats(vec, i, j) ==
    \/ VoteCount(vec, j) < VoteCount(vec, i)
    \/ VoteCount(vec, j) = VoteCount(vec, i) /\ j >= i

LEMMA BestExists ==
    ASSUME NEW vec \in Vec, vec # <<>>
    PROVE  \E i \in DOMAIN vec : \A j \in DOMAIN vec : Beats(vec, i, j)
<1> DEFINE n == Len(vec)
           G == {k \in 0..n : k = 0 \/ \E i \in 1..k : \A j \in 1..k : Beats(vec, i, j)}
<1>1. n \in Nat \ {0} /\ DOMAIN vec = 1..n
  BY VecType DEF Vec
<1>2. \A i \in 1..n : VoteCount(vec, i) \in Nat
  BY <1>1, VecType
<1>3. \A k \in G : k < n => k + 1 \in G
  <2> TAKE k \in G
  <2> HAVE k < n
  <2>0. SUFFICES \E i \in 1..(k+1) : \A j \in 1..(k+1) : Beats(vec, i, j)
    <3>1. k + 1 \in 0..n
      BY <1>1
    <3> QED
      BY <3>1
  <2>1. CASE k = 0
    BY <2>1, <1>1, <1>2 DEF Beats
  <2>2. CASE k # 0
    <3>1. PICK i \in 1..k : \A j \in 1..k : Beats(vec, i, j)
      BY <2>2
    <3>2. k + 1 \in 1..n /\ 1..k \subseteq 1..n /\ 1..(k+1) = (1..k) \cup {k+1}
      BY <1>1
    <3>3. CASE Beats(vec, i, k + 1)
      BY <3>1, <3>2, <3>3
    <3>4. CASE ~Beats(vec, i, k + 1)
      <4>1. VoteCount(vec, k + 1) > VoteCount(vec, i)
        BY <3>1, <3>2, <3>4, <1>2 DEF Beats
      <4>2. \A j \in 1..(k+1) : Beats(vec, k + 1, j)
        BY <3>1, <3>2, <4>1, <1>2 DEF Beats
      <4> QED
        BY <4>2, <3>2
    <3> QED
      BY <3>3, <3>4
  <2> QED
    BY <2>1, <2>2
<1>4. G = 0..n
  <2> HIDE DEF n
  <2>1. G \in SUBSET (0..n) /\ 0 \in G
    BY <1>1
  <2> HIDE DEF G
  <2> QED
    BY <1>1, <1>3, <2>1, IntervalInduction
<1>5. n \in G
  BY <1>1, <1>4
<1> QED
  BY <1>1, <1>5

\* GetBestPayee: no payee has more votes.
LEMMA BestPayee ==
    ASSUME NEW vec \in Vec, vec # <<>>
    PROVE  \E i \in DOMAIN vec : /\ GetBestPayee(vec) = vec[i].payee
                                 /\ \A j \in DOMAIN vec : VoteCount(vec, j) <= VoteCount(vec, i)
<1> DEFINE best == CHOOSE i \in DOMAIN vec :
                      \A j \in DOMAIN vec : \/ VoteCount(vec, j) < VoteCount(vec, i)
                                            \/ VoteCount(vec, j) = VoteCount(vec, i) /\ j >= i
<1>1. best \in DOMAIN vec /\ \A j \in DOMAIN vec : Beats(vec, best, j)
  BY BestExists DEF Beats
<1>2. GetBestPayee(vec) = vec[best].payee
  BY DEF GetBestPayee
<1> QED
  <2> HIDE DEF best
  <2>1. \A j \in DOMAIN vec : VoteCount(vec, j) <= VoteCount(vec, best)
    BY <1>1, VecType DEF Beats
  <2> QED
    BY <1>1, <1>2, <2>1

\* A node accepts its own block, whatever votes it has counted.
LEMMA OwnPayeeValid ==
    ASSUME NEW vec \in Vec
    PROVE  IsTransactionValid(vec, FillBlockPayee(vec))
<1>1. CASE vec = <<>>
  BY <1>1 DEF IsTransactionValid, Winners
<1>2. CASE vec # <<>>
  <2>1. PICK i \in DOMAIN vec : /\ GetBestPayee(vec) = vec[i].payee
                                /\ \A j \in DOMAIN vec : VoteCount(vec, j) <= VoteCount(vec, i)
    BY <1>2, BestPayee
  <2>2. ASSUME NEW w \in Winners(vec) PROVE vec[i].payee \in Winners(vec)
    <3>1. PICK j \in DOMAIN vec : VoteCount(vec, j) >= SIGNATURES_REQUIRED
      BY <2>2 DEF Winners
    <3>2. VoteCount(vec, i) >= SIGNATURES_REQUIRED
      BY <2>1, <3>1, VecType, PaymentsAssumption
    <3> QED
      BY <3>2 DEF Winners
  <2> QED
    BY <1>2, <2>1, <2>2 DEF IsTransactionValid, FillBlockPayee
<1> QED
  BY <1>1, <1>2

-----------------------------------------------------------------------------
(* What the payees of a height are, for the set S of its verified votes.   *)

PayeesDiffer(vec) == \A i, j \in DOMAIN vec : vec[i].payee = vec[j].payee => i = j

HashesIn(vec, S) ==
    \A i \in DOMAIN vec : \A j \in DOMAIN vec[i].hashes :
        vec[i].hashes[j] \in S /\ vec[i].hashes[j].payee = vec[i].payee

HashesAll(vec, S) ==
    \A v \in S : \E i \in DOMAIN vec : \E j \in DOMAIN vec[i].hashes : vec[i].hashes[j] = v

HashesDiffer(vec) ==
    \A i \in DOMAIN vec : \A j, k \in DOMAIN vec[i].hashes :
        vec[i].hashes[j] = vec[i].hashes[k] => j = k

VecOK(vec, S) ==
    PayeesDiffer(vec) /\ HashesIn(vec, S) /\ HashesAll(vec, S) /\ HashesDiffer(vec)

\* AddPayee changes one entry k, a new one or the one of the vote's payee.
ChangedAt(vec, new, v, k) ==
    /\ k \in DOMAIN new /\ new[k].payee = v.payee
    /\ \A i \in DOMAIN vec \ {k} : new[i] = vec[i]
    /\ DOMAIN new = DOMAIN vec \cup {k}
    /\ \A i \in DOMAIN vec \ {k} : vec[i].payee # v.payee
    /\ \/ k \notin DOMAIN vec /\ new[k].hashes = <<v>>
       \/ /\ k \in DOMAIN vec /\ vec[k].payee = v.payee
          /\ new[k].hashes = Append(vec[k].hashes, v)

LEMMA AddPayeeChanges ==
    ASSUME NEW vec \in Vec, PayeesDiffer(vec), NEW v \in Vote
    PROVE  /\ AddPayee(vec, v) \in Vec
           /\ \E k \in Nat : ChangedAt(vec, AddPayee(vec, v), v, k)
<1> DEFINE new == AddPayee(vec, v)
           n == Len(vec)
           rec == [payee |-> v.payee, hashes |-> <<v>>]
<1>1. n \in Nat /\ DOMAIN vec = 1..n
  BY VecType
<1>2. v.payee \in Payee
  BY DEF Vote
<1>3. CASE Index(vec, v.payee) = {}
  <2>1. new = Append(vec, rec)
    BY <1>3 DEF AddPayee
  <2>2. rec \in PayeeVotes
    <3>1. <<v>> \in Seq(Vote)
      OBVIOUS
    <3> QED
      BY <1>2, <3>1 DEF PayeeVotes
  <2> HIDE DEF rec, new
  <2>3. /\ new \in Vec /\ DOMAIN new = 1..(n + 1)
        /\ new[n + 1] = rec /\ \A i \in DOMAIN vec : new[i] = vec[i]
    BY <2>1, <2>2, <1>1 DEF Vec
  <2>4. ChangedAt(vec, new, v, n + 1)
    BY <2>3, <1>1, <1>3 DEF rec, ChangedAt, Index
  <2> QED
    BY <2>3, <2>4, <1>1 DEF new
<1>4. CASE Index(vec, v.payee) # {}
  <2>1. PICK k \in DOMAIN vec : vec[k].payee = v.payee
    BY <1>4 DEF Index
  <2>2. new = [i \in DOMAIN vec |-> IF vec[i].payee = v.payee
                                    THEN [vec[i] EXCEPT !.hashes = Append(@, v)]
                                    ELSE vec[i]]
    BY <1>4 DEF AddPayee
  <2> HIDE DEF new
  <2>3. \A i \in DOMAIN vec \ {k} : vec[i].payee # v.payee
    BY <2>1 DEF PayeesDiffer
  <2>4. vec[k] \in PayeeVotes
    BY <2>1, VecType
  <2>5. /\ new[k].payee = v.payee /\ new[k].hashes = Append(vec[k].hashes, v)
        /\ new[k] \in PayeeVotes
    <3> DEFINE more == Append(vec[k].hashes, v)
    <3>1. new[k] = [vec[k] EXCEPT !.hashes = Append(@, v)]
      BY <2>1, <2>2
    <3>2. more \in Seq(Vote)
      BY <2>4 DEF PayeeVotes
    <3>3. new[k] = [vec[k] EXCEPT !.hashes = more]
      BY <3>1
    <3> HIDE DEF more
    <3>4. new[k].payee = vec[k].payee /\ new[k].hashes = more /\ new[k] \in PayeeVotes
      BY <3>2, <3>3, <2>4 DEF PayeeVotes
    <3> QED
      BY <3>4, <2>1 DEF more
  <2>6. \A i \in DOMAIN vec \ {k} : new[i] = vec[i]
    BY <2>2, <2>3
  <2>7. DOMAIN new = 1..n /\ \A i \in 1..n : new[i] \in PayeeVotes
    BY <1>1, <2>2, <2>5, <2>6, VecType
  <2>8. new = [i \in 1..n |-> new[i]]
    BY <2>2, <1>1
  <2>9. new \in [1..n -> PayeeVotes]
    BY <2>7, <2>8
  <2>10. new \in Vec
    BY <2>9, <1>1 DEF Vec
  <2>11. ChangedAt(vec, new, v, k)
    BY <2>1, <2>3, <2>5, <2>6, <2>7, <1>1 DEF ChangedAt
  <2> QED
    BY <2>1, <2>10, <2>11, <1>1 DEF new
<1> QED
  BY <1>3, <1>4

\* Counting a vote for the first time keeps the payees in order.
LEMMA AddPayeeOK ==
    ASSUME NEW vec \in Vec, NEW S, VecOK(vec, S), NEW v \in Vote, v \notin S
    PROVE  VecOK(AddPayee(vec, v), S \cup {v})
<1> DEFINE new == AddPayee(vec, v)
<1>1. PICK k \in Nat : ChangedAt(vec, new, v, k)
  BY AddPayeeChanges DEF VecOK
<1>2. PayeesDiffer(new)
  BY <1>1 DEF ChangedAt, PayeesDiffer, VecOK
<1>3. /\ DOMAIN new[k].hashes = 1..Len(new[k].hashes) /\ Len(new[k].hashes) \in Nat \ {0}
      /\ new[k].hashes[Len(new[k].hashes)] = v
      /\ \A j \in 1..(Len(new[k].hashes) - 1) :
            /\ k \in DOMAIN vec /\ vec[k].payee = v.payee
            /\ j \in DOMAIN vec[k].hashes /\ new[k].hashes[j] = vec[k].hashes[j]
      /\ k \in DOMAIN vec => \A j \in DOMAIN vec[k].hashes :
            j \in 1..(Len(new[k].hashes) - 1)
  <2>1. CASE k \notin DOMAIN vec
    <3>1. new[k].hashes = <<v>>
      BY <1>1, <2>1 DEF ChangedAt
    <3> QED
      BY <2>1, <3>1
  <2>2. CASE k \in DOMAIN vec
    <3> DEFINE s == vec[k].hashes
    <3>1. s \in Seq(Vote)
      BY <2>2, VecType DEF PayeeVotes
    <3>2. new[k].hashes = Append(s, v) /\ vec[k].payee = v.payee
      BY <1>1, <2>2 DEF ChangedAt
    <3> HIDE DEF s
    <3>3. /\ DOMAIN Append(s, v) = 1..(Len(s) + 1) /\ Len(Append(s, v)) = Len(s) + 1
          /\ Len(s) \in Nat /\ DOMAIN s = 1..Len(s)
          /\ Append(s, v)[Len(s) + 1] = v
          /\ \A j \in 1..Len(s) : Append(s, v)[j] = s[j]
      BY <3>1
    <3> QED
      BY <2>2, <3>2, <3>3 DEF s
  <2> QED
    BY <2>1, <2>2
<1>4. HashesIn(new, S \cup {v})
  <2> SUFFICES ASSUME NEW i \in DOMAIN new, NEW j \in DOMAIN new[i].hashes
               PROVE  new[i].hashes[j] \in S \cup {v} /\ new[i].hashes[j].payee = new[i].payee
    BY DEF HashesIn
  <2>1. CASE i # k
    BY <2>1, <1>1 DEF ChangedAt, VecOK, HashesIn
  <2>2. CASE i = k
    <3>1. j = Len(new[k].hashes) \/ j \in 1..(Len(new[k].hashes) - 1)
      BY <2>2, <1>3
    <3>2. CASE j = Len(new[k].hashes)
      BY <2>2, <3>2, <1>1, <1>3 DEF ChangedAt
    <3>3. CASE j \in 1..(Len(new[k].hashes) - 1)
      BY <2>2, <3>3, <1>1, <1>3 DEF ChangedAt, VecOK, HashesIn
    <3> QED
      BY <3>1, <3>2, <3>3
  <2> QED
    BY <2>1, <2>2
<1>5. HashesAll(new, S \cup {v})
  <2> SUFFICES ASSUME NEW w \in S \cup {v}
               PROVE  \E i \in DOMAIN new : \E j \in DOMAIN new[i].hashes : new[i].hashes[j] = w
    BY DEF HashesAll
  <2>1. CASE w = v
    BY <2>1, <1>1, <1>3 DEF ChangedAt
  <2>2. CASE w # v
    <3>1. PICK i \in DOMAIN vec : \E j \in DOMAIN vec[i].hashes : vec[i].hashes[j] = w
      BY <2>2 DEF VecOK, HashesAll
    <3>2. PICK j \in DOMAIN vec[i].hashes : vec[i].hashes[j] = w
      BY <3>1
    <3>3. CASE i # k
      BY <3>1, <3>2, <3>3, <1>1 DEF ChangedAt
    <3>4. CASE i = k
      <4>1. j \in 1..(Len(new[k].hashes) - 1)
        BY <1>3, <3>4
      <4>2. j \in DOMAIN new[k].hashes /\ new[k].hashes[j] = w
        BY <4>1, <1>3, <3>2, <3>4
      <4> QED
        BY <4>2, <1>1 DEF ChangedAt
    <3> QED
      BY <3>3, <3>4
  <2> QED
    BY <2>1, <2>2
<1>6. HashesDiffer(new)
  <2> SUFFICES ASSUME NEW i \in DOMAIN new, NEW j \in DOMAIN new[i].hashes,
                      NEW l \in DOMAIN new[i].hashes,
                      new[i].hashes[j] = new[i].hashes[l]
               PROVE  j = l
    BY DEF HashesDiffer
  <2>1. CASE i # k
    BY <2>1, <1>1 DEF ChangedAt, VecOK, HashesDiffer
  <2>2. CASE i = k
    <3> DEFINE m == Len(new[k].hashes)
    <3>1. (j = m \/ j \in 1..(m - 1)) /\ (l = m \/ l \in 1..(m - 1))
      BY <2>2, <1>3
    <3>2. \A x \in 1..(m - 1) : new[k].hashes[x] \in S
      BY <1>3 DEF VecOK, HashesIn
    <3>3. new[k].hashes[m] \notin S
      BY <1>3
    <3>4. CASE j = m /\ l = m
      BY <3>4
    <3>5. CASE j \in 1..(m - 1) /\ l \in 1..(m - 1)
      BY <2>2, <3>5, <1>3 DEF VecOK, HashesDiffer
    <3> QED
      BY <2>2, <3>1, <3>2, <3>3, <3>4, <3>5
  <2> QED
    BY <2>1, <2>2
<1> QED
  BY <1>2, <1>4, <1>5, <1>6 DEF VecOK

\* A vote takes no payee's votes away.
LEMMA AddPayeeKeepsWinners ==
    ASSUME NEW vec \in Vec, PayeesDiffer(vec), NEW v \in Vote
    PROVE  Winners(vec) \subseteq Winners(AddPayee(vec, v))
<1> DEFINE new == AddPayee(vec, v)
<1>1. PICK k \in Nat : ChangedAt(vec, new, v, k)
  BY AddPayeeChanges
<1> SUFFICES ASSUME NEW p \in Winners(vec) PROVE p \in Winners(new)
  OBVIOUS
<1>2. PICK i \in DOMAIN vec : vec[i].payee = p /\ VoteCount(vec, i) >= SIGNATURES_REQUIRED
  BY DEF Winners
<1>3. i \in DOMAIN new /\ new[i].payee = p
  BY <1>1, <1>2 DEF ChangedAt
<1>4. VoteCount(new, i) >= SIGNATURES_REQUIRED
  <2>1. CASE i # k
    BY <1>1, <1>2, <2>1 DEF ChangedAt, VoteCount
  <2>2. CASE i = k
    <3> DEFINE s == vec[i].hashes
    <3>1. s \in Seq(Vote)
      BY <1>2, VecType DEF PayeeVotes
    <3>2. new[i].hashes = Append(s, v)
      BY <1>1, <1>2, <2>2 DEF ChangedAt
    <3> HIDE DEF s
    <3>3. Len(Append(s, v)) = Len(s) + 1 /\ Len(s) \in Nat
      BY <3>1
    <3> QED
      BY <1>2, <3>2, <3>3, PaymentsAssumption DEF VoteCount, s
  <2> QED
    BY <2>1, <2>2
<1> QED
  BY <1>3, <1>4 DEF Winners

-----------------------------------------------------------------------------
(* The inductive invariant.                                                *)

SignedOK == IsFiniteSet(signed) /\ Cardinality(signed) <= MaxSigned

\* A counted vote was signed, and by a ranked masternode unless it was old.
VerifiedOK ==
    \A n \in Node, v \in Vote :
        Verified(n, v) => v \in signed /\ (v.height < tip[n] \/ v.mn \in Ranked[v.height])

BlocksOK == \A n \in Node, h \in Height : VecOK(blocks[n][h], VerifiedFor(n, h))

Inv == TypeOK /\ SignedOK /\ VerifiedOK /\ BlocksOK

\* The maps of the nodes.
VotesType == [Node -> [Vote -> {"none", "seen", "verified"}]]
BlocksType == [Node -> [Height -> Vec]]

LEMMA InvTypes ==
    ASSUME Inv
    PROVE  /\ votes \in VotesType /\ blocks \in BlocksType
           /\ \A n \in Node : votes[n] \in [Vote -> {"none", "seen", "verified"}]
           /\ \A n \in Node : blocks[n] \in [Height -> Vec]
           /\ \A n \in Node, h \in Height : blocks[n][h] \in Vec
<1>1. votes \in VotesType /\ blocks \in BlocksType
  BY DEF Inv, TypeOK, VotesType, BlocksType, Vec, PayeeVotes
<1> QED
  BY <1>1 DEF VotesType, BlocksType

\* Emptied maps.
LEMMA NothingOK ==
    /\ <<>> \in Vec /\ VecOK(<<>>, {})
    /\ NoVotes \in [Vote -> {"none", "seen", "verified"}]
    /\ NoBlocks \in [Height -> Vec]
<1>1. <<>> \in Vec
  BY DEF Vec
<1>2. VecOK(<<>>, {})
  BY DEF VecOK, PayeesDiffer, HashesIn, HashesAll, HashesDiffer
<1>3. NoVotes \in [Vote -> {"none", "seen", "verified"}]
  BY DEF NoVotes
<1> QED
  BY <1>1, <1>2, <1>3 DEF NoBlocks

LEMMA InvInit == Init => Inv
<1> SUFFICES ASSUME Init PROVE Inv
  OBVIOUS
<1>1. votes \in VotesType /\ blocks \in BlocksType
  BY NothingOK DEF Init, VotesType, BlocksType
<1>2. TypeOK
  <2>1. tip \in [Node -> Height] /\ signed \subseteq Vote
    BY PaymentsAssumption DEF Init
  <2>2. 0 \in 0..MaxHeight /\ 0 \in 0..MaxRestarts
    BY PaymentsAssumption
  <2>3. lastVote \in [Node -> [MN -> 0..MaxHeight]] /\ restarts \in 0..MaxRestarts
    BY <2>2 DEF Init
  <2>4. info \in [Node -> [MN -> {"ok", "outdated", "unknown"}]]
    BY DEF Init
  <2> QED
    BY <1>1, <2>1, <2>3, <2>4 DEF TypeOK, VotesType, BlocksType, Vec, PayeeVotes
<1>3. SignedOK
  BY FS_EmptySet, PaymentsAssumption DEF Init, SignedOK
<1>4. \A n \in Node, v \in Vote : ~Verified(n, v)
  BY DEF Init, NoVotes, Verified
<1>5. \A n \in Node, h \in Height : VerifiedFor(n, h) = {} /\ blocks[n][h] = <<>>
  BY <1>4 DEF VerifiedFor, Init, NoBlocks
<1> QED
  BY <1>2, <1>3, <1>4, <1>5, NothingOK DEF Inv, VerifiedOK, BlocksOK

\* AddPaymentVote of a vote that is not verified yet.
LEMMA CountStep ==
    ASSUME Inv, NEW n \in Node, NEW v \in Vote, ~Verified(n, v), Count(n, v)
    PROVE  /\ votes' \in VotesType /\ blocks' \in BlocksType
           /\ \A m \in Node, w \in Vote : Verified(m, w)' <=> Verified(m, w) \/ (m = n /\ w = v)
           /\ BlocksOK'
<1>1. v.height \in Height
  BY DEF Vote
<1> DEFINE new == AddPayee(blocks[n][v.height], v)
<1>2. /\ votes' = [votes EXCEPT ![n][v] = "verified"]
      /\ blocks' = [blocks EXCEPT ![n][v.height] = new]
  BY DEF Count
<1>3. blocks[n][v.height] \in Vec /\ VecOK(blocks[n][v.height], VerifiedFor(n, v.height))
  BY <1>1, InvTypes DEF Inv, BlocksOK
<1>4. new \in Vec
  BY <1>3, AddPayeeChanges DEF VecOK
<1>5. VecOK(new, VerifiedFor(n, v.height) \cup {v})
  <2>1. v \notin VerifiedFor(n, v.height)
    BY DEF VerifiedFor
  <2> QED
    BY <1>3, <2>1, AddPayeeOK
<1> HIDE DEF new
<1>6. votes' \in VotesType /\ blocks' \in BlocksType
  BY <1>1, <1>2, <1>4, InvTypes DEF VotesType, BlocksType
<1>7. \A m \in Node, w \in Vote : Verified(m, w)' <=> Verified(m, w) \/ (m = n /\ w = v)
  BY <1>2, InvTypes DEF Verified, VotesType
<1>8. ASSUME NEW m \in Node, NEW h \in Height
      PROVE  VecOK(blocks[m][h], VerifiedFor(m, h))'
  <2>1. CASE m = n /\ h = v.height
    <3>1. blocks'[m][h] = new
      BY <1>1, <1>2, <2>1, InvTypes DEF BlocksType
    <3>2. VerifiedFor(m, h)' = VerifiedFor(n, v.height) \cup {v}
      BY <1>7, <2>1 DEF VerifiedFor
    <3> QED
      BY <1>5, <3>1, <3>2
  <2>2. CASE ~(m = n /\ h = v.height)
    <3>1. blocks'[m][h] = blocks[m][h]
      BY <1>1, <1>2, <2>2, InvTypes DEF BlocksType
    <3>2. VerifiedFor(m, h)' = VerifiedFor(m, h)
      BY <1>7, <2>2 DEF VerifiedFor
    <3> QED
      BY <3>1, <3>2 DEF Inv, BlocksOK
  <2> QED
    BY <2>1, <2>2
<1> QED
  BY <1>6, <1>7, <1>8 DEF BlocksOK

\* A vote that is only remembered.
LEMMA SeenStep ==
    ASSUME Inv, NEW n \in Node, NEW v \in Vote, ~Verified(n, v),
           votes' = [votes EXCEPT ![n][v] = "seen"], blocks' = blocks
    PROVE  /\ votes' \in VotesType /\ blocks' \in BlocksType
           /\ \A m \in Node, w \in Vote : Verified(m, w)' <=> Verified(m, w)
           /\ BlocksOK'
<1>1. votes' \in VotesType /\ blocks' \in BlocksType
  BY InvTypes DEF VotesType
<1>2. \A m \in Node, w \in Vote : Verified(m, w)' <=> Verified(m, w)
  BY InvTypes DEF Verified, VotesType
<1>3. \A m \in Node, h \in Height : VerifiedFor(m, h)' = VerifiedFor(m, h)
  BY <1>2 DEF VerifiedFor
<1> QED
  BY <1>1, <1>2, <1>3 DEF Inv, BlocksOK

\* Steps that leave votes and blocks alone.
LEMMA SameVotes ==
    ASSUME Inv, votes' = votes, blocks' = blocks
    PROVE  /\ votes' \in VotesType /\ blocks' \in BlocksType
           /\ \A m \in Node, w \in Vote : Verified(m, w)' <=> Verified(m, w)
           /\ BlocksOK'
<1>1. \A m \in Node, w \in Vote : Verified(m, w)' <=> Verified(m, w)
  BY DEF Verified
<1>2. \A m \in Node, h \in Height : VerifiedFor(m, h)' = VerifiedFor(m, h)
  BY <1>1 DEF VerifiedFor
<1> QED
  BY <1>1, <1>2, InvTypes DEF Inv, BlocksOK

LEMMA SignStep ==
    ASSUME Inv, NEW v \in Vote, Sign(v)
    PROVE  SignedOK' /\ signed' = signed \cup {v} /\ signed' \subseteq Vote
<1>1. /\ Cardinality(signed) < MaxSigned /\ signed' = signed \cup {v}
      /\ IsFiniteSet(signed) /\ signed \subseteq Vote
  BY DEF Sign, Inv, SignedOK, TypeOK
<1>2. IsFiniteSet(signed') /\ Cardinality(signed') <= Cardinality(signed) + 1
  BY <1>1, FS_AddElement, FS_CardinalityType
<1>3. Cardinality(signed') \in Nat /\ Cardinality(signed) \in Nat
  BY <1>1, <1>2, FS_CardinalityType
<1> QED
  BY <1>1, <1>2, <1>3, PaymentsAssumption DEF SignedOK

\* The new tip, for both actions that move it.
LEMMA TipStep ==
    ASSUME Inv, NEW n \in Node, NEW h \in Height, NewTip(n, h), tip' = [tip EXCEPT ![n] = h]
    PROVE  /\ tip' \in [Node -> Height]
           /\ \A m \in Node : tip'[m] >= tip[m] /\ tip[m] \in Nat /\ tip'[m] \in Nat
<1>1. tip \in [Node -> Height] /\ Height \subseteq Nat
  BY PaymentsAssumption DEF Inv, TypeOK, Height
<1>2. ASSUME NEW m \in Node
      PROVE  tip'[m] >= tip[m] /\ tip[m] \in Nat /\ tip'[m] \in Nat
  <2>1. tip[m] \in Nat /\ tip[n] \in Nat /\ h \in Nat
    BY <1>1
  <2>2. tip'[m] = IF m = n THEN h ELSE tip[m]
    BY <1>1
  <2>3. h >= tip[n]
    BY <2>1 DEF NewTip
  <2> QED
    BY <2>1, <2>2, <2>3
<1> QED
  BY <1>1, <1>2

\* The types of the rest, and VerifiedOK, from what a step does to the votes.
LEMMA InvFrom ==
    ASSUME Inv, votes' \in VotesType, blocks' \in BlocksType, BlocksOK', SignedOK',
           tip' \in [Node -> Height], lastVote' \in [Node -> [MN -> 0..MaxHeight]],
           info' \in [Node -> [MN -> {"ok", "outdated", "unknown"}]],
           signed \subseteq signed', signed' \subseteq Vote, restarts' \in 0..MaxRestarts,
           \A m \in Node : tip'[m] >= tip[m],
           \A m \in Node, w \in Vote : Verified(m, w)' =>
              \/ Verified(m, w)
              \/ w \in signed' /\ (w.height < tip'[m] \/ w.mn \in Ranked[w.height])
    PROVE  Inv'
<1>1. TypeOK'
  BY DEF TypeOK, VotesType, BlocksType, Vec, PayeeVotes
<1>2. Height \subseteq Nat /\ \A m \in Node : tip[m] \in Nat /\ tip'[m] \in Nat
  BY PaymentsAssumption DEF Inv, TypeOK, Height
<1>3. ASSUME NEW m \in Node, NEW w \in Vote, Verified(m, w)'
      PROVE  w \in signed' /\ (w.height < tip'[m] \/ w.mn \in Ranked[w.height])
  <2>1. CASE Verified(m, w)
    <3>1. w \in signed /\ (w.height < tip[m] \/ w.mn \in Ranked[w.height])
      BY <2>1 DEF Inv, VerifiedOK
    <3>2. w.height \in Nat
      BY <1>2 DEF Vote
    <3> QED
      BY <3>1, <3>2, <1>2
  <2>2. CASE ~Verified(m, w)
    BY <1>3, <2>2
  <2> QED
    BY <2>1, <2>2
<1>4. VerifiedOK'
  BY <1>3 DEF VerifiedOK
<1> QED
  BY <1>1, <1>4 DEF Inv

LEMMA ReceiveStep ==
    ASSUME Inv, NEW n \in Node, NEW v \in signed, ReceiveVote(n, v)
    PROVE  Inv'
<1>0. /\ v \in Vote /\ v.mn \in MN /\ v.height \in Height /\ v.height \in 0..MaxHeight
      /\ ~Verified(n, v) /\ SignedOK' /\ UNCHANGED <<tip, info, signed, restarts>>
  BY DEF ReceiveVote, Inv, TypeOK, Vote, Height, Verified, Known, SignedOK
<1>t. /\ tip' \in [Node -> Height] /\ info' \in [Node -> [MN -> {"ok", "outdated", "unknown"}]]
      /\ signed' \subseteq Vote /\ signed \subseteq signed' /\ restarts' \in 0..MaxRestarts
      /\ \A m \in Node : tip'[m] >= tip[m]
      /\ lastVote \in [Node -> [MN -> 0..MaxHeight]]
  <2>1. \A m \in Node : tip[m] \in Nat
    BY PaymentsAssumption DEF Inv, TypeOK, Height
  <2> QED
    BY <1>0, <2>1 DEF Inv, TypeOK
<1>1. CASE ~InRange(n, v) \/ ~IsValid(n, v) \/ ~CanVote(n, v)
  <2>1. votes' = [votes EXCEPT ![n][v] = "seen"] /\ blocks' = blocks /\ lastVote' = lastVote
    BY <1>1 DEF ReceiveVote
  <2>2. /\ votes' \in VotesType /\ blocks' \in BlocksType
        /\ \A m \in Node, w \in Vote : Verified(m, w)' <=> Verified(m, w)
        /\ BlocksOK'
    BY <1>0, <2>1, SeenStep
  <2> QED
    BY <1>0, <1>t, <2>1, <2>2, InvFrom
<1>2. CASE InRange(n, v) /\ IsValid(n, v) /\ CanVote(n, v)
  <2>1. lastVote' = [lastVote EXCEPT ![n][v.mn] = v.height]
    BY <1>2 DEF ReceiveVote
  <2>2. lastVote' \in [Node -> [MN -> 0..MaxHeight]]
    BY <2>1, <1>0, <1>t
  <2>3. CASE info[n][v.mn] = "ok"
    <3>1. Count(n, v)
      BY <1>2, <2>3 DEF ReceiveVote
    <3>2. /\ votes' \in VotesType /\ blocks' \in BlocksType
          /\ \A m \in Node, w \in Vote : Verified(m, w)' <=> Verified(m, w) \/ (m = n /\ w = v)
          /\ BlocksOK'
      BY <1>0, <3>1, CountStep
    <3>3. v \in signed' /\ (v.height < tip'[n] \/ v.mn \in Ranked[v.height])
      BY <1>0, <1>2 DEF IsValid
    <3> QED
      BY <1>0, <1>t, <2>2, <3>2, <3>3, InvFrom
  <2>4. CASE info[n][v.mn] # "ok"
    <3>1. votes' = [votes EXCEPT ![n][v] = "seen"] /\ blocks' = blocks
      BY <1>2, <2>4 DEF ReceiveVote
    <3>2. /\ votes' \in VotesType /\ blocks' \in BlocksType
          /\ \A m \in Node, w \in Vote : Verified(m, w)' <=> Verified(m, w)
          /\ BlocksOK'
      BY <1>0, <3>1, SeenStep
    <3> QED
      BY <1>0, <1>t, <2>2, <3>2, InvFrom
  <2> QED
    BY <2>3, <2>4
<1> QED
  BY <1>1, <1>2

LEMMA TipAndVoteStep ==
    ASSUME Inv, NEW n \in Node, NEW h \in Height, NEW p \in Payee, TipAndVote(n, h, p)
    PROVE  Inv'
<1> DEFINE v == [mn |-> SelfMN[n], height |-> h + AHEAD, payee |-> p]
<1>1. /\ NewTip(n, h) /\ Voting(n, h) /\ tip' = [tip EXCEPT ![n] = h]
      /\ UNCHANGED <<lastVote, info, restarts>>
      /\ IF Verified(n, v) THEN UNCHANGED <<votes, blocks, signed>> ELSE Count(n, v) /\ Sign(v)
  BY DEF TipAndVote
<1>2. v \in Vote /\ v.mn \in Ranked[v.height]
  BY <1>1 DEF Voting, IsMasternode, Vote
<1> HIDE DEF v
<1>3. /\ tip' \in [Node -> Height] /\ \A m \in Node : tip'[m] >= tip[m]
      /\ lastVote' \in [Node -> [MN -> 0..MaxHeight]] /\ restarts' \in 0..MaxRestarts
      /\ info' \in [Node -> [MN -> {"ok", "outdated", "unknown"}]]
  BY <1>1, TipStep DEF Inv, TypeOK
<1>4. CASE Verified(n, v)
  <2>1. UNCHANGED <<votes, blocks, signed>> /\ SignedOK' /\ signed' \subseteq Vote
    BY <1>1, <1>4 DEF Inv, TypeOK, SignedOK
  <2>2. /\ votes' \in VotesType /\ blocks' \in BlocksType /\ BlocksOK'
        /\ \A m \in Node, w \in Vote : Verified(m, w)' <=> Verified(m, w)
    BY <2>1, SameVotes
  <2> QED
    BY <1>3, <2>1, <2>2, InvFrom
<1>5. CASE ~Verified(n, v)
  <2>1. Count(n, v) /\ Sign(v)
    BY <1>1, <1>5
  <2>2. /\ votes' \in VotesType /\ blocks' \in BlocksType /\ BlocksOK'
        /\ \A m \in Node, w \in Vote : Verified(m, w)' <=> Verified(m, w) \/ (m = n /\ w = v)
    BY <1>2, <1>5, <2>1, CountStep
  <2>3. SignedOK' /\ signed' = signed \cup {v} /\ signed' \subseteq Vote
    BY <1>2, <2>1, SignStep
  <2> QED
    BY <1>2, <1>3, <2>2, <2>3, InvFrom
<1> QED
  BY <1>4, <1>5

\* Heights that are forgotten are forgotten in both maps.
LEMMA RemoveStep ==
    ASSUME Inv, NEW n \in Node, NEW gone \in SUBSET Height,
           votes' = [votes EXCEPT ![n] = [v \in Vote |->
                        IF v.height \in gone THEN "none" ELSE @[v]]],
           blocks' = [blocks EXCEPT ![n] = [h \in Height |->
                        IF h \in gone THEN <<>> ELSE @[h]]]
    PROVE  /\ votes' \in VotesType /\ blocks' \in BlocksType
           /\ \A m \in Node, w \in Vote : Verified(m, w)' => Verified(m, w)
           /\ BlocksOK'
<1>1. /\ votes \in VotesType /\ blocks \in BlocksType
      /\ votes[n] \in [Vote -> {"none", "seen", "verified"}] /\ blocks[n] \in [Height -> Vec]
  BY InvTypes
<1>2. /\ [v \in Vote |-> IF v.height \in gone THEN "none" ELSE votes[n][v]]
             \in [Vote -> {"none", "seen", "verified"}]
      /\ [h \in Height |-> IF h \in gone THEN <<>> ELSE blocks[n][h]] \in [Height -> Vec]
  BY <1>1, NothingOK
<1>3. votes' \in VotesType /\ blocks' \in BlocksType
  BY <1>1, <1>2 DEF VotesType, BlocksType
<1>4. \A m \in Node, w \in Vote :
          Verified(m, w)' <=> Verified(m, w) /\ ~(m = n /\ w.height \in gone)
  BY <1>1 DEF Verified, VotesType
<1>5. ASSUME NEW m \in Node, NEW h \in Height
      PROVE  VecOK(blocks[m][h], VerifiedFor(m, h))'
  <2>1. CASE m = n /\ h \in gone
    <3>1. blocks'[m][h] = <<>>
      BY <1>1, <2>1 DEF BlocksType
    <3>2. VerifiedFor(m, h)' = {}
      BY <1>4, <2>1 DEF VerifiedFor
    <3> QED
      BY <3>1, <3>2, NothingOK
  <2>2. CASE ~(m = n /\ h \in gone)
    <3>1. blocks'[m][h] = blocks[m][h]
      BY <1>1, <2>2 DEF BlocksType
    <3>2. VerifiedFor(m, h)' = VerifiedFor(m, h)
      BY <1>4, <2>2 DEF VerifiedFor
    <3> QED
      BY <3>1, <3>2 DEF Inv, BlocksOK
  <2> QED
    BY <2>1, <2>2
<1> QED
  BY <1>3, <1>4, <1>5 DEF BlocksOK

LEMMA InvStep == Inv /\ [Next]_vars => Inv'
<1> SUFFICES ASSUME Inv, [Next]_vars PROVE Inv'
  OBVIOUS
<1>0. /\ tip \in [Node -> Height] /\ \A m \in Node : tip[m] >= tip[m]
      /\ lastVote \in [Node -> [MN -> 0..MaxHeight]] /\ restarts \in 0..MaxRestarts
      /\ info \in [Node -> [MN -> {"ok", "outdated", "unknown"}]]
      /\ signed \subseteq Vote
  BY PaymentsAssumption DEF Inv, TypeOK, Height
<1>1. ASSUME NEW v \in Vote, OtherVotes(v) PROVE Inv'
  <2>1. Sign(v) /\ UNCHANGED <<tip, votes, blocks, lastVote, info, restarts>>
    BY <1>1 DEF OtherVotes
  <2>2. /\ votes' \in VotesType /\ blocks' \in BlocksType /\ BlocksOK'
        /\ \A m \in Node, w \in Vote : Verified(m, w)' <=> Verified(m, w)
    BY <2>1, SameVotes
  <2>3. SignedOK' /\ signed' = signed \cup {v} /\ signed' \subseteq Vote
    BY <1>1, <2>1, SignStep
  <2> QED
    BY <1>0, <2>1, <2>2, <2>3, InvFrom
<1>2. ASSUME NEW n \in Node, NEW v \in signed, ReceiveVote(n, v) PROVE Inv'
  BY <1>2, ReceiveStep
<1>3. ASSUME NEW n \in Node, NEW h \in Height, TipOnly(n, h) PROVE Inv'
  <2>1. /\ NewTip(n, h) /\ tip' = [tip EXCEPT ![n] = h]
        /\ UNCHANGED <<votes, blocks, lastVote, info, signed, restarts>>
    BY <1>3 DEF TipOnly
  <2>2. /\ votes' \in VotesType /\ blocks' \in BlocksType /\ BlocksOK'
        /\ \A m \in Node, w \in Vote : Verified(m, w)' <=> Verified(m, w)
    BY <2>1, SameVotes
  <2>3. tip' \in [Node -> Height] /\ \A m \in Node : tip'[m] >= tip[m]
    BY <1>3, <2>1, TipStep
  <2>4. SignedOK'
    BY <2>1 DEF Inv, SignedOK
  <2> QED
    BY <1>0, <2>1, <2>2, <2>3, <2>4, InvFrom
<1>4. ASSUME NEW n \in Node, NEW h \in Height, NEW p \in Payee, TipAndVote(n, h, p) PROVE Inv'
  BY <1>4, TipAndVoteStep
<1>5. ASSUME NEW n \in Node, NEW m \in MN, ListChanges(n, m) PROVE Inv'
  <2>1. PICK k \in {"ok", "outdated", "unknown"} : info' = [info EXCEPT ![n][m] = k]
    BY <1>5 DEF ListChanges
  <2>2. UNCHANGED <<tip, votes, blocks, lastVote, signed, restarts>>
    BY <1>5 DEF ListChanges
  <2>3. /\ votes' \in VotesType /\ blocks' \in BlocksType /\ BlocksOK'
        /\ \A l \in Node, w \in Vote : Verified(l, w)' <=> Verified(l, w)
    BY <2>2, SameVotes
  <2>4. info' \in [Node -> [MN -> {"ok", "outdated", "unknown"}]]
    BY <1>0, <2>1
  <2>5. SignedOK'
    BY <2>2 DEF Inv, SignedOK
  <2> QED
    BY <1>0, <2>2, <2>3, <2>4, <2>5, InvFrom
<1>6. ASSUME NEW n \in Node, CheckAndRemove(n) PROVE Inv'
  <2>1. PICK gone \in SUBSET Height :
           /\ votes' = [votes EXCEPT ![n] = [v \in Vote |->
                           IF v.height \in gone THEN "none" ELSE @[v]]]
           /\ blocks' = [blocks EXCEPT ![n] = [h \in Height |->
                           IF h \in gone THEN <<>> ELSE @[h]]]
           /\ UNCHANGED <<tip, lastVote, info, signed, restarts>>
    BY <1>6 DEF CheckAndRemove
  <2>2. /\ votes' \in VotesType /\ blocks' \in BlocksType /\ BlocksOK'
        /\ \A m \in Node, w \in Vote : Verified(m, w)' => Verified(m, w)
    BY <2>1, RemoveStep
  <2>3. SignedOK'
    BY <2>1 DEF Inv, SignedOK
  <2> QED
    BY <1>0, <2>1, <2>2, <2>3, InvFrom
<1>7. ASSUME NEW n \in Node, Restart(n) PROVE Inv'
  <2>1. /\ restarts' = restarts + 1 /\ restarts < MaxRestarts
        /\ lastVote' = [lastVote EXCEPT ![n] = [m \in MN |-> 0]]
        /\ UNCHANGED <<tip, info, signed>>
        /\ \/ votes' = votes /\ blocks' = blocks
           \/ /\ votes' = [votes EXCEPT ![n] = NoVotes]
              /\ blocks' = [blocks EXCEPT ![n] = NoBlocks]
    BY <1>7 DEF Restart
  <2>2. 0 \in 0..MaxHeight /\ restarts' \in 0..MaxRestarts
    BY <1>0, <2>1, PaymentsAssumption
  <2>3. lastVote' \in [Node -> [MN -> 0..MaxHeight]]
    BY <1>0, <2>1, <2>2
  <2>4. /\ votes' \in VotesType /\ blocks' \in BlocksType /\ BlocksOK'
        /\ \A m \in Node, w \in Vote : Verified(m, w)' => Verified(m, w)
    <3>1. CASE votes' = votes /\ blocks' = blocks
      BY <3>1, SameVotes
    <3>2. CASE /\ votes' = [votes EXCEPT ![n] = NoVotes]
               /\ blocks' = [blocks EXCEPT ![n] = NoBlocks]
      <4>1. \A v \in Vote : v.height \in Height
        BY DEF Vote
      <4>2. /\ [v \in Vote |-> IF v.height \in Height THEN "none" ELSE votes[n][v]] = NoVotes
            /\ [h \in Height |-> IF h \in Height THEN <<>> ELSE blocks[n][h]] = NoBlocks
        BY <4>1 DEF NoVotes, NoBlocks
      <4> QED
        BY <3>2, <4>2, RemoveStep
    <3> QED
      BY <2>1, <3>1, <3>2
  <2>5. SignedOK'
    BY <2>1 DEF Inv, SignedOK
  <2> QED
    BY <1>0, <2>1, <2>2, <2>3, <2>4, <2>5, InvFrom
<1>8. CASE UNCHANGED vars
  <2>1. /\ votes' \in VotesType /\ blocks' \in BlocksType /\ BlocksOK'
        /\ \A m \in Node, w \in Vote : Verified(m, w)' <=> Verified(m, w)
    BY <1>8, SameVotes DEF vars
  <2>2. SignedOK'
    BY <1>8 DEF vars, Inv, SignedOK
  <2> QED
    BY <1>0, <1>8, <2>1, <2>2, InvFrom DEF vars
<1> QED
  BY <1>1, <1>2, <1>3, <1>4, <1>5, <1>6, <1>7, <1>8 DEF Next

LEMMA InvAlways == Spec => []Inv
BY InvInit, InvStep, PTL DEF Spec

-----------------------------------------------------------------------------
(* The theorems.                                                           *)

\* The payment maps keep their types.
THEOREM TypeCorrect == Spec => []TypeOK
<1>1. Inv => TypeOK
  BY DEF Inv
<1> QED
  BY <1>1, InvAlways, PTL

\* The verified votes of a height are signed votes, hence finitely many.
LEMMA VerifiedFinite ==
    ASSUME Inv, NEW n \in Node, NEW h \in Height
    PROVE  /\ VerifiedFor(n, h) \subseteq signed /\ IsFiniteSet(VerifiedFor(n, h))
           /\ Cardinality(VerifiedFor(n, h)) \in Nat /\ Cardinality(VerifiedFor(n, h)) <= MaxSigned
<1>1. VerifiedFor(n, h) \subseteq signed
  BY DEF VerifiedFor, Inv, VerifiedOK
<1>2. /\ IsFiniteSet(VerifiedFor(n, h)) /\ Cardinality(VerifiedFor(n, h)) <= Cardinality(signed)
      /\ IsFiniteSet(signed) /\ Cardinality(signed) <= MaxSigned
  BY <1>1, FS_Subset DEF Inv, SignedOK
<1>3. Cardinality(VerifiedFor(n, h)) \in Nat /\ Cardinality(signed) \in Nat
  BY <1>2, FS_CardinalityType
<1> QED
  BY <1>1, <1>2, <1>3, PaymentsAssumption

\* The bound of Entries hides no vote.
LEMMA HashesBounded ==
    ASSUME Inv, NEW n \in Node, NEW h \in Height, NEW i \in DOMAIN blocks[n][h]
    PROVE  VoteCount(blocks[n][h], i) <= MaxSigned
<1> DEFINE vec == blocks[n][h]
           c == VoteCount(vec, i)
           S == VerifiedFor(n, h)
           f == [j \in 1..c |-> vec[i].hashes[j]]
<1>1. vec \in Vec /\ VecOK(vec, S)
  BY InvTypes DEF Inv, BlocksOK
<1>2. c \in Nat /\ DOMAIN vec[i].hashes = 1..c
  BY <1>1, VecType
<1>3. f \in Injection(1..c, S)
  <2>1. f \in [1..c -> S]
    BY <1>1, <1>2 DEF VecOK, HashesIn
  <2>2. \A a, b \in 1..c : f[a] = f[b] => a = b
    BY <1>1, <1>2 DEF VecOK, HashesDiffer
  <2> HIDE DEF f, c, S
  <2> QED
    BY <2>1, <2>2 DEF Injection, IsInjective
<1>4. IsFiniteSet(S) /\ Cardinality(S) \in Nat /\ Cardinality(S) <= MaxSigned
  BY VerifiedFinite
<1> HIDE DEF f, c, S
<1>5. Cardinality(1..c) <= Cardinality(S)
  BY <1>3, <1>4, FS_Injection
<1>6. Cardinality(1..c) = c
  BY <1>2, FS_Interval
<1> QED
  BY <1>2, <1>4, <1>5, <1>6, PaymentsAssumption DEF c

LEMMA EntriesAre ==
    ASSUME Inv, NEW n \in Node, NEW h \in Height
    PROVE  /\ \A i \in DOMAIN blocks[n][h] : \A j \in DOMAIN blocks[n][h][i].hashes :
                 <<i, j>> \in Entries(blocks[n][h])
           /\ \A e \in Entries(blocks[n][h]) :
                 /\ e[1] \in DOMAIN blocks[n][h] /\ e[2] \in DOMAIN blocks[n][h][e[1]].hashes
                 /\ e = <<e[1], e[2]>>
<1> DEFINE vec == blocks[n][h]
<1>1. vec \in Vec
  BY InvTypes
<1>2. ASSUME NEW i \in DOMAIN vec, NEW j \in DOMAIN vec[i].hashes
      PROVE  <<i, j>> \in Entries(vec)
  <2>1. VoteCount(vec, i) \in Nat /\ DOMAIN vec[i].hashes = 1..VoteCount(vec, i)
    BY <1>1, VecType
  <2>2. VoteCount(vec, i) <= MaxSigned
    BY HashesBounded
  <2>3. j \in 1..MaxSigned
    BY <2>1, <2>2, PaymentsAssumption
  <2> QED
    BY <2>3 DEF Entries
<1> QED
  BY <1>2 DEF Entries

\* The two maps agree: the payees of a height carry each verified vote once.
LEMMA MapsAgree ==
    ASSUME Inv, NEW n \in Node, NEW h \in Height
    PROVE  LET vec == blocks[n][h] IN
           /\ \A e \in Entries(vec) : vec[e[1]].hashes[e[2]].payee = vec[e[1]].payee
           /\ {vec[e[1]].hashes[e[2]] : e \in Entries(vec)} = VerifiedFor(n, h)
           /\ Cardinality(Entries(vec)) = Cardinality(VerifiedFor(n, h))
           /\ PayeesDiffer(vec)
<1> DEFINE vec == blocks[n][h]
           S == VerifiedFor(n, h)
           E == Entries(vec)
           g == [e \in E |-> vec[e[1]].hashes[e[2]]]
<1>1. VecOK(vec, S)
  BY DEF Inv, BlocksOK
<1>2. \A e \in E : e[1] \in DOMAIN vec /\ e[2] \in DOMAIN vec[e[1]].hashes /\ e = <<e[1], e[2]>>
  BY EntriesAre
<1>3. \A e \in E : g[e] \in S /\ g[e].payee = vec[e[1]].payee
  BY <1>1, <1>2 DEF VecOK, HashesIn
<1>4. \A v \in S : \E e \in E : g[e] = v
  <2> TAKE v \in S
  <2>1. PICK i \in DOMAIN vec : \E j \in DOMAIN vec[i].hashes : vec[i].hashes[j] = v
    BY <1>1 DEF VecOK, HashesAll
  <2>2. PICK j \in DOMAIN vec[i].hashes : vec[i].hashes[j] = v
    BY <2>1
  <2>3. <<i, j>> \in E
    BY EntriesAre
  <2> QED
    BY <2>2, <2>3
<1>5. ASSUME NEW a \in E, NEW b \in E, g[a] = g[b] PROVE a = b
  <2>1. vec[a[1]].payee = vec[b[1]].payee
    BY <1>3, <1>5
  <2>2. a[1] = b[1]
    BY <1>1, <1>2, <2>1 DEF VecOK, PayeesDiffer
  <2>3. vec[a[1]].hashes[a[2]] = vec[a[1]].hashes[b[2]]
    BY <1>5, <2>2
  <2>4. a[2] = b[2]
    BY <1>1, <1>2, <2>2, <2>3 DEF VecOK, HashesDiffer
  <2> QED
    BY <1>2, <2>2, <2>4
<1>6. {vec[e[1]].hashes[e[2]] : e \in E} = S
  BY <1>3, <1>4
<1>7. Cardinality(E) = Cardinality(S)
  <2>1. g \in [E -> S]
    BY <1>3
  <2> HIDE DEF g, E, S
  <2>2. g \in Injection(E, S)
    BY <2>1, <1>5 DEF Injection, IsInjective
  <2>3. g \in Surjection(E, S)
    BY <2>1, <1>4 DEF Surjection
  <2>4. IsFiniteSet(S)
    BY VerifiedFinite DEF S
  <2> QED
    BY <2>2, <2>3, <2>4, FS_Injection
<1> QED
  BY <1>1, <1>3, <1>6, <1>7 DEF VecOK

\* mapMasternodePaymentVotes and mapMasternodeBlocks agree after every
\* arrival, expiry and restart: at each height the payees carry exactly the
\* verified votes, each once and under its own payee.
THEOREM VotesCountedOnce == Spec => []BlocksMatchVotes
<1>1. Inv => BlocksMatchVotes
  BY MapsAgree DEF BlocksMatchVotes, PayeesDiffer
<1> QED
  BY <1>1, InvAlways, PTL

\* IsTransactionValid accepts the payee FillBlockPayee chooses, in every
\* reachable state of the maps.
THEOREM OwnBlockAccepted == Spec => []OwnBlockIsValid
<1>1. Inv => OwnBlockIsValid
  BY InvTypes, OwnPayeeValid DEF OwnBlockIsValid
<1> QED
  BY <1>1, InvAlways, PTL

\* The winner of a coming height has the votes of enough ranked masternodes.
LEMMA WinnerHasRanked ==
    ASSUME Inv, NEW n \in Node, NEW h \in Height, h >= tip[n], NEW p \in Winners(blocks[n][h])
    PROVE  /\ p \in Payee /\ IsFiniteSet(RankedFor(h, p))
           /\ Cardinality(RankedFor(h, p)) \in Nat
           /\ Cardinality(RankedFor(h, p)) >= SIGNATURES_REQUIRED
<1> DEFINE vec == blocks[n][h]
           R == RankedFor(h, p)
<1>1. vec \in Vec /\ VecOK(vec, VerifiedFor(n, h))
  BY InvTypes DEF Inv, BlocksOK
<1>2. PICK i \in DOMAIN vec : vec[i].payee = p /\ VoteCount(vec, i) >= SIGNATURES_REQUIRED
  BY DEF Winners
<1>3. p \in Payee
  BY <1>1, <1>2, VecType DEF PayeeVotes
<1> DEFINE c == VoteCount(vec, i)
           s == vec[i].hashes
           f == [j \in 1..c |-> s[j].mn]
<1>4. c \in Nat /\ DOMAIN s = 1..c
  BY <1>1, VecType
<1>5. ASSUME NEW j \in 1..c
      PROVE  s[j] = [mn |-> s[j].mn, height |-> h, payee |-> p] /\ s[j].mn \in R
  <2>1. s[j] \in VerifiedFor(n, h) /\ s[j].payee = p
    BY <1>1, <1>2, <1>4 DEF VecOK, HashesIn
  <2>2. s[j] \in Vote /\ s[j].height = h /\ Verified(n, s[j])
    BY <2>1 DEF VerifiedFor
  <2>3. s[j] \in signed /\ (h < tip[n] \/ s[j].mn \in Ranked[h])
    BY <2>2 DEF Inv, VerifiedOK
  <2>4. h \in Nat /\ tip[n] \in Nat
    BY PaymentsAssumption DEF Inv, TypeOK, Height
  <2>5. s[j].mn \in Ranked[h]
    BY <2>3, <2>4
  <2>6. s[j] = [mn |-> s[j].mn, height |-> h, payee |-> p]
    BY <2>1, <2>2 DEF Vote
  <2> QED
    BY <2>3, <2>5, <2>6 DEF RankedFor
<1>6. f \in Injection(1..c, R)
  <2>1. f \in [1..c -> R]
    BY <1>5
  <2>2. ASSUME NEW a \in 1..c, NEW b \in 1..c, f[a] = f[b] PROVE a = b
    <3>1. s[a] = s[b]
      BY <1>5, <2>2
    <3> QED
      BY <1>1, <1>4, <3>1 DEF VecOK, HashesDiffer
  <2> HIDE DEF f, c, R
  <2> QED
    BY <2>1, <2>2 DEF Injection, IsInjective
<1>7. IsFiniteSet(R)
  <2>1. R \subseteq Ranked[h] /\ IsFiniteSet(Ranked[h])
    BY RankedAssumption DEF RankedFor
  <2> QED
    BY <2>1, FS_Subset
<1> HIDE DEF f, c, R
<1>8. Cardinality(1..c) <= Cardinality(R) /\ Cardinality(1..c) = c
  BY <1>4, <1>6, <1>7, FS_Injection, FS_Interval
<1>9. Cardinality(R) \in Nat
  BY <1>7, FS_CardinalityType
<1> QED
  BY <1>2, <1>3, <1>4, <1>7, <1>8, <1>9, PaymentsAssumption DEF c, R

\* No two payees win on two nodes unless the ranked masternodes are split
\* exactly in halves.
LEMMA WinnersAgree ==
    ASSUME Inv, NEW n \in Node, NEW m \in Node, NEW h \in Height,
           h >= tip[n], h >= tip[m], ~SignedTwice(h), ~EvenlySplit(h),
           NEW p \in Winners(blocks[n][h]), NEW q \in Winners(blocks[m][h])
    PROVE  p = q
<1> SUFFICES ASSUME p # q PROVE FALSE
  OBVIOUS
<1> DEFINE A == RankedFor(h, p)
           B == RankedFor(h, q)
<1>1. /\ p \in Payee /\ IsFiniteSet(A) /\ Cardinality(A) \in Nat
      /\ Cardinality(A) >= SIGNATURES_REQUIRED
  BY WinnerHasRanked
<1>2. /\ q \in Payee /\ IsFiniteSet(B) /\ Cardinality(B) \in Nat
      /\ Cardinality(B) >= SIGNATURES_REQUIRED
  BY WinnerHasRanked
<1>3. A \cap B = {}
  <2> SUFFICES ASSUME NEW k \in A, k \in B PROVE FALSE
    OBVIOUS
  <2> DEFINE v == [mn |-> k, height |-> h, payee |-> p]
             w == [mn |-> k, height |-> h, payee |-> q]
  <2>1. v \in signed /\ w \in signed
    BY DEF RankedFor
  <2>2. v.payee # w.payee /\ v.mn = w.mn /\ v.height = h /\ w.height = h
    OBVIOUS
  <2> HIDE DEF v, w
  <2>3. v # w
    BY <2>2
  <2> QED
    BY <2>1, <2>2, <2>3 DEF SignedTwice
<1>4. /\ A \cup B \subseteq Ranked[h] /\ IsFiniteSet(Ranked[h])
      /\ Cardinality(Ranked[h]) <= 2 * SIGNATURES_REQUIRED
  BY RankedAssumption DEF RankedFor
<1> HIDE DEF A, B
<1>5. Cardinality(A \cup B) <= Cardinality(Ranked[h]) /\ Cardinality(Ranked[h]) \in Nat
  BY <1>4, FS_Subset, FS_CardinalityType
<1>6. Cardinality(A \cup B) = Cardinality(A) + Cardinality(B)
  BY <1>1, <1>2, <1>3, FS_Union, FS_EmptySet
<1>7. Cardinality(A) = SIGNATURES_REQUIRED /\ Cardinality(B) = SIGNATURES_REQUIRED
  BY <1>1, <1>2, <1>4, <1>5, <1>6, PaymentsAssumption
<1> QED
  BY <1>1, <1>2, <1>7 DEF EvenlySplit, A, B

\* As long as no masternode signs twice for a coming height and its ranked
\* masternodes do not split exactly in halves, any two nodes can accept the
\* same payee, whatever votes reached each of them.
THEOREM PayeeAgreement == Spec => []NodesCanAgree
<1>1. ASSUME Inv PROVE NodesCanAgree
  <2> SUFFICES ASSUME NEW n \in Node, NEW m \in Node, NEW h \in Height,
                      h >= tip[n], h >= tip[m], ~SignedTwice(h), ~EvenlySplit(h)
               PROVE  \E paid \in SUBSET Payee :
                          /\ Cardinality(paid) <= 1
                          /\ IsTransactionValid(blocks[n][h], paid)
                          /\ IsTransactionValid(blocks[m][h], paid)
    BY DEF NodesCanAgree
  <2>1. ASSUME NEW p \in Winners(blocks[n][h]) \cup Winners(blocks[m][h])
        PROVE  /\ {p} \in SUBSET Payee /\ Cardinality({p}) <= 1
               /\ Winners(blocks[n][h]) \subseteq {p} /\ Winners(blocks[m][h]) \subseteq {p}
    <3>1. p \in Payee
      BY <1>1, <2>1, WinnerHasRanked
    <3>2. Winners(blocks[n][h]) \subseteq {p} /\ Winners(blocks[m][h]) \subseteq {p}
      BY <1>1, <2>1, WinnersAgree
    <3>3. Cardinality({p}) = 1
      BY FS_Singleton
    <3> QED
      BY <3>1, <3>2, <3>3
  <2>2. CASE Winners(blocks[n][h]) \cup Winners(blocks[m][h]) = {}
    <3>1. Cardinality({}) = 0
      BY FS_EmptySet
    <3> QED
      BY <2>2, <3>1 DEF IsTransactionValid
  <2>3. CASE Winners(blocks[n][h]) \cup Winners(blocks[m][h]) # {}
    <3>1. PICK p \in Winners(blocks[n][h]) \cup Winners(blocks[m][h]) : TRUE
      BY <2>3
    <3> QED
      <4>1. /\ {p} \in SUBSET Payee /\ Cardinality({p}) <= 1
            /\ Winners(blocks[n][h]) \subseteq {p} /\ Winners(blocks[m][h]) \subseteq {p}
        BY <2>1, <3>1
      <4>2. IsTransactionValid(blocks[n][h], {p}) /\ IsTransactionValid(blocks[m][h], {p})
        BY <4>1 DEF IsTransactionValid
      <4> QED
        BY <4>1, <4>2
  <2> QED
    BY <2>2, <2>3
<1> QED
  BY <1>1, InvAlways, PTL

WinnersKept ==
    \A n \in Node, h \in Height :
        \/ Winners(blocks[n][h]) \subseteq Winners(blocks'[n][h])
        \/ tip[n] > h + StorageLimit
        \/ restarts' # restarts

\* Counting a vote on one node.
LEMMA CountKeepsWinners ==
    ASSUME Inv, NEW n \in Node, NEW v \in Vote, Count(n, v)
    PROVE  WinnersKept
<1>1. v.height \in Height /\ blocks \in BlocksType
  BY InvTypes DEF Vote
<1>2. blocks' = [blocks EXCEPT ![n][v.height] = AddPayee(blocks[n][v.height], v)]
  BY DEF Count
<1>3. Winners(blocks[n][v.height]) \subseteq Winners(AddPayee(blocks[n][v.height], v))
  <2>1. blocks[n][v.height] \in Vec /\ PayeesDiffer(blocks[n][v.height])
    BY <1>1, InvTypes DEF Inv, BlocksOK, VecOK
  <2> QED
    BY <2>1, AddPayeeKeepsWinners
<1>4. ASSUME NEW m \in Node, NEW h \in Height
      PROVE  Winners(blocks[m][h]) \subseteq Winners(blocks'[m][h])
  <2>1. CASE m = n /\ h = v.height
    <3>1. blocks'[m][h] = AddPayee(blocks[n][v.height], v)
      BY <1>1, <1>2, <2>1 DEF BlocksType
    <3> QED
      BY <1>3, <2>1, <3>1
  <2>2. CASE ~(m = n /\ h = v.height)
    <3>1. blocks'[m][h] = blocks[m][h]
      BY <1>1, <1>2, <2>2 DEF BlocksType
    <3> QED
      BY <3>1
  <2> QED
    BY <2>1, <2>2
<1> QED
  BY <1>4 DEF WinnersKept

\* A payee that has enough votes keeps them until its height expires or the
\* node restarts: no vote that arrives later takes the payment away again.
THEOREM WinnersStayWinners == Spec => WinnersStay
<1>1. ASSUME Inv, [Next]_vars PROVE [WinnersKept]_vars
  <2>1. CASE blocks' = blocks
    BY <2>1 DEF WinnersKept
  <2>2. ASSUME NEW n \in Node, NEW v \in signed, ReceiveVote(n, v) PROVE WinnersKept \/ blocks' = blocks
    <3>1. v \in Vote
      BY <1>1 DEF Inv, TypeOK
    <3>2. Count(n, v) \/ blocks' = blocks
      BY <2>2 DEF ReceiveVote
    <3> QED
      BY <1>1, <3>1, <3>2, CountKeepsWinners
  <2>3. ASSUME NEW n \in Node, NEW h \in Height, NEW p \in Payee, TipAndVote(n, h, p)
        PROVE  WinnersKept \/ blocks' = blocks
    <3> DEFINE v == [mn |-> SelfMN[n], height |-> h + AHEAD, payee |-> p]
    <3>1. v \in Vote
      BY <2>3 DEF TipAndVote, Voting, IsMasternode, Vote
    <3>2. Count(n, v) \/ blocks' = blocks
      BY <2>3 DEF TipAndVote
    <3> HIDE DEF v
    <3> QED
      BY <1>1, <3>1, <3>2, CountKeepsWinners
  <2>4. ASSUME NEW n \in Node, CheckAndRemove(n) PROVE WinnersKept
    <3> DEFINE gone == {h \in Height : Old(n, h) /\ \E v \in Vote : v.height = h /\ Known(n, v)}
    <3>1. blocks' = [blocks EXCEPT ![n] = [h \in Height |-> IF h \in gone THEN <<>> ELSE @[h]]]
      BY <2>4 DEF CheckAndRemove
    <3>2. \A h \in gone : tip[n] > h + StorageLimit
      BY DEF Old
    <3> HIDE DEF gone
    <3>3. ASSUME NEW m \in Node, NEW h \in Height, ~(tip[m] > h + StorageLimit)
          PROVE  blocks'[m][h] = blocks[m][h]
      BY <1>1, <3>1, <3>2, <3>3, InvTypes DEF BlocksType
    <3> QED
      BY <3>3 DEF WinnersKept
  <2>5. ASSUME NEW n \in Node, Restart(n) PROVE WinnersKept
    <3>1. restarts' = restarts + 1 /\ restarts \in Nat
      BY <1>1, <2>5, PaymentsAssumption DEF Restart, Inv, TypeOK
    <3> QED
      BY <3>1 DEF WinnersKept
  <2>6. ASSUME NEW v \in Vote, OtherVotes(v) PROVE blocks' = blocks
    BY <2>6 DEF OtherVotes
  <2>7. ASSUME NEW n \in Node, NEW h \in Height, TipOnly(n, h) PROVE blocks' = blocks
    BY <2>7 DEF TipOnly
  <2>8. ASSUME NEW n \in Node, NEW m \in MN, ListChanges(n, m) PROVE blocks' = blocks
    BY <2>8 DEF ListChanges
  <2> QED
    BY <1>1, <2>1, <2>2, <2>3, <2>4, <2>5, <2>6, <2>7, <2>8 DEF Next, vars
<1>2. Spec => [][WinnersKept]_vars
  BY <1>1, InvAlways, PTL DEF Spec
<1> QED
  BY <1>2 DEF WinnersStay, WinnersKept
=============================================================================
