-------------------------- MODULE MasternodePayments --------------------------
(***************************************************************************)
(* CMasternodePayments on several nodes: the votes of masternodes for the  *)
(* payee of a coming block, counted in the order they happen to arrive,    *)
(* and the payee a node puts into its own blocks and demands of others'.   *)
(* Nodes may be masternodes that vote themselves; the other masternodes    *)
(* are part of the surroundings.  A relayed vote may reach a node late,    *)
(* again, or never.                                                        *)
(***************************************************************************)
EXTENDS Naturals, Sequences, FiniteSets

CONSTANTS
    Node,                 \* nodes whose state is kept
    MN,                   \* masternodes
    NoMN,                 \* not a masternode
    SelfMN,               \* the masternode a node runs, or NoMN
    Payee,
    StartHeight,          \* the tip when the nodes start
    MaxHeight,            \* bound of the heights voted for
    Ranked,               \* the top MNPAYMENTS_SIGNATURES_TOTAL of a height
    SIGNATURES_REQUIRED,  \* MNPAYMENTS_SIGNATURES_REQUIRED
    AHEAD,                \* a new tip h makes masternodes vote for h + AHEAD
    FUTURE,               \* votes further than this above the tip are refused
    StorageLimit,         \* GetStorageLimit()
    Changing,             \* nodes, with the masternode whose list entry changes
    MaxSigned,            \* bound of the number of votes signed
    Restarting,           \* the nodes that restart,
    MaxRestarts           \* at most so many times together

Height == 1..MaxHeight
Vote == [mn : MN, height : Height, payee : Payee]

ASSUME PaymentsAssumption ==
    /\ NoMN \notin MN /\ SelfMN \in [Node -> MN \cup {NoMN}]
    /\ Ranked \in [Height -> SUBSET MN] /\ Changing \subseteq Node \X MN
    /\ Restarting \subseteq Node
    /\ StartHeight \in Height
    /\ {MaxHeight, AHEAD, FUTURE, StorageLimit, MaxSigned, MaxRestarts} \subseteq Nat
    /\ SIGNATURES_REQUIRED \in Nat
    /\ SIGNATURES_REQUIRED > 0 /\ AHEAD > 0 /\ FUTURE >= AHEAD

\* MNPAYMENTS_SIGNATURES_TOTAL is twice MNPAYMENTS_SIGNATURES_REQUIRED.
ASSUME RankedAssumption ==
    \A h \in Height : IsFiniteSet(Ranked[h]) /\ Cardinality(Ranked[h]) <= 2 * SIGNATURES_REQUIRED

VARIABLES
    tip,        \* pCurrentBlockIndex->nHeight
    votes,      \* mapMasternodePaymentVotes: none, seen (not verified), verified
    blocks,     \* mapMasternodeBlocks: vecPayees of each height, in order
    lastVote,   \* mapMasternodesLastVote, 0 for none
    info,       \* mnodeman's entry of each masternode
    signed,     \* the votes relayed so far
    restarts    \* number of restarts

vars == <<tip, votes, blocks, lastVote, info, signed, restarts>>

NoVotes == [v \in Vote |-> "none"]
NoBlocks == [h \in Height |-> <<>>]

Init ==
    /\ tip = [n \in Node |-> StartHeight]
    /\ votes = [n \in Node |-> NoVotes]
    /\ blocks = [n \in Node |-> NoBlocks]
    /\ lastVote = [n \in Node |-> [m \in MN |-> 0]]
    /\ info = [n \in Node |-> [m \in MN |-> "ok"]]
    /\ signed = {} /\ restarts = 0

-----------------------------------------------------------------------------
(* CMasternodeBlockPayees: a sequence of payees with their vote hashes.    *)

Index(vec, p) == {i \in DOMAIN vec : vec[i].payee = p}

\* mutant
AddPayeeAgain(vec, v) == Append(vec, [payee |-> v.payee, hashes |-> <<v>>])

AddPayee(vec, v) ==
    IF Index(vec, v.payee) = {}
    THEN Append(vec, [payee |-> v.payee, hashes |-> <<v>>])
    ELSE [i \in DOMAIN vec |-> IF vec[i].payee = v.payee
                               THEN [vec[i] EXCEPT !.hashes = Append(@, v)]
                               ELSE vec[i]]

VoteCount(vec, i) == Len(vec[i].hashes)

GetFirstPayee(vec) == vec[1].payee      \* mutant

\* The first of the payees with the most votes.
GetBestPayee(vec) ==
    LET best == CHOOSE i \in DOMAIN vec :
                    \A j \in DOMAIN vec : \/ VoteCount(vec, j) < VoteCount(vec, i)
                                          \/ VoteCount(vec, j) = VoteCount(vec, i) /\ j >= i
    IN  vec[best].payee

Winners(vec) ==
    {vec[i].payee : i \in {j \in DOMAIN vec : VoteCount(vec, j) >= SIGNATURES_REQUIRED}}

\* IsTransactionValid for a block that pays the masternode share to paid, a
\* set of at most one payee.
IsTransactionValid(vec, paid) == Winners(vec) = {} \/ paid \cap Winners(vec) # {}

\* FillBlockPayee: whom a block built by the node pays.
FillBlockPayee(vec) == IF vec = <<>> THEN {} ELSE {GetBestPayee(vec)}

-----------------------------------------------------------------------------
(* The handlers.                                                           *)

\* AddPaymentVote on node n.
Verified(n, v) == votes[n][v] = "verified"

Count(n, v) ==
    /\ votes' = [votes EXCEPT ![n][v] = "verified"]
    /\ blocks' = [blocks EXCEPT ![n][v.height] = AddPayee(@, v)]

IsMasternode(n) == SelfMN[n] \in MN

\* CMasternodePaymentVote::IsValid.  Old votes are not ranked by a client.
IsValid(n, v) ==
    /\ info[n][v.mn] # "unknown"
    /\ \/ ~IsMasternode(n) /\ v.height < tip[n]
       \/ v.mn \in Ranked[v.height]

InRange(n, v) == v.height + StorageLimit >= tip[n] /\ v.height <= tip[n] + FUTURE

\* Only the last height a masternode voted for is remembered.
CanVote(n, v) == lastVote[n][v.mn] # v.height

KnownNever(n, v) == FALSE      \* mutant

\* mapMasternodePaymentVotes.count(nHash)
Known(n, v) == votes[n][v] # "none"

\* MASTERNODEPAYMENTVOTE: the vote is remembered as seen before anything is
\* checked, and the masternode as having voted before its signature is.
ReceiveVote(n, v) ==
    /\ v \in signed
    /\ ~Known(n, v)
    /\ IF ~InRange(n, v) \/ ~IsValid(n, v) \/ ~CanVote(n, v)
       THEN /\ votes' = [votes EXCEPT ![n][v] = "seen"]
            /\ UNCHANGED <<blocks, lastVote>>
       ELSE /\ lastVote' = [lastVote EXCEPT ![n][v.mn] = v.height]
            /\ IF info[n][v.mn] = "ok"
               THEN Count(n, v)
               ELSE votes' = [votes EXCEPT ![n][v] = "seen"] /\ UNCHANGED blocks
    /\ UNCHANGED <<tip, info, signed, restarts>>

Sign(v) == Cardinality(signed) < MaxSigned /\ signed' = signed \cup {v}

\* UpdatedBlockTip and ProcessBlock: the tip advances, or another block of the
\* same height replaces it; a ranked masternode votes for the payee its own
\* queue gives, without looking at what it signed before.
NewTip(n, h) == h \in Height /\ h \in {tip[n], tip[n] + 1}

Voting(n, h) ==
    IsMasternode(n) /\ h + AHEAD \in Height /\ SelfMN[n] \in Ranked[h + AHEAD]

TipOnly(n, h) ==
    /\ NewTip(n, h) /\ ~Voting(n, h)
    /\ tip' = [tip EXCEPT ![n] = h]
    /\ UNCHANGED <<votes, blocks, lastVote, info, signed, restarts>>

TipAndVote(n, h, p) ==
    LET v == [mn |-> SelfMN[n], height |-> h + AHEAD, payee |-> p] IN
    /\ NewTip(n, h) /\ Voting(n, h)
    /\ tip' = [tip EXCEPT ![n] = h]
    /\ IF Verified(n, v)
       THEN UNCHANGED <<votes, blocks, signed>>
       ELSE Count(n, v) /\ Sign(v)
    /\ UNCHANGED <<lastVote, info, restarts>>

\* Another masternode votes; some take themselves for ranked when they are not.
OtherVotes(v) ==
    /\ v.mn \notin {SelfMN[n] : n \in Node}
    /\ v \notin signed /\ Sign(v)
    /\ UNCHANGED <<tip, votes, blocks, lastVote, info, restarts>>

OldEarly(n, h) == tip[n] >= h + StorageLimit      \* mutant

Old(n, h) == tip[n] > h + StorageLimit

CheckAndRemove(n) ==
    LET gone == {h \in Height : Old(n, h) /\ \E v \in Vote : v.height = h /\ Known(n, v)}
    IN  /\ gone # {}
        /\ votes' = [votes EXCEPT ![n] = [v \in Vote |->
                                IF v.height \in gone THEN "none" ELSE @[v]]]
        /\ blocks' = [blocks EXCEPT ![n] = [h \in Height |->
                                IF h \in gone THEN <<>> ELSE @[h]]]
        /\ UNCHANGED <<tip, lastVote, info, signed, restarts>>

\* The masternode list gains, loses or updates an entry.
ListChanges(n, m) ==
    /\ <<n, m>> \in Changing
    /\ \E k \in {"ok", "outdated", "unknown"} \ {info[n][m]} :
           info' = [info EXCEPT ![n][m] = k]
    /\ UNCHANGED <<tip, votes, blocks, lastVote, signed, restarts>>

\* A clean stop dumps both maps and the next start loads them; after a crash
\* the file is from before every vote held.  The last votes are never saved.
Restart(n) ==
    /\ n \in Restarting
    /\ restarts < MaxRestarts /\ restarts' = restarts + 1
    /\ \/ UNCHANGED <<votes, blocks>>
       \/ /\ votes' = [votes EXCEPT ![n] = NoVotes]
          /\ blocks' = [blocks EXCEPT ![n] = NoBlocks]
    /\ lastVote' = [lastVote EXCEPT ![n] = [m \in MN |-> 0]]
    /\ UNCHANGED <<tip, info, signed>>

Next ==
    \/ \E v \in Vote : OtherVotes(v)
    \/ \E n \in Node :
        \/ \E v \in signed : ReceiveVote(n, v)
        \/ \E h \in Height : TipOnly(n, h) \/ \E p \in Payee : TipAndVote(n, h, p)
        \/ \E m \in MN : ListChanges(n, m)
        \/ CheckAndRemove(n) \/ Restart(n)

Spec == Init /\ [][Next]_vars

-----------------------------------------------------------------------------
(* Properties.                                                             *)

TypeOK ==
    /\ tip \in [Node -> Height]
    /\ votes \in [Node -> [Vote -> {"none", "seen", "verified"}]]
    /\ blocks \in [Node -> [Height -> Seq([payee : Payee, hashes : Seq(Vote)])]]
    /\ lastVote \in [Node -> [MN -> 0..MaxHeight]]
    /\ info \in [Node -> [MN -> {"ok", "outdated", "unknown"}]]
    /\ signed \subseteq Vote /\ restarts \in 0..MaxRestarts

Entries(vec) == {e \in (DOMAIN vec) \X (1..MaxSigned) : e[2] \in DOMAIN vec[e[1]].hashes}

VerifiedFor(n, h) == {v \in Vote : v.height = h /\ Verified(n, v)}

\* The two maps agree over arrivals, expiry and restarts: at each height the
\* payees carry exactly the verified votes, each once and under its own payee.
BlocksMatchVotes ==
    \A n \in Node, h \in Height :
        LET vec == blocks[n][h] IN
        /\ \A e \in Entries(vec) : vec[e[1]].hashes[e[2]].payee = vec[e[1]].payee
        /\ {vec[e[1]].hashes[e[2]] : e \in Entries(vec)} = VerifiedFor(n, h)
        /\ Cardinality(Entries(vec)) = Cardinality(VerifiedFor(n, h))
        /\ \A i, j \in DOMAIN vec : vec[i].payee = vec[j].payee => i = j

\* A node's own next block pays whom the node itself demands.
OwnBlockIsValid ==
    \A n \in Node, h \in Height :
        IsTransactionValid(blocks[n][h], FillBlockPayee(blocks[n][h]))

SignedTwice(h) ==
    \E v, w \in signed : v # w /\ v.mn = w.mn /\ v.height = h /\ w.height = h

RankedFor(h, p) == {m \in Ranked[h] : [mn |-> m, height |-> h, payee |-> p] \in signed}

\* The required signatures are just half of the ranked masternodes.
EvenlySplit(h) ==
    \E p, q \in Payee : /\ p # q
                        /\ Cardinality(RankedFor(h, p)) = SIGNATURES_REQUIRED
                        /\ Cardinality(RankedFor(h, q)) = SIGNATURES_REQUIRED

\* As long as no masternode signed twice for a height that is still to come
\* and its ranked masternodes are not split exactly in halves, some payee is
\* acceptable to both of any two nodes, whatever votes each has got: they can
\* build on the same chain.
NodesCanAgree ==
    \A n, m \in Node, h \in Height :
        h >= tip[n] /\ h >= tip[m] /\ ~SignedTwice(h) /\ ~EvenlySplit(h)
            => \E paid \in SUBSET Payee :
                    /\ Cardinality(paid) <= 1
                    /\ IsTransactionValid(blocks[n][h], paid)
                    /\ IsTransactionValid(blocks[m][h], paid)

\* A payee that has enough votes keeps them until its height expires or the
\* node restarts: no vote arriving later takes the payment away again.
WinnersStay ==
    [][\A n \in Node, h \in Height :
          \/ Winners(blocks[n][h]) \subseteq Winners(blocks'[n][h])
          \/ tip[n] > h + StorageLimit
          \/ restarts' # restarts]_vars
=============================================================================
