---------------------------- MODULE MCCoinsCache ----------------------------
(* A small block tree for CoinsCache:                                      *)
(*     g - a1 - a2 - a3        (a3 has a chain of two spends)              *)
(*            \ b2 - b3        (b2 has a transaction of a2 again)          *)
(*                 a2 - x3     (x3 spends what a2 has spent)               *)
EXTENDS CoinsCache

CONSTANTS g, a1, a2, a3, b2, b3, x3, ca1, ca2, ca3, cb2, cb3, t1, t2, t3, t4, bad

Parents == [b \in Block \ {g} |->
    CASE b = a1 -> g [] b \in {a2, b2} -> a1 [] b \in {a3, x3} -> a2 [] b = b3 -> b2]

Heights == [b \in Block |->
    CASE b = g -> 0 [] b = a1 -> 1 [] b \in {a2, b2} -> 2 [] b \in {a3, b3, x3} -> 3]

Transactions == [b \in Block |->
    CASE b = g -> <<>>
      [] b = a1 -> <<ca1>>
      [] b = a2 -> <<ca2, t1>>
      [] b = a3 -> <<ca3, t2, t3>>
      [] b = b2 -> <<cb2, t1>>
      [] b = b3 -> <<cb3, t4>>
      [] b = x3 -> <<cb2, bad>>]

AllBelow == LET below[b \in Block] ==
                    IF b = g THEN {}
                    ELSE below[Parents[b]]
                           \cup {Transactions[b][i] : i \in 1..Len(Transactions[b])}
            IN  below

\* t1 spends both outputs of ca1; t2 one output of t1, t3 the rest; t4 spends
\* across two blocks.
Spends == [t \in TxId |->
    CASE t = t1 -> <<<<ca1, 1>>, <<ca1, 2>>>>
      [] t = t2 -> <<<<t1, 1>>>>
      [] t = t3 -> <<<<t2, 1>>, <<t1, 2>>>>
      [] t = t4 -> <<<<t1, 2>>, <<cb2, 1>>>>
      [] t = bad -> <<<<t1, 2>>, <<ca1, 1>>>>
      [] OTHER -> <<>>]

Outputs == [t \in TxId |-> IF t \in {ca1, t1} THEN 2 ELSE 1]
=============================================================================
