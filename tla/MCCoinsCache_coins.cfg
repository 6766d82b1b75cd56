SPECIFICATION Spec
CONSTANTS
    g = g  a1 = a1  a2 = a2  a3 = a3  b2 = b2  b3 = b3  x3 = x3
    ca1 = ca1  ca2 = ca2  ca3 = ca3  cb2 = cb2  cb3 = cb3
    t1 = t1  t2 = t2  t3 = t3  t4 = t4  bad = bad
    Block = {g, a1, a2, a3, b2, b3, x3}
    Genesis = g
    TxId = {ca1, ca2, ca3, cb2, cb3, t1, t2, t3, t4, bad}
    Parent <- Parents
    Height <- Heights
    Txs <- Transactions
    Below <- AllBelow
    Inputs <- Spends
    NOuts <- Outputs
INVARIANTS
    TipMatchesChain
    
    
    NoSurprise
    UsageIsExact
PROPERTIES
    ImplementsUTXOSet
