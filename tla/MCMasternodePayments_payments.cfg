SPECIFICATION Spec
CONSTANTS
    n1 = n1  n2 = n2
    m1 = m1  m2 = m2  m3 = m3
    p = p  q = q
    NoMN = NoMN
    Node = {n1, n2}
    MN = {m1, m2, m3}
    SelfMN <- OneMasternode
    Payee = {p, q}
    StartHeight = 1
    MaxHeight = 2
    Ranked <- MostRanked
    SIGNATURES_REQUIRED = 2
    AHEAD = 1
    FUTURE = 1
    StorageLimit = 0
    Changing <- ClientsView
    MaxSigned = 3
    Restarting = {n1}
    MaxRestarts = 1
SYMMETRY AnyPayees
INVARIANTS
    BlocksMatchVotes
    OwnBlockIsValid
    
PROPERTIES
    WinnersStay
