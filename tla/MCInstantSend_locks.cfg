SPECIFICATION Spec
CONSTANTS
    t1 = t1  t2 = t2  n1 = n1
    m1 = m1  m2 = m2  m3 = m3
    NoTx = NoTx
    Tx = {t1, t2}
    LockRequests = {t1, t2}
    OutPoint = {1}
    Inputs <- OneInput
    MN = {m1, m2}
    SELF = m1
    Ranked <- AllRanked
    StableMN = {m1, m2}
    SIGNATURES_REQUIRED = 2
    nInstantSendKeepLock = 1
    ORPHAN_VOTE_SECONDS = 1
    OrphanRateSeconds = 2
    BlockFiltering = TRUE
    Toggles = {}
    MaxHeight = 3
    MaxTime = 0
    MaxReorg = 1
INVARIANTS
    VotedTxsAreCandidates
    LocksBackedByQuorums
    ConfirmedHeightsInChain
    
PROPERTIES
    LockKeptUntilBuried
