SPECIFICATION FairSpec
CONSTANTS
    t1 = t1  t2 = t2  n1 = n1
    m1 = m1  m2 = m2  m3 = m3
    NoTx = NoTx
    Tx = {t1, n1}
    LockRequests = {t1}
    OutPoint = {1}
    Inputs <- OneInput
    MN = {m1, m2}
    SELF = m3
    Ranked <- AllRanked
    StableMN = {m1}
    SIGNATURES_REQUIRED = 2
    nInstantSendKeepLock = 1
    ORPHAN_VOTE_SECONDS = 1
    OrphanRateSeconds = 2
    BlockFiltering = TRUE
    Toggles = {"spork2", "largework"}
    MaxHeight = 2
    MaxTime = 2
    MaxReorg = 0
PROPERTIES
    LocksReleased
