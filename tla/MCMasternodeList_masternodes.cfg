SPECIFICATION ListSpec
CONSTANTS
    m = m
    p1 = p1  p2 = p2
    MN = {m}
    Peer = {p1, p2}
    SigTimes = {1, 3}
    PingTimes = {1, 4}
    MIN_MNB = 3
    MIN_MNP = 1
    MNP_SLACK = 0
    EXPIRATION = 2
    NEW_START = 3
    BAN_MAX_SCORE = 1
    QUORUM_REQUIRED = 2
    RECOVERY_WAIT = 1
    RECOVERY_RETRY = 0
    MaxTime = 6
    MaxEvents = 2
SYMMETRY AnyPeers
PROPERTIES
    
    ExpiredNeedsNewStart
