SPECIFICATION FairSpec
CONSTANTS
    p1 = p1  p2 = p2  p3 = p3
    Peer = {p1, p2, p3}
    Temporary = {p3}
    FirstNodes <- SomeConnected
    TICK_SECONDS = 1
    TIMEOUT_SECONDS = 1
    COOLDOWN_SECONDS = 1
    FEW_VOTES = 1
    MaxAge = 2
    MaxAttempt = 2
    MaxEvents = 2
INVARIANTS
    AskedOnce
    ListRequested
PROPERTIES
    SyncEnds
