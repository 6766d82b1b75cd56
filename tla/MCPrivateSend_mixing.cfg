SPECIFICATION FairSpec
CONSTANTS
    c1 = c1  c2 = c2
    Client = {c1, c2}
    PoolMax = 2
    QUEUE_TIMEOUT = 1
    SIGNING_TIMEOUT = 1
    LAG = 1
    RESET = 1
    Key = {1, 2}
    Session = {1}
    nPrivateSendRounds = 1
    Slow = {c1}
    Active = {c1, c2}
    MaxEvents = 1
PROPERTIES
    
    CoinsReleased
    SessionEnds
