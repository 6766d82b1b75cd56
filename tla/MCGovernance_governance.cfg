SPECIFICATION Spec
CONSTANTS
    proposal = proposal  trigger = trigger
    m1 = m1  m2 = m2
    v1 = v1  v2 = v2  w = w
    NoMN = NoMN
    Obj = {proposal, trigger}
    MN = {m1, m2}
    Signer <- Signers
    Vote = {v1, v2, w}
    VoteOf <- Ballots
    Forged = {}
    MinQuorum = 1
    FirstList <- JustM1
    Leaving = {m1}
    MaxRequested = 1
    MaxEvents = 2
INVARIANTS
    RecordedIsLatest
    DepartedVotesFlagged
    WaitingVotesCounted
    
    
