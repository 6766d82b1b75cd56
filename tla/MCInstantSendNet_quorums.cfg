SPECIFICATION Spec
CONSTANTS
    t1 = t1  t2 = t2
    m1 = m1  m2 = m2  m3 = m3  m4 = m4
    NoTx = NoTx
    Tx = {t1, t2}
    OutPoint = {1}
    Inputs <- OneInput
    Node = {m1, m2, m3, m4}
    MN = {m1, m2, m3, m4}
    Ranked <- AllRanked
    SIGNATURES_REQUIRED = 3
    MayRestart = {m1}
SYMMETRY Symmetry
CHECK_DEADLOCK FALSE
INVARIANTS
    VoteOncePerOutpoint
    OverlappingQuorumsAgree
