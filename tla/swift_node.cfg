SPECIFICATION FairSpec
CONSTANTS
    m1 = m1
    m2 = m2
    w = w
    t1 = t1
    t2 = t2
    p = p
    q = q
    Nodes = {w}
    Masternodes = {m2}
    Steady = {}
    Tx = {t1, t2}
    Outpoints = {p, q}
    Inputs <- MCInputs
    Heights = {5}
    HeightOf <- MCHeightOf
    Quorum <- MCQuorum
    SWIFTTX_SIGNATURES_REQUIRED = 1
INVARIANTS
    TypeOK
    VoteCountedOnce
PROPERTIES
    LockReleased
