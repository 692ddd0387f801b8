SPECIFICATION SpecVoting
CONSTANTS
    m1 = m1
    m2 = m2
    w = w
    t1 = t1
    t2 = t2
    p = p
    q = q
    Nodes = {m1, w}
    Masternodes = {m1, m2}
    Steady = {m1}
    Tx = {t1, t2}
    Outpoints = {p, q}
    Inputs <- MCInputs
    Heights = {5}
    HeightOf <- MCHeightOf
    Quorum <- MCQuorum
    SWIFTTX_SIGNATURES_REQUIRED = 2
INVARIANTS
    NoTwoLocks
CHECK_DEADLOCK FALSE
