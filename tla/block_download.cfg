SPECIFICATION FairSpec
CONSTANTS
    NULL = NULL
    g = g
    a1 = a1
    a2 = a2
    b2 = b2
    b3 = b3
    b4 = b4
    p1 = p1
    p2 = p2
    Peers = {p1, p2}
    Good = {p1}
    Preferred = {p1, p2}
    Holds <- MCHolds
    Blocks = {g, a1, a2, b2, b3, b4}
    Genesis = g
    pprev <- MCPprev
    Ancestors <- MCAncestors
    nHeight <- MCnHeight
    Refused = {b3}
    stake <- MCstake
    MAX_BLOCKS_IN_TRANSIT_PER_PEER = 2
    BLOCK_DOWNLOAD_WINDOW = 1
    MaxConnects = 2
INVARIANTS
    TypeOK
    InFlightAgree
    StallerOwes
    CommonLinked
    QueuedCovers
PROPERTIES
    CaughtUp
CHECK_DEADLOCK FALSE
