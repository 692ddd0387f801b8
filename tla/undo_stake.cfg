SPECIFICATION BlocksSpec
CONSTANTS
    NULL = NULL
    s = s
    w = w
    x = x
    y = y
    z = z
    Txids = {s, w, x, y, z}
    Coins <- MCCoins
    Pruned <- MCPruned
    Blocks = {0, 1, 2, 3}
    Genesis = 0
    Work <- MCWork
    Vout <- MCVout
    CoinBases = {x}
    CoinStakes = {s}
INVARIANTS
    UndoClean
CHECK_DEADLOCK FALSE
