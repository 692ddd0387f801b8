SPECIFICATION FairSpec
CONSTANTS
    w1 = w1
    w2 = w2
    m = m
    c1 = c1
    c2 = c2
    c3 = c3
    c4 = c4
    Workers = {w1, w2}
    Master = m
    Checks = {c1, c2, c3, c4}
    FailSets <- MCFailSets
    nBatchSize = 2
INVARIANTS
    TypeOK
    FinishedBeforeReturn
    ReadyForNext
PROPERTIES
    PromiseKept
    WaitEnds
    QueueDrains
CHECK_DEADLOCK FALSE
