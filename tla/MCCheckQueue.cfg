CONSTANTS
    w1 = w1
    w2 = w2
    m = m
    Worker <- TwoWorkers
    master = m
    nBatchSize = 2
    Batch <- SmallBatches
    MaxAdd = 2
SPECIFICATION FairSpec
INVARIANT RoundStartsClean
PROPERTIES WaitReturnsConjunction WaitReturns
