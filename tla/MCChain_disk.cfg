CONSTANTS
    Block <- ForkBlock
    Genesis = "G"
    NoBlock = NoBlock
    hashPrevBlock <- ForkPrev
    nHeight <- TreeHeight
    nChainTrust <- TreeTrust
    Ancestors <- TreeAncestors
    vtx <- ForkVtx
    Tx <- ForkTx
    vin <- ForkVin
    nOut <- ForkNOut
    CoinStake = {"s7"}
    kernel <- ForkKernel
    nValueOut <- OneCoin
    ProofOfWorkReward <- EndingReward
    nCoinbaseMaturity = 1
    nCoinCheckHeight = 3
    BadBlock = {}
    MaxCrash = 2
    MaxFault = 1
SPECIFICATION Spec
INVARIANT BestBlockIsOnDisk
CHECK_DEADLOCK FALSE
