CONSTANTS
    Block <- WalletBlock
    Genesis = "G"
    NoBlock = NoBlock
    hashPrevBlock <- WalletPrev
    nHeight <- TreeHeight
    nChainTrust <- TreeTrust
    Ancestors <- TreeAncestors
    vtx <- WalletVtx
    Tx <- ForkTx
    WalletTx = {}
    vin <- WalletVin
    nOut <- WalletNOut
    CoinStake = {"s"}
    kernel <- WalletKernel
    nValueOut <- OneCoin
    ProofOfWorkReward <- FlatReward
    nCoinbaseMaturity = 1
    nCoinCheckHeight = 9
    BadBlock = {"B3"}
    NonStandard = {}
    MineOut <- WalletMine
    Sent = {"t2", "d"}
    nMaturityMargin = 0
    fRepair = TRUE
    MaxCrash = 1
    MaxFault = 1
SPECIFICATION WalletSpec
CHECK_DEADLOCK FALSE
INVARIANTS WalletBlocksMatchChain AvailableIsUnspentInChain StakeIsRefunded
PROPERTY RepairsSpent
