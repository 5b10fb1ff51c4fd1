CONSTANTS
    Block <- RelayBlock
    Genesis = "G"
    NoBlock = NoBlock
    hashPrevBlock <- RelayPrev
    nHeight <- TreeHeight
    nChainTrust <- TreeTrust
    Ancestors <- TreeAncestors
    vtx <- RelayVtx
    Tx <- RelayTx
    vin <- RelayVin
    nOut <- RelayNOut
    CoinStake = {"s"}
    kernel <- RelayKernel
    nValueOut <- OneCoin
    ProofOfWorkReward <- FlatReward
    nCoinbaseMaturity = 1
    nCoinCheckHeight = 9
    BadBlock = {"D2"}
    NonStandard = {"n"}
    WalletTx = {"u1"}
    LargeTx = {"l"}
    MAX_ORPHAN_TRANSACTIONS = 2
    MaxCrash = 1
    MaxFault = 1
SPECIFICATION RelaySpec
CHECK_DEADLOCK FALSE
INVARIANTS NextTxMatchesPool PoolNotInChain IndexMatchesOrphans
PROPERTIES
    ReorganizeLeavesNoConflict ReorganizeLosesNothing OnlyReorganizeOrphansInputs
    HandlerLeavesNoneReady OrphansAreKept
