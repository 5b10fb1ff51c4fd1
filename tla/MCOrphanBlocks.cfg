CONSTANTS
    Block <- NodeBlock
    Genesis = "G"
    NoBlock = NoBlock
    hashPrevBlock <- NodePrev
    nHeight <- TreeHeight
    nChainTrust <- TreeTrust
    Ancestors <- TreeAncestors
    vtx <- NodeVtx
    Tx <- NodeTx
    vin <- NodeVin
    nOut <- NodeNOut
    CoinStake = {"sa", "sb", "sd"}
    kernel <- NodeKernel
    nStakeTime <- NodeStakeTime
    nValueOut <- OneCoin
    ProofOfWorkReward <- FlatReward
    nCoinbaseMaturity = 1
    nCoinCheckHeight = 3
    BadBlock = {"F2"}
    MaxCrash = 1
    MaxFault = 1
SPECIFICATION NodeFairSpec
INVARIANTS HeldUntilAccepted OrphansNotIndexed NoStaleStake NoBetterValidChain
PROPERTY Converges
CHECK_DEADLOCK FALSE
