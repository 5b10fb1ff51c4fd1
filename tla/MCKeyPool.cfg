CONSTANTS
    miner = miner
    send = send
    Holder <- MCHolder
    nKeypool = 1
    MaxKey = 6
    MaxCrash = 1
    fEncrypt = TRUE
SYMMETRY HolderSymmetry
SPECIFICATION Spec
CHECK_DEADLOCK FALSE
INVARIANTS HandedOutOnce PoolAccounted KeysAreOnDisk
