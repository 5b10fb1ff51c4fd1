CONSTANTS
    MaxHeight = 6
    StartHeight = 6
    PowBlock = {0, 1}
    nBlockEstimate = 4
    nLimit = 3
    nInvMax = 2
    nKnownMax = 2
    MaxFault = 0
SPECIFICATION SyncSpec
INVARIANT NeverStalls
CHECK_DEADLOCK FALSE
