CONSTANTS
    MaxHeight = 5
    StartHeight = 4
    PowBlock = {0, 3}
    nBlockEstimate = 2
    nLimit = 2
    nInvMax = 1
    nKnownMax = 1
    MaxFault = 1
SPECIFICATION SyncSpec
INVARIANT AskedOnce
PROPERTIES ReachesLastPow AnnouncementAdvances
CHECK_DEADLOCK FALSE
