CONSTANTS
    Address <- ThreeAddresses
    Source <- TwoSources
    GetNewBucket <- SpreadNew
    GetTriedBucket <- SpreadTried
    NewBucket <- TwoNewBuckets
    TriedBucket <- OneTriedBucket
    ADDRMAN_NEW_BUCKET_SIZE = 1
    ADDRMAN_TRIED_BUCKET_SIZE = 1
    ADDRMAN_NEW_BUCKETS_PER_ADDRESS = 2
    ADDRMAN_TRIED_ENTRIES_INSPECT_ON_EVICT = 2
    ADDRMAN_GETADDR_MAX_PCT = 40
    ADDRMAN_GETADDR_MAX = 1
    Time = {1}
    MaxId = 5
SPECIFICATION Spec
INVARIANTS IndexesAgree TablesMatchEntries BucketsBounded
PROPERTY TriedNeverDeleted
