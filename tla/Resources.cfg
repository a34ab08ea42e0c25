SPECIFICATION ResourceSpec
CONSTANTS
    SegmentIds = {1, 2, 3, 4, 5}
    MaxCapacity = 3
    MaxCalls = 7
    Procs = {p1, p2, p3}
    Nobody = Nobody
INVARIANTS PoolHoldsMostRecent Exclusive HolderNamed NoStaleLock
