SPECIFICATION DataWalSpec
CONSTANTS
    a = 1
    b = 2
    one = one
    two = two
    long = long
    Keys = {1, 2}
    Values = {one, two, long}
    Data <- MCData
    DataSize <- MCDataSize
    HeaderLen = 3
    CrcLen = 1
    MaxDataLen = 2
    Cuts <- MCCuts
    StructuralCuts <- MCStructuralCuts
    MaxTxid = 20
    MaxSize = 100
    MaxListedId = 20
    CallerChecksReport = TRUE
    DropsDirtyPages = FALSE
    ZeroTails = FALSE
    MaxAppends = 3
    MaxFaults = 2
    MaxSegs = 2
INVARIANTS GetReturnsLatest ReopenAgrees KvReflectsDurable
