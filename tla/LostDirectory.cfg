SPECIFICATION CompactSpec
CONSTANTS
    short = short
    long = long
    Keys = {1, 2, 3}
    Values = {short, long}
    Data <- MCData
    DataSize <- MCDataSize
    HeaderLen = 3
    CrcLen = 1
    MaxDataLen = 2
    Cuts <- MCCuts
    StructuralCuts <- MCStructuralCuts
    MaxTxid = 20
    MaxSize = 100
    MaxListedId = 20
    CallerChecksReport = FALSE
    DropsDirtyPages = TRUE
    ZeroTails = FALSE
    MaxAppends = 5
    MaxFaults = 1
    MaxSegs = 1
CHECK_DEADLOCK FALSE
INVARIANTS CompactedSurvives
