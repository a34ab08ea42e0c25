SPECIFICATION HarnessSpec
CONSTANTS
    Keys = {0, 1}
    v0 = v0
    v1 = v1
    v2 = v2
    v3 = v3
    v4 = v4
    Values = {v0, v1, v2, v3, v4}
    ValueFor <- MCValueFor
    Data <- MCData
    DataSize <- MCDataSize
    HeaderLen = 3
    CrcLen = 1
    MaxDataLen = 2
    Cuts <- MCCuts
    StructuralCuts <- MCStructuralCuts
    MaxTxid = 5
    MaxSize = 37
    MaxListedId = 20
    CallerChecksReport = FALSE
    DropsDirtyPages = FALSE
    ZeroTails = TRUE
    MaxAppends = 8
    MaxFaults = 3
    MaxSegs = 1
    Ops = 4
    DeleteEvery = 3
    Universe = 2
    Samples = {0, 5}
    MaxRuns = 3
INVARIANTS TypeOK StoreMatchesOracle AcceptsCleanRun VerdictExplained
CHECK_DEADLOCK FALSE
