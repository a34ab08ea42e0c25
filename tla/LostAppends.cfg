SPECIFICATION Spec
CONSTANTS
    small = small
    large = large
    Data = {small}
    DataSize <- MCDataSize
    HeaderLen = 3
    CrcLen = 1
    MaxDataLen = 2
    Cuts <- MCCuts
    StructuralCuts <- MCStructuralCuts
    MaxTxid = 20
    MaxSize = 100
    MaxListedId = 20
    CallerChecksReport = FALSE
    DropsDirtyPages = FALSE
    ZeroTails = FALSE
    MaxAppends = 2
    MaxFaults = 1
    MaxSegs = 2
INVARIANTS FsyncedSurvives
