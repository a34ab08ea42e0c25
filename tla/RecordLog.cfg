SPECIFICATION FairSpec
CONSTANTS
    small = small
    large = large
    Data = {small, large}
    DataSize <- MCDataSize
    HeaderLen = 3
    CrcLen = 1
    MaxDataLen = 2
    Cuts <- MCCuts
    StructuralCuts <- MCStructuralCuts
    MaxTxid = 20
    MaxSize = 100
    MaxListedId = 20
    CallerChecksReport = TRUE
    DropsDirtyPages = FALSE
    ZeroTails = TRUE
    MaxAppends = 3
    MaxFaults = 3
    MaxSegs = 3
INVARIANTS Openable FsyncedSurvives AppendedRecoverable RefsAccurate HandleInSync TxidsContiguous
PROPERTIES PoisonedWritesNothing AppendOnly ComesBack ImplementsAbstractLog
