SPECIFICATION CliSpec
CONSTANTS
    a = 1
    b = 2
    one = one
    long = long
    Keys = {1, 2}
    Values = {one, long}
    Data <- MCData
    DataSize <- MCDataSize
    HeaderLen = 3
    CrcLen = 1
    MaxDataLen = 2
    Cuts <- MCCuts
    StructuralCuts <- MCStructuralCuts
    MaxTxid = 20
    MaxSize = 100
    MaxListedId = 20
    CallerChecksReport = FALSE
    DropsDirtyPages = FALSE
    ZeroTails = FALSE
    MaxAppends = 2
    MaxFaults = 1
    MaxSegs = 2
    Limits = {0, 1, NoLimit}
    NoLimit = NoLimit
    Absent = Absent
    Other = Other
    Partial = Partial
    Mixed = Mixed
    Undecodable = Undecodable
    Froms <- MCFroms
INVARIANTS VerifyReportsDamage
