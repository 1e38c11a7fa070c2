SPECIFICATION FairSpec
CONSTANTS
    d1 = d1  d2 = d2  v1 = v1  c1 = c1
    Deployment <- TwoDeployments
    Viewer <- OneViewer
    Conn <- OneConn
    NoPage = NoPage  NoConn = NoConn  Failed = Failed
    Sizes <- TwoSizes
    MarkSize = 1
    MaxBytes = 2
    MaxLine = 1
    Buffer = 1
    Link <- BackLink
    MaxMoves = 2
INVARIANTS LogTypeOK Numbered NothingTwice
PROPERTIES ImplementsFeed PageCatchesUp
CHECK_DEADLOCK FALSE
