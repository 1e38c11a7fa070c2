SPECIFICATION FairSpec
CONSTANTS
    d1 = d1  d2 = d2  v1 = v1  c1 = c1
    Deployment <- OneDeployment
    Viewer <- OneViewer
    Conn <- OneConn
    NoPage = NoPage  NoConn = NoConn  Failed = Failed
    Sizes <- TwoSizes
    MarkSize = 1
    MaxBytes = 2
    MaxLine = 2
    Buffer = 1
    Link <- NoLinks
    MaxMoves = 1
PROPERTIES LogsEnd
CHECK_DEADLOCK FALSE
