CONSTANTS
    Streams <- MCStreams
    YY_BUF_SIZE = 2
    YY_READ_BUF_SIZE = 3
SPECIFICATION FairScanner
INVARIANTS TypeOK BufferFits NoInternalError
PROPERTIES ImplementsRules ReachesEnd
CHECK_DEADLOCK FALSE
