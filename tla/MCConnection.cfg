SPECIFICATION FairSpec
CONSTANTS
    Files = {1, 2, 3, 4}
    Content <- MCContent
    Readable = {1, 2}
    CachedEmpty = {4}
    MaxLine = 2
    RioSize = 3
    SocketSize = 6
INVARIANTS
    TypeOK
PROPERTIES
    ImplementsExchange
    WorkerReturns
