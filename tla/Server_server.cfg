SPECIFICATION Spec
CONSTANTS
    k1 = k1
    io1 = io1
    io2 = io2
    Keys <- OneKey
    NoKey = NoKey
    IoThreads <- OneIo
    Tick = Tick
    NumWorkers = 2
    MaxPlayer = 1
    MaxConns = 2
    MaxQueue = 1
INVARIANTS
    TypeOK
    TablesAgree
    Seating
    SeatedBeforeServed
    RemovedOnce
    Confined
PROPERTIES
    RouteKept
