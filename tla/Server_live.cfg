SPECIFICATION FairSpec
CONSTANTS
    k1 = k1
    io1 = io1
    io2 = io2
    Keys <- OneKey
    NoKey = NoKey
    IoThreads <- OneIo
    Tick = Tick
    NumWorkers = 1
    MaxPlayer = 1
    MaxConns = 2
    MaxQueue = 1
PROPERTIES
    ClosedIsForgotten
