SPECIFICATION FairSpec
CONSTANTS
    cn1 = cn1
    cn2 = cn2
    th1 = th1
    Conns <- OneConn
    Threads = {th1}
    Recipients <- OneEach
    Sizes = {1, 2, 3, 6}
    PacketMaxSize = 4
    PacketHeaderSize = 1
    BunchHeaderSize = 1
    MaxBunchPayload = 5
    MaxMsgsPerBunch = 2
    CountSpace = 3
    BatchLimit = 2
    MaxMessages = 3
INVARIANTS
    TypeOK
    EachInOneBunch
    DispatchedInOrder
    ReleasedAfterUse

    
CHECK_DEADLOCK FALSE
