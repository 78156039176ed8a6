SPECIFICATION Spec
CONSTANTS
    SeqCount = 32
    HistorySize = 8
    BitsPerWord = 8
    HeaderWords = 1
    MaxChSequence = 16
    Channels = {0}
    InitSeq <- MCInitSeq
    Sizes = {1}
    BunchHeaderSize = 1
    PacketHeaderSize = 1
    PacketMaxSize = 5
    ReliableBuffer = 4
    MaxUnits <- TwoUnitsOneWay
    MaxPackets <- ThreeAndTwo
    MaxPending = 2
INVARIANTS
    TypeOK
    InOrderDelivery
    NoBunchLost
    AckedWasDispatched
PROPERTIES
    ImplementsReliableChannel
CHECK_DEADLOCK FALSE
