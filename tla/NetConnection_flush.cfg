SPECIFICATION Spec
CONSTANTS
    SeqCount = 32
    HistorySize = 2
    BitsPerWord = 2
    HeaderWords = 1
    MaxChSequence = 16
    Channels = {0}
    InitSeq <- MCInitSeq
    Sizes = {1}
    BunchHeaderSize = 1
    PacketHeaderSize = 1
    PacketMaxSize = 5
    ReliableBuffer = 4
    MaxUnits <- OneUnitEach
    MaxPackets <- FourAndTwo
    MaxPending = 1
INVARIANTS
    NoBunchLost
    IdsAligned
    NoDoubleRetransmit
CHECK_DEADLOCK FALSE
