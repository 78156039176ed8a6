SPECIFICATION Spec
CONSTANTS
    SeqCount = 32
    HistorySize = 8
    BitsPerWord = 8
    HeaderWords = 1
    MaxChSequence = 16
    Channels = {0, 1}
    InitSeq <- MCInitSeq
    Sizes = {0, 1, 2, 5}
    BunchHeaderSize = 1
    PacketHeaderSize = 1
    PacketMaxSize = 5
    ReliableBuffer = 1
    MaxUnits <- TwoUnitsOneWay
    MaxPackets <- TwoAndOne
    MaxPending = 1
INVARIANTS
    NoBunchLost
    AccountedIsPacked
CHECK_DEADLOCK FALSE
