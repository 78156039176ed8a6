SPECIFICATION FairSpec
CONSTANTS
    io1 = io1
    io2 = io2
    e1 = e1
    e2 = e2
    IoThreads <- TwoIo
    Tick = Tick
    Events <- TwoEvents
    None = None
    WakeUp = WakeUp
    WindowSizes = {0, 2}
    MayDuplicate = TRUE
    MaxEntries = 2
    MaxErrors = 1
INVARIANTS
    TypeOK
    
    CopiesConserved
PROPERTIES
    
    LoopsEnd
CHECK_DEADLOCK FALSE
