SPECIFICATION FairSpec
CONSTANTS
    f1 = f1
    f2 = f2
    g = g
    h = h
    co = co
    cd = cd
    p1 = p1
    p2 = p2
    NoJob = NoJob
    NumWorkers = 2
    Posters <- MCPosters
    Functions <- MCFunctions
    Coroutines <- MCCoroutines
    PinnedTo <- MCPinnedTo
    Script <- MCScript
    Body <- MCBody
INVARIANTS
    TypeOK
    PendingIsQueued
    NoLostWakeup
    ResumedAfterChildren
CHECK_DEADLOCK FALSE
PROPERTIES
    SerialExecution
    EveryJobIsDone
    WorkersExit
