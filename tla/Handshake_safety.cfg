SPECIFICATION Spec
CONSTANTS
    IoThreads = {t1}
    CookieLifetime = 2
    InactivityTimeout = 1
    Buckets = 1
    ServerByte <- MCServerByte
    ClientByte <- MCClientByte
    Lossy = FALSE
    MayClose = TRUE
    MaxTime = 3
    MaxPendings = 2
    MaxConns = 2
INVARIANTS
    TypeOK
    AcksAgree
    
    Agreement
CHECK_DEADLOCK FALSE
