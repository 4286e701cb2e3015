SPECIFICATION Spec
CONSTANTS
    Clients = {c1, c2, c3}
    LockStep = {c1, c2}
    Terse = {c1, c2}
    MaxThreads = 2
    MaxConns = 2
    ListHead = head
    Null = null
    NoClient = none
    MayReject = TRUE
    Backlog = 2
    MaxSend = 2
    SndBuf = 1
    BufSize = 2
INVARIANTS
    TypeOK
    OwnThread
    EveryThreadListed
    LeakedOnlyByReset
PROPERTIES
    Promise
    EveryClientServed
CHECK_DEADLOCK FALSE
