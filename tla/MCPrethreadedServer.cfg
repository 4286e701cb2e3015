SPECIFICATION Spec
CONSTANTS
    Clients = {c1, c2, c3}
    LockStep = {c1, c2}
    Terse = {c1, c2}
    NoClient = none
    Workers = {w1, w2}
    NoWorker = nobody
    MayReject = TRUE
    Backlog = 2
    MaxSend = 2
    SndBuf = 1
    BufSize = 2
INVARIANTS
    TypeOK
    AcceptAlone
    OneWorkerPerClient
PROPERTIES
    Promise
    EveryClientServed
CHECK_DEADLOCK FALSE
