SPECIFICATION Spec
CONSTANTS
    Clients = {c1, c2, c3}
    LockStep = {c1, c2}
    Terse = {c1, c2}
    Programs <- AllPrograms
    Workers = {w1, w2}
    Solo = w1
    NoClient = none
    MayReject = TRUE
    Backlog = 2
    MaxSend = 2
    SndBuf = 1
    BufSize = 2
INVARIANTS
    TypeOK
    OneWorkerPerClient
    LossesPaid
PROPERTIES
    Promise
    EveryClientServed
CHECK_DEADLOCK FALSE
