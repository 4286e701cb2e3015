SPECIFICATION Spec
CONSTANTS
    Clients = {c1, c2}
    LockStep = {c1}
    Terse = {}
    Limits = {1, 2}
    Flags <- AllFlags
    MayReject = TRUE
    Backlog = 2
    MaxSend = 2
    SndBuf = 1
    BufSize = 2
INVARIANTS
    TypeOK
    NoLostChild
    ConnectionHeld
PROPERTIES
    Promise
    EveryClientServed
CHECK_DEADLOCK FALSE
