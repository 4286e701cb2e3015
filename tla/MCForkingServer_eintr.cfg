SPECIFICATION Spec
CONSTANTS
    Clients = {c1, c2}
    LockStep = {c1, c2}
    Terse = {}
    Limits = {2}
    Flags <- NoFlags
    MayReject = FALSE
    Backlog = 2
    MaxSend = 1
    SndBuf = 1
    BufSize = 1
PROPERTY ForksForEachClient
CHECK_DEADLOCK FALSE
