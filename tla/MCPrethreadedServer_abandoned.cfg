SPECIFICATION Spec
CONSTANTS
    Clients = {c1, c2}
    LockStep = {c1, c2}
    Terse = {}
    NoClient = none
    Workers = {w1, w2}
    NoWorker = nobody
    MayReject = TRUE
    Backlog = 2
    MaxSend = 1
    SndBuf = 1
    BufSize = 1
PROPERTY IdleWorkerServes
CHECK_DEADLOCK FALSE
