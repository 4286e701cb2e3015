SPECIFICATION Spec
CONSTANTS
    Clients = {c1, c2}
    LockStep = {}
    Terse = {}
    NoClient = none
    Backlog = 2
    MaxSend = 1
    SndBuf = 1
    BufSize = 1
    NoFile = 6
    MaxFds = 3
INVARIANT OnlyClientsProcessed
CHECK_DEADLOCK FALSE
