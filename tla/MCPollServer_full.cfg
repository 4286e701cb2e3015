SPECIFICATION Spec
CONSTANTS
    Clients = {c1, c2, c3}
    LockStep = {}
    Terse = {}
    NoClient = none
    Backlog = 2
    MaxSend = 1
    SndBuf = 1
    BufSize = 1
    NoFile = 7
    MaxFds = 3
INVARIANT FullTableExits
CHECK_DEADLOCK FALSE
