SPECIFICATION Spec
CONSTANTS
    Clients = {c1, c2, c3}
    LockStep = {c1, c2}
    Terse = {c1, c2}
    NoClient = none
    Backlog = 2
    MaxSend = 2
    SndBuf = 1
    BufSize = 1
    NoFile = 6
    MaxFds = 3
INVARIANTS
    TypeOK
    TableMatchesSockets
PROPERTIES
    Promise
    EveryClientServed
CHECK_DEADLOCK FALSE
