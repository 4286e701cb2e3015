SPECIFICATION Spec
CONSTANTS
    Clients = {c1, c2, c3}
    LockStep = {c1, c2}
    Terse = {c1, c2}
    NoClient = none
    Backlog = 2
    MaxSend = 2
    SndBuf = 1
    BufSize = 1
    NoFile = 6
    FdSetSize = 6
INVARIANTS
    TypeOK
    DescriptorsTracked
    ReadyBudget
PROPERTIES
    ExitProvoked
    Promise
    EveryClientServed
CHECK_DEADLOCK FALSE
