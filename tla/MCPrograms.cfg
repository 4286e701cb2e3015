SPECIFICATION Spec
CONSTANTS
    Executables <- AllExecutables
    Workers = {w1, w2}
    Ops = 3
    Threads = {t1, t2, t3}
    Chunks = 2
    PipeSize = 1
    MayFail = TRUE
    BufLen = 3
    USR1 = 10
    USR2 = 12
    Reps = 3
    Echoed = 2
    Capacity = 2
    Addresses = 3
INVARIANTS
    TypeOK
    NoLostUpdate
    PrintsAsDocumented
    CopiesWritten
    NoSocketLeaked
PROPERTIES
    EveryPipeEnds
    EveryEventRead
    PipelineEnds
    NoSignalLost
CHECK_DEADLOCK FALSE
