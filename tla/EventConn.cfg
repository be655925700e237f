SPECIFICATION Spec
CONSTANTS
    t1 = t1
    t2 = t2
    Threads = {t1, t2}
    None = None
    PoolSize = 1
    MaxConns = 4
    Calls = 3
    Workloads <- Separate
    MayQuit = TRUE
INVARIANTS
    TypeOK
    ConnExclusive
    SendsDispatched
    AnswerIsMine
    PoolExact
PROPERTIES
    CallsReturnUnlessQuit
