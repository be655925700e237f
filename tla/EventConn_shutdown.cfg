SPECIFICATION Spec
CONSTANTS
    t1 = t1
    t2 = t2
    Threads = {t1, t2}
    None = None
    PoolSize = 1
    MaxConns = 3
    Calls = 2
    Workloads <- OneSender
    MayQuit = TRUE
PROPERTIES
    CallsReturn
