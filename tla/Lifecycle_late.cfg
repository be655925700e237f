SPECIFICATION Spec
CONSTANTS
    a = a
    b = b
    n = n
    w1 = w1
    w2 = w2
    u1 = u1
    q1 = q1
    Names = {a, b, n}
    Nodes = {n}
    None = None
    host = host
    Programs <- LateLoads
    FirstWorkers = {w1, w2}
    LateWorkers = {}
    Quitters = {}
    MaxArrivals = 2
    Late = TRUE
INVARIANT
    SerialActor
