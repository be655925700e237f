SPECIFICATION Spec
CONSTANTS
    a = a
    b = b
    n = n
    w1 = w1
    w2 = w2
    u1 = u1
    q1 = q1
    Names = {a, b, n}
    Nodes = {n}
    None = None
    host = host
    Programs <- Loads
    FirstWorkers = {w1}
    LateWorkers = {u1}
    Quitters = {q1}
    MaxArrivals = 1
    Late = FALSE
INVARIANTS
    TypeOK
    LoadDelivers
    NodeHears
PROPERTIES
    QuitEnds
    NoThreadLeft
