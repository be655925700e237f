SPECIFICATION SteadySpec
CONSTANTS
    a1 = a1
    a2 = a2
    Actors = {a1, a2, a3}
    Workers = {w1, w2}
    Quitters = {}
    ext = ext
    None = None
    Pending <- OneEach
    RunSize <- OneEach
    UseCv = FALSE
    Links <- Dialogue
    Counted = FALSE
    MaxSeq = 1
PROPERTIES
    NoStarvation
    ImplementsFairActors
