SPECIFICATION Spec
CONSTANTS
    a1 = a1
    a2 = a2
    Actors = {a1, a2}
    Workers = {w1, w2}
    Quitters = {c1, c2}
    ext = ext
    None = None
    Pending <- Unlimited
    RunSize <- OneEach
    UseCv = TRUE
    Links <- Relay
    Counted = TRUE
    MaxSeq = 2
INVARIANTS
    SerialActor
    EveryEventHasCommand
    RunBatchBound
    IInv
PROPERTIES
    QuitTerminates
