SPECIFICATION SteadySpec
CONSTANTS
    a1 = a1
    a2 = a2
    Actors = {a1, a2}
    Workers = {w1, w2}
    Quitters = {}
    ext = ext
    None = None
    Pending <- MixedPending
    RunSize <- MixedRunSize
    UseCv = TRUE
    Links <- AllLinks
    Counted = TRUE
    MaxSeq = 2
SYMMETRY Symm
INVARIANTS
    TypeOK
    MailboxExclusive
    WaitQueueExact
    NothingLost
    OrderKept
