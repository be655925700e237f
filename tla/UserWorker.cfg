SPECIFICATION Spec
CONSTANTS
    u1 = u1
    u2 = u2
    Users = {u1, u2}
    ext = ext
    None = None
    Pending <- Unlimited
    RunSize <- MixedRunSize
    Stoppers = {u1}
    Quitters = {c1, c2}
    Loads <- Few
    MaxSeq = 2
INVARIANTS
    TypeOK
    MailboxExclusive
    WokenWithMessage
    QueuedWithMessages
    NothingLost
PROPERTIES
    WaiterWoken
    QuitTerminates
