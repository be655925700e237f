SPECIFICATION Spec
CONSTANTS
    TVR_SIZE = 2
    TVN_SIZE = 2
    Timers = {t1, t2}
    Times = {1, 15}
    MaxLag = 1
    DispatchRounds = 1
    Quits = 2
    Timed = FALSE
INVARIANTS
    TypeOK
    InPlace
PROPERTIES
    ImplementsFairTimers
    QuitEndsThread
