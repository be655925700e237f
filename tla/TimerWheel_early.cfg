SPECIFICATION SteadySpec
CONSTANTS
    TVR_SIZE = 2
    TVN_SIZE = 2
    Timers = {t1}
    Times <- AllTimes
    MaxLag = 2
    DispatchRounds = 2
    Quits = 0
    Timed = TRUE
INVARIANTS
    NeverEarly
