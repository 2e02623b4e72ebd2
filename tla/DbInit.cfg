SPECIFICATION Spec
CONSTANTS
    AAPL = AAPL
    t1 = t1
    t2 = t2
    t3 = t3
    none = none
    DefaultTickers = {AAPL}
    Threads = {t1, t2, t3}
    NoThread = none
    MaxDeletions = 1
    MaxFaults = 1
CHECK_DEADLOCK FALSE
INVARIANTS
    ServedComplete
PROPERTIES
    NeverReseeded
    EveryRequestEnds
