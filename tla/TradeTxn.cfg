SPECIFICATION Spec
CONSTANTS
    AAPL = AAPL
    t1 = t1
    t2 = t2
    r1 = r1
    background = background
    none = none
    NoProc = none
    Tickers = {AAPL}
    Scale = 2
    Tolerance = 1
    Prices = {3}
    Quantities = {2, 3}
    StartingCash = 5
    Orders <- MCOrders
    Traders = {t1, t2}
    Readers = {r1}
    Snapshotter = background
    MaxCacheChanges = 2
    MaxPoints = 1
    MaxFaults = 1
INVARIANTS
    AnswerMatchesBlotter
    ReportedAccountExisted
PROPERTIES
    EveryRequestEnds
    ImplementsLedger
