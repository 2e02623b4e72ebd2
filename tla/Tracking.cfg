SPECIFICATION Spec
CONSTANTS
    AAPL = AAPL
    TSLA = TSLA
    NVDA = NVDA
    aapl = aapl
    r1 = r1
    r2 = r2
    b1 = b1
    Tickers = {AAPL, TSLA, NVDA}
    Spellings = {AAPL, TSLA, NVDA, aapl}
    Canonical <- MCCanonical
    Seeded = {AAPL, TSLA}
    Cap = 2
    Requests = {r1, r2}
    Trades = {b1}
    MaxFailures = 2
    GhostFills = TRUE
    MaxRestarts = 1
SYMMETRY RequestSymmetry
CHECK_DEADLOCK FALSE
INVARIANTS
    CapRespected
    WatchedIsStreamed
PROPERTIES
    ReconcileHeals
    HoldingsKeepTheirPrice
