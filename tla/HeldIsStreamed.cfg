SPECIFICATION Spec
CONSTANTS
    AAPL = AAPL
    TSLA = TSLA
    NVDA = NVDA
    aapl = aapl
    r1 = r1
    r2 = r2
    b1 = b1
    Tickers = {AAPL, TSLA, NVDA}
    Spellings = {AAPL, TSLA, NVDA, aapl}
    Canonical <- MCCanonical
    Seeded = {AAPL}
    Cap = 2
    Requests = {r1}
    Trades = {b1}
    MaxFailures = 0
    GhostFills = FALSE
    MaxRestarts = 0
CHECK_DEADLOCK FALSE
INVARIANT HeldIsStreamed
