SPECIFICATION Spec
CONSTANTS
    AAPL = AAPL
    TSLA = TSLA
    aapl = aapl
    Tickers = {AAPL, TSLA}
    Spellings = {AAPL, TSLA, aapl}
    Canonical <- MCCanonical
    MaxChanges = 2
    MaxFailures = 0
INVARIANT NoPriceFromBeforeRemoval
