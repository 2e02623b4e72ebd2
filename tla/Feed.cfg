SPECIFICATION Spec
CONSTANTS
    AAPL = AAPL
    TSLA = TSLA
    aapl = aapl
    Tickers = {AAPL, TSLA}
    Spellings = {AAPL, TSLA, aapl}
    Canonical <- MCCanonical
    MaxChanges = 4
    MaxFailures = 2
INVARIANTS
    FeedTypeOK
    LiveSourceRuns
    SimulatorLeavesNoGhost
PROPERTIES
    FailoverHappens
    SimulatorRestoresPrices
