SPECIFICATION Spec
CONSTANTS
    AAPL = AAPL
    TSLA = TSLA
    Tickers = {AAPL, TSLA}
    Scale = 4
    Tolerance = 1
    Prices = {3, 5}
    Quantities = {2, 5}
    StartingCash = 8
    MaxTrades = 4
    MaxSnapshots = 1
SYMMETRY TickerSymmetry
CHECK_DEADLOCK FALSE
INVARIANTS
    TypeOK
    Solvent
    CashDriftBounded
    ShareDriftBounded
    AverageCostWithinPurchases
PROPERTY
    FillsKeepValue
