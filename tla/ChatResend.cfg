SPECIFICATION Spec
CONSTANTS
    AAPL = AAPL
    aapl = aapl
    Tickers = {AAPL}
    Symbols = {aapl}
    Canonical <- MCCanonical
    Replies <- MCReplies
    MaxActions = 1
    MaxHistory = 2
    Earlier <- MCEarlier
    StartingCash = 1
    Texts = 1
    Sends = 2
    MaxFaults = 1
CHECK_DEADLOCK FALSE
INVARIANT SafeToResend
