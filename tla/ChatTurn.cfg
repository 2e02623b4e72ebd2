SPECIFICATION Spec
CONSTANTS
    AAPL = AAPL
    aapl = aapl
    Tickers = {AAPL}
    Symbols = {aapl}
    Canonical <- MCCanonical
    Replies <- MCReplies
    MaxActions = 1
    MaxHistory = 2
    Earlier <- MCEarlier
    StartingCash = 2
    Texts = 2
    Sends = 2
    MaxFaults = 2
CHECK_DEADLOCK FALSE
INVARIANTS
    ReportsWhatItDid
    TranscriptMatchesLedger
    PromptTellsTheTruth
    
    NoSilentDoubleFill
PROPERTIES
    EveryTurnEnds
