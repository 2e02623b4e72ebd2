SPECIFICATION PageSpec
CONSTANTS
    AAPL = AAPL
    MSFT = MSFT
    c1 = c1
    c2 = c2
    open = open
    none = none
    Tickers = {AAPL, MSFT}
    Clients = {c1, c2}
    Statuses = {open}
    NoStatus = none
    Capacity = 1
    Heartbeat = 1
    MaxOddities = 1
    MaxEvents = 2
    MaxConnections = 2
    Grace = 2
    StallAfter = 1
    MaxSeries = 2
    MaxShown = 2
INVARIANTS
    StreamTypeOK
    ShocksInOrder
    NeverSilent
    StatusIsHonest
    ShocksOnPage
PROPERTIES
    StatusReachesClient
    PageCatchesUp
    TroubleIsShown
