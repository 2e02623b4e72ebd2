SPECIFICATION Spec
CONSTANTS
    Account = {"history"}
    Panels = {"trade", "chat"}
    MaxRequests = 2
    MaxPoints = 1
    MaxFaults = 1
    MaxReloads = 1
INVARIANTS
    TerminalTypeOK
    PanelsKeepUp
    NoTurnTwice
PROPERTIES
    HistoryCatchesUp
