SPECIFICATION LimiterSpec
CONSTANTS
    Asks = {a1}
    Plans = {"pro"}
    Callbacks = {"recover", "lost"}
    MaxMoves = 2
    Names = {n1}
    MaxHosts = 1
    Pushes = {p1}
    Limits = {0, 1}
    What = "limits"
    Mishaps = {}
    MaxLine = 2
CHECK_DEADLOCK FALSE
INVARIANT
    RemovedIsForgotten
