SPECIFICATION Spec
CONSTANTS
    Workers = {x1, x2}
    Protocols = {p1}
    MaxSecrets = 2
    MaxRows = 2
    Troubles = {"rebuild", "failedCall", "migrate", "backfill", "cacheMiss"}
    Endings = {"race", "rebuild"}
    Marks = {m1, m2}
    PrivateMarks = {m1}
    Admins = {x1, x2}
    MaxIds = 2
    MaxRules = 2
    MaxFailures = 1
    MaxHurt = 1
    Items = {in1}
    Requests = {x1, x2}
    MaxCopies = 2
    MaxMishaps = 1
    Tasks = {x1, x2}
    Versions = {v1, v2}
    MaxNodes = 2
    MaxAsks = 2
    Asks = {x1, x2}
    Plans = {"pro"}
    Callbacks = {"recover", "lost"}
    MaxMoves = 3
    Names = {n1}
    MaxHosts = 1
    Pushes = {x1, x2}
    Limits = {0, 1}
    What = "limits"
    Mishaps = {"drop", "restart"}
    MaxLine = 2
    Tags = {in1}
    Rules = {r1}
    Deprecated = {r1}
    Errands = {x1, x2}
    MaxEvents = 3
SYMMETRY Symmetry
CHECK_DEADLOCK FALSE
INVARIANTS
    OneClientPerUser
    RowIsServed
    SubscribersAreRouted
    NothingIsLeft
    FileIsWhatRuns
    PanelMatchesAgent
    OneNodePerFamily
    NodesShowTheirInbound
    StaleLimitIsExplained
    SnapshotIsExplained
    LostConfigIsKept
    SharedInboundStays
