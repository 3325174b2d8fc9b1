SPECIFICATION WireSpec
CONSTANTS
    WindowSize = 3
    MaxSealed = 7
    Calls = {c1, c2}
    Addresses = 2
    MaxLinks = 2
    MaxKeys = 2
    ChanSize = 2
    Frames = 4
    Candidates = 2
    Shares = {s1}
    FullRights = {}
    Tags = {t1}
    Commands = {c1, c2}
    MaxSessions = 2
    MaxFaults = 1
    Conns = {c1, c2}
    Nobody = Nobody
    ExplicitPull = FALSE
    Threshold = 1
    MaxTrouble = 1
SYMMETRY Symmetry
CHECK_DEADLOCK FALSE
INVARIANTS
    WindowIsExact
    RunsAreAccountedFor
    RepliesReachTheirCaller
    SessionLossFailsNoCall
    ShowsOneRunInOrder
    GapsWereDropped
    LeftoverIsExplained
    SharedRunsAccountedFor
    OneNoticePerOutage
    NotifiedIsTold
    NoticesPair
PROPERTIES
    RefinesOnceChannel
    RefinesCall
