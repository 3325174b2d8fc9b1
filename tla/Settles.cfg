SPECIFICATION SettlesSpec
CONSTANTS
    Conns = {k1}
    Nobody = Nobody
    ExplicitPull = FALSE
    Threshold = 1
    MaxTrouble = 2
    Calls = {c1, c2}
    Addresses = 1
    MaxLinks = 2
    MaxKeys = 2
    ChanSize = 2
    Frames = 4
    Candidates = 2
CHECK_DEADLOCK FALSE
PROPERTIES
    AliveIsShown
    GoneIsNotified
    CommandsEnd
