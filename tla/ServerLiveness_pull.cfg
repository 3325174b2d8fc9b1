SPECIFICATION FairSpec
CONSTANTS
    Conns = {c1}
    Nobody = Nobody
    ExplicitPull = FALSE
    Threshold = 3
    MaxTrouble = 1
PROPERTY
    PulledIsShown
