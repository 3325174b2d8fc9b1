SPECIFICATION RoutedSpec
CONSTANTS
    Marks = {m1, m2}
    PrivateMarks = {m1}
    Admins = {x1, x2}
    MaxIds = 2
    MaxRules = 2
    MaxFailures = 1
    MaxHurt = 1
CHECK_DEADLOCK FALSE
INVARIANT NoOpenRule
