CONSTANTS
    e1 = e1
    e2 = e2
    d1 = d1
    d2 = d2
    Entries = {e1, e2}
    Usage = {e1}
    Drainers = {d1, d2}
    MaxAttempts = 2
    MaxFails = 3
    MaxFaults = 1
SPECIFICATION Spec
PROPERTY LostOnlyBetweenReadAndUnlink
PROPERTY Delivers
PROPERTY RoutedGetsThrough
CHECK_DEADLOCK FALSE
