SPECIFICATION StreamSpec
CONSTANTS
    Process = {p1, p2}
    MaxEvents = 2
    MaxReconnects = 2
    MaxBreaks = 0
PROPERTY EveryTransitionIsReplayed
CHECK_DEADLOCK FALSE
