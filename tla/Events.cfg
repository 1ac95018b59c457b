SPECIFICATION StreamFairSpec
CONSTANTS
    Process = {p1}
    MaxEvents = 4
    MaxReconnects = 2
    MaxBreaks = 1
PROPERTIES
    EveryTransitionIsReplayed
    RestIsNoticed
    EventsArrive
CHECK_DEADLOCK FALSE
