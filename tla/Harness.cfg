SPECIFICATION FairSpec
CONSTANTS
    Process = {p1}
    Thread = {t1}
    NoThread = NoThread
    MaxLoops = 2
    MaxCommands = 2
    MaxFaults = 1

    
PROPERTIES
    
    ThreadIsTakenUp
CHECK_DEADLOCK FALSE
