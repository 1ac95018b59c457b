\* One delegation and the coordinator's next claim.
SPECIFICATION Spec
CONSTANTS
    Process = {p1}
    Thread = {t1}
    NoThread = NoThread
    MaxLoops = 3
    MaxCommands = 1
    MaxFaults = 0
INVARIANT OneExecutor
CHECK_DEADLOCK FALSE
