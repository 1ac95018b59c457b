SPECIFICATION FairSpec
CONSTANTS
    a = a
    b = b
    c = c
    Input = Input
    Output = Output
    MaxExpanded = 256
    Agents = {a, b, c}
    Canvases <- MCCanvases
    Concurrency = 2
    MaxReplans = 2
    Writers = {b, c}
    Skipping = {b}
    Pausing = {c}
    MaxFaults <- MCFaults
    MaxCommands <- MCCommands
INVARIANTS PlanStaysExecutable RoundsInOrder BranchesExclude RecoveryComesFirst
PROPERTIES LoopEnds
CHECK_DEADLOCK FALSE
