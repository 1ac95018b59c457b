SPECIFICATION Spec
CONSTANTS
    a = a
    b = b
    c = c
    Input = Input
    Output = Output
    MaxExpanded = 256
    Agents = {a, b, c}
    Canvases <- MCCanvases
    Concurrency = 2
    MaxReplans = 2
    Writers = {b, c}
    Skipping = {b}
    Pausing = {c}
    MaxFaults <- MCFaults
    MaxCommands <- MCCommands
PROPERTIES HeldRunRests
CHECK_DEADLOCK FALSE
