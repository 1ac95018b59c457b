\* Two calls of one source; policies that allow one or two at a time.
SPECIFICATION FairSpec
CONSTANTS
    Call = {c1, c2}
    Source = {s1}
    Window = {hour}
    Policies <- MCPolicies
    Threshold = 2
    Recovery = 2
    LeaseTicks = 2
    CooldownTicks = 1
    NoLease = NoLease
    MaxGeneration = 2
    MaxUsed = 3
INVARIANT OneProbe
PROPERTIES RecoveryIsEarned CircuitAdmitsAgain SlotsReturn
CHECK_DEADLOCK FALSE
