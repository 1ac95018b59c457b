SPECIFICATION FairSpec
CONSTANTS
    first = first
    second = second
    Step = {first, second}
    DependsOn <- Chain
    Worker = {w1}
    NoWorker = NoWorker
    PlanApproval = TRUE
    ReviewApproval = TRUE
    VerifyDelivery = TRUE
    Controls = {"pause", "resume", "approve", "reject", "approve-review", "reject-review", "replan", "retry", "manual", "replace", "cancel"}
    MaxPlans = 4
    MaxRequests = 2
    MaxFaults = 2
INVARIANTS PlanGate CancelStopsSoon CheckpointsAreReused
PROPERTIES StopsAreHeeded ComesToRest
CHECK_DEADLOCK FALSE
