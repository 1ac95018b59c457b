\* One delivery, two processes that may die at any time, one retry by hand.
SPECIFICATION FairSpec
CONSTANTS
    Channel = {c1}
    Notification = {n1}
    Process = {p1, p2}
    NoDelivery = NoDelivery
    MaxAttempts = 2
    MaxRetries = 1
    MaxMade = 1
    MaxEdits = 2
INVARIANTS ClaimsExclude AttemptBudget DeliveredIsEarned
PROPERTIES OldClaimsArePowerless Settles
CHECK_DEADLOCK FALSE
