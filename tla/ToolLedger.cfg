\* A write or a read-only invocation, two overlapping callers, two operators.
SPECIFICATION FairSpec
CONSTANTS
    NoInvocation = NoInvocation
    Invocation = {w, r}
    WriteInvocation = {w}
    Caller = {c1, c2}
    Operator = {o1, o2}
    LeaseTicks = 1
    MaxReadAttempts = 3
    MaxRevision = 5
CONSTRAINT OneInvocation
INVARIANTS DispatchesArePaidFor AnswersAgree ReceiptIsEarned AttemptsAccounted
PROPERTIES ReviewIsCurrent ImplementsReviewed ExecutionSettles
CHECK_DEADLOCK FALSE
