SPECIFICATION FairSpec
CONSTANTS
    older = older
    newer = newer
    Capture <- MCCapture
    Cursor <- MCCursor
    NoCapture = NoCapture
    Run = {r1}
    Worker = {w1, w2}
    MaxFaults = 2
INVARIANTS
    CompletedIsEarned
    CopiesCostFaults
PROPERTIES
    CapturesSettle
CHECK_DEADLOCK FALSE
