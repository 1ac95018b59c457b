\* One schedule, two processes, a user who edits it, one health suggestion.
SPECIFICATION FairSpec
CONSTANTS
    Schedule = {s1}
    Process = {p1, p2}
    MaxReviews = 1
    Suggestion = {g1}
    MaxFailures = 2
    MaxTime = 2
    MaxEdits = 2
    MaxClaims = 3
INVARIANTS TasksBounded DeadLetterInv
PROPERTIES FencedRunIsPowerless ReviewSeesOutcomes DueIsClaimed
CHECK_DEADLOCK FALSE
