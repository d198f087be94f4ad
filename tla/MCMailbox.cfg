\* One message through two mailboxes; two posters; two faults.
SPECIFICATION EarlySpec
CONSTANTS
    Message = {m, early}
    early = early
    b1 = b1
    Box = {b1, b2}
    Poster = {p1, p2}
    None = None
    MaxFaults = 2
    MaxLosses = 1
INVARIANTS SentIsKept OnePosterSurvives NothingSkipped
PROPERTIES SentIsRead
CHECK_DEADLOCK FALSE
