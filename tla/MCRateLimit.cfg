CONSTANTS
    p1 = p1
    p2 = p2
    Processes = {p1, p2}
    Limit = 2
    Caps = {0, 1}
    MaxLimit = 4
    Window = 2
    CleanupHours = {0, 1, 1000}
    MaxUpdates = 2
    MaxFailures = 1
    MaxCount = 4
SPECIFICATION RateSpec
INVARIANTS
    AdmittedWithinLimit
PROPERTY
    PolicyTakesHold
CHECK_DEADLOCK FALSE
