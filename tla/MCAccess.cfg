CONSTANTS
    c1 = c1
    c2 = c2
    Inquiries = {c1, c2}
    MaxRequests = 4
    MaxViewCounts = {0, 1}
    MaxEvents = 2
    MaxCrashes = 1
    MaxReviews = 1
    MaxOutdated = 1
SPECIFICATION AccessSpec
SYMMETRY Symmetry
INVARIANTS
    ViewsAllowed
    BilledOnce
    DemandCounted
CHECK_DEADLOCK FALSE
