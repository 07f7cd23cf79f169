CONSTANTS
    c1 = c1
    c2 = c2
    b1 = b1
    b2 = b2
    s1 = s1
    s2 = s2
    Calls = {c1, c2}
    Students = {s1, s2}
    Batches = {b1, b2}
    Roster <- MCRoster
    NoStudent = NoStudent
    NoBatch = NoBatch
    MaxRequests = 2
    MaxSeals = 1
    MaxApprovals <- MCMaxApprovals
SPECIFICATION Spec
SYMMETRY Symmetry
INVARIANTS
    StandingExact
    StandingNeverAhead
    IssuesApproved
PROPERTY
    SealHolds
CHECK_DEADLOCK FALSE
