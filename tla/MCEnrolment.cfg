CONSTANTS
    c1 = c1
    c2 = c2
    Calls = {c1, c2}
    MaxEnrolments = 2
    MaxRollovers = 2
    MaxTransfers = 2
    MaxDisputes = 2
    MaxOverlaps = 1
SPECIFICATION Spec
SYMMETRY Symmetry
INVARIANTS
    RolledOverOnce
    TransfersAgree
PROPERTY
    ClosedStaysClosed
CHECK_DEADLOCK FALSE
