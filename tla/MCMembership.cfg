CONSTANTS
    c1 = c1
    c2 = c2
    Calls = {c1, c2}
    contact = contact
    other = other
    Members = {contact, other}
    Contact = contact
    MaxApplications = 2
    MaxInvites = 2
    MaxOverlaps = 1
SPECIFICATION Spec
SYMMETRY Symmetry
INVARIANTS
    InviteRedeemedOnce
    ApplicationsSettle
PROPERTIES
    SuspensionHolds
CHECK_DEADLOCK FALSE
