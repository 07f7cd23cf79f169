CONSTANTS
    h1 = h1
    h2 = h2
    Handlers = {h1, h2}
    MaxWrites = 4
    Charges = {named, unnamed}
    Named = {named}
    Short = {unnamed}
SPECIFICATION IntakeSpec
SYMMETRY Symmetry
INVARIANTS
    EscrowConserved
    PublishedOnce
    EscrowMatchesPayment
    ChargesAccounted
PROPERTY
    OnlyReviewReopens
CHECK_DEADLOCK FALSE
