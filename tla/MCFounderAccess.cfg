CONSTANTS
    v1 = v1
    v2 = v2
    Calls = {c1}
    MaxRequests = 1
    MaxKeys = 1
    MaxSecrets = 2
    MaxOverlaps = 1
    Visits = {v1, v2}
    SetSize = 1
    MaxCodes = 2
    MaxSetups = 2
    MaxRaces = 1
SPECIFICATION FounderSpec
SYMMETRY Symmetry
INVARIANTS
    DeadSecretsStayDead
    SecondFactorHolds
CHECK_DEADLOCK FALSE
