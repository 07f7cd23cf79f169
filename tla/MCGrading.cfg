CONSTANTS
    Scores <- MCScores
    Units = {1, 2}
    Scales <- MCScales
    PointMaxes = {0, 4}
    MaxRecords = 2
    MaxUpdates = 1
SPECIFICATION Spec
INVARIANT
    FallbackIsFivePoint
CHECK_DEADLOCK FALSE
