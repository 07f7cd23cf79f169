CONSTANTS
    c1 = c1
    c2 = c2
    c3 = c3
    Calls = {c1, c2, c3}
    Bodies = {1, 2}
    MaxCleanups = 1
    Servers = {p1, p2}
    Writers = {p1}
    MaxUpsets = 2
    Workers = {w1, w2}
    Tasks = {j1, j2}
SPECIFICATION ServicesSpec
INVARIANTS
    AtMostOnce
    InvalidationHolds
PROPERTIES
    StaleDrains
    OrphansShow
CHECK_DEADLOCK FALSE
