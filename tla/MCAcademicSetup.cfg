CONSTANTS
    class1 = class1
    class2 = class2
    arm = arm
    gold = gold
    blue = blue
    NoStructure = none
    NoSession = nosession
    Calls = {c1}
    Editors = {e1, e2}
    Sessions = {s1, s2}
    Structures = {class1, class2, arm}
    Types = {"class", "arm"}
    Names = {gold, blue}
    FirstRow <- MCFirstRow
    Scopes <- MCScopes
    MaxMoves = 2
    MaxOverlaps = 2
    MaxChanges = 2
SPECIFICATION SetupSpec
INVARIANT
    OneCurrent
PROPERTIES
    
    AuthorityHolds
    WalksEnd
CHECK_DEADLOCK FALSE
