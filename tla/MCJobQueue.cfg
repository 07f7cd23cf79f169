CONSTANTS
    j1 = j1
    j2 = j2
    w1 = w1
    w2 = w2
    Jobs = {j1, j2}
    Workers = {w1, w2}
    Admins = {a1, a2}
    NoWorker = NoWorker
    NoJob = NoJob
    Priority <- MCPriority
    PolicyMax <- MCPolicyMax
    MaxRevivals = 2
    MaxCrashes = 1
    MaxLostAcks = 1
SPECIFICATION FairSpec
INVARIANTS
    Lease
    RetryBudget
PROPERTIES
    Settles
    RefinesLifecycle
CHECK_DEADLOCK FALSE
