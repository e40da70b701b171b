SPECIFICATION FairSpec
CONSTANTS
    NumPeriods = 3
    Quota <- MCGrowing
    Jobs = {j1, j2}
    MaxAttempts = 1
    Workers = {s1}
    Admins = {}
    MaxTraffic = 1
    MaxResets = 0
    NULL = NULL
INVARIANT
    PeriodsInOrder
PROPERTIES
    PendingSettles
