SPECIFICATION Spec
CONSTANTS
    NumPeriods = 2
    Quota <- MCGrowing
    Jobs = {j1}
    MaxAttempts = 3
    Workers = {s1}
    Admins = {a1}
    MaxTraffic = 2
    MaxResets = 1
    NULL = NULL
INVARIANTS
    TypeOK
    NeverOvercharged
    NothingLost
    SyncedMeansWritten
