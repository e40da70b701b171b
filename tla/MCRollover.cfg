SPECIFICATION Spec
CONSTANTS
    NumPeriods = 2
    Quota <- MCSame
    Jobs = {j1}
    MaxAttempts = 1
    Workers = {s1}
    Admins = {}
    MaxTraffic = 2
    MaxResets = 0
    NULL = NULL
INVARIANT
    PaidPeriodUsable
