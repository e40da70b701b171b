SPECIFICATION Spec
CONSTANTS
    NumPeriods = 2
    Quota <- MCSame
    Jobs = {j1, j2}
    MaxAttempts = 1
    Workers = {s1}
    Admins = {}
    MaxTraffic = 2
    MaxResets = 0
    NULL = NULL
PROPERTY
    ExpiresOnlyUnqueued
