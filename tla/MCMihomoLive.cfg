SPECIFICATION FairSpec
CONSTANTS
    Syncers = {s1}
    json = json
    Feeds = {json, yaml}
    MaxSource = 2
    NULL = NULL
    Rows = {r1}
    CanonicalOf <- IdentityCanonical
    Ops = {o1}
    Workers = {w1}
    MaxJobs = 1
    MaxAttempts = 2
INVARIANTS
    LoadedIsProved
PROPERTIES
    SettlesIfCalled
