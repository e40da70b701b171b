SPECIFICATION Spec
CONSTANTS
    Syncers = {s1}
    json = json
    Feeds = {json, yaml}
    MaxSource = 1
    NULL = NULL
    Rows = {r1}
    CanonicalOf <- JsonCanonical
    Ops = {o1}
    Workers = {w1}
    MaxJobs = 1
    MaxAttempts = 2
INVARIANT VerifiedComposes
