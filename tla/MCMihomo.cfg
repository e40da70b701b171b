SPECIFICATION Spec
CONSTANTS
    Syncers = {s1}
    json = json
    Feeds = {json}
    MaxSource = 1
    NULL = NULL
    Rows = {r1, r2}
    CanonicalOf <- JsonCanonical
    Ops = {o1, o2}
    Workers = {w1, w2}
    MaxJobs = 2
    MaxAttempts = 2
SYMMETRY Symmetry
CONSTRAINT SyncedOnce
INVARIANTS
    MihomoTypeOK
    OneApplier
    SucceedInOrder
    SettledIsServed
PROPERTIES
    UnknownStaysManual
    FinalizesCurrent
