SPECIFICATION FairSpec
CONSTANTS
    o1 = o1
    o2 = o2
    r1 = r1
    r2 = r2
    r3 = r3
    NULL = NULL
    Orders = {o1}
    Requests = {r1, r3}
    OrderOf <- MCOrderOf
    Workers = {w1}
    Scheduler = sched
    NumEndpoints = 2
    MaxAttempts = 2
PROPERTIES
    IntentSettles
    LockReleased
    ReleasedIfAsked
