SPECIFICATION Spec
CONSTANTS
    s1 = s1
    s2 = s2
    n1 = n1
    n2 = n2
    Callers = {s1, s2}
    Sagas = {s1, s2}
    Names = {n1, n2}
    NameOf <- MCNameOf
    STRANGER = STRANGER
    NULL = NULL
CHECK_DEADLOCK FALSE
INVARIANTS
    SagaTypeOK
    FailedIsUndone
    StrangersKept
    RunFollowsBusiness
    SoldIsProvisioned
PROPERTIES
    SagaEnds
