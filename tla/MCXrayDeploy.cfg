SPECIFICATION Spec
CONSTANTS
    Principals = {1, 2}
    Tags = {1}
    Shells <- MCShells
    NULL = NULL
    edited = edited
    torn = torn
    Foreign = {edited}
    TORN = torn
INVARIANT
    RoutesServed
