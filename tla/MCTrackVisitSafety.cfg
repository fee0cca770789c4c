CONSTANTS
    Visits = {v1, v2, v3}
    Aliases = {a1, a2}
    Addresses = {x1}
    MaxFaults = 2
    LastDay = 2
SPECIFICATION Spec
SYMMETRY Symmetric
INVARIANTS
    TypeOK
    OnePaidPerDay
    RowStopsPayment
    RefusedAfterFirst
CHECK_DEADLOCK FALSE
