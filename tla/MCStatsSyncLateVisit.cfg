CONSTANTS
    a = a
    Visits = {v1}
    Links = {a}
    LinkOf <- OneLink
    Runs = {r1}
    Free = Free
    MaxAttempts = 1
    MaxFaults = 0
    LastMinute = 2
SPECIFICATION Spec
INVARIANTS
    DelOnlyAfterSync
CHECK_DEADLOCK FALSE
