CONSTANTS
    a = a
    Visits = {v1, v2}
    Links = {a}
    LinkOf <- OneLink
    Runs = {r1}
    Free = Free
    MaxAttempts = 1
    MaxFaults = 1
    LastMinute = 3
SPECIFICATION Spec
SYMMETRY Symmetric
INVARIANTS
    UnreadKeysSurvive
CHECK_DEADLOCK FALSE
