CONSTANTS
    Visits = {v1, v2}
    Aliases = {a1}
    Addresses = {x1, x2}
    MaxFaults = 0
    LastDay = 1
SPECIFICATION Spec
SYMMETRY Symmetric
INVARIANTS
    RefusedAfterSameVisitor
CHECK_DEADLOCK FALSE
