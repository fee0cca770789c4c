CONSTANTS
    a = a
    Visits = {v1}
    Links = {a}
    LinkOf <- OneLink
    Runs = {r1, r2}
    Free = Free
    MaxAttempts = 2
    MaxFaults = 2
    LastMinute = 3
SPECIFICATION FairSpec
INVARIANTS
    TypeOK
    OnTimeIncrementsSurvive
    CreditedOnce
    TotalsAgree
PROPERTIES
    PastMinutesAreSynced
CHECK_DEADLOCK FALSE
