CONSTANTS
    Logs = {l1, l2}
    Flushers = {f1, f2}
    Migrators = {m1, m2}
    Free = Free
    BatchSize = 2
    MigrationBatch = 1
    MaxBatches = 2
    MaxAttempts = 2
    MaxFaults = 3
    LastDay = 2
SPECIFICATION Spec
SYMMETRY Symmetric
INVARIANTS
    TypeOK
    NothingVanishes
    RowsAreUnique
    MigratedExactlyOnce
    MainHoldsOnlyPastDays
PROPERTIES
    ImplementsAccessLogStore
CHECK_DEADLOCK FALSE
