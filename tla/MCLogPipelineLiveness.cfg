CONSTANTS
    Logs = {l1, l2}
    Flushers = {f1, f2}
    Migrators = {m1, m2}
    Free = Free
    BatchSize = 2
    MigrationBatch = 1
    MaxBatches = 2
    MaxAttempts = 1
    MaxFaults = 1
    LastDay = 2
SPECIFICATION FairSpec
PROPERTIES
    LogsReachMySql
    OldRowsReachMain
CHECK_DEADLOCK FALSE
