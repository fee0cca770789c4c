CONSTANTS
    Instances = {i1, i2}
    Readers = {r1, r2}
    VersionTtl = 1
    None = None
    Garbage = Garbage
    LastVersion = 2
    LastEdit = 1
    LastTick = 1
    MaxFaults = 1
SPECIFICATION CachesSpec
SYMMETRY Symmetric
INVARIANTS
    CachesTypeOK
    RetiredVersionsAreLeft
    DetailsAreOfTheirVersion
    InvalidationReachesVisits
    LevelsAreOfTheirVersion
    StaleLinksSpanVersions
CHECK_DEADLOCK FALSE
