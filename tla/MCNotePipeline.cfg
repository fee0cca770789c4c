CONSTANTS
    s1 = s1
    s2 = s2
    a1 = a1
    a2 = a2
    r1 = r1
    r2 = r2
    v1 = v1
    h1 = h1
    h2 = h2
    Unit = 10
    Fine = 10
    Visits = {v1}
    Agents = {h1, h2}
    AgentOf <- VisitAgent
    LastId = 2
    Accesses = {a1, a2}
    Runs = {r1, r2}
    Servers = {s1, s2}
    Home <- HomeOf
    Given <- Parameters
    Absent = Absent
    BatchSize = 2
    MaxFaults = 1
    LastDay = 2
SPECIFICATION NoteSpec
INVARIANTS
    NoteTypeOK
    OneEarningAccess
    UnearnedAfterFirst
    NoAccessVanishes
    BalancesFollowRows
    LinksFollowRows
    LoggedAgentsHaveRows
    KnownAgentsHaveRows
PROPERTIES
    AccessesAreSettled
CHECK_DEADLOCK FALSE
