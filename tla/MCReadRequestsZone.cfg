SPECIFICATION ReadSpec
CONSTANTS
    Day = 2
    MaxQueryDays = 3
    AgentsWithRow = {1, 2}
    Logs <- MCLogs
    Zones <- MCZones
    StatsRequests <- MCStatsRequests
    NoteRequests <- MCNoteRequests
    ShortLinks <- MCShortLinks
    Visitors <- MCVisitors
    Payloads <- MCPayloads
    VisitRequests <- MCVisitRequests
    CountryCodes <- MCCountryCodes
    CodeOf <- MCCodeOf
INVARIANT
    PeriodsInUtc
