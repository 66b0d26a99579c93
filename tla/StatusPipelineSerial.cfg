SPECIFICATION FairSpec
CONSTANTS
    Service = {s1, s2}
    Handler = {h1}
    Nobody = Nobody
    WindowSize = 2
    HeartbeatStatuses = {"up", "down"}
    ProbeStatuses = {"down"}
    MaxBatch = 2
    MaxRequests = 4
    MaxIncidents = 8
    Skew = 1
    Faults = {}
CHECK_DEADLOCK FALSE
INVARIANTS PageTellsTheTruth TimelineIsComplete AtMostOneActive
PROPERTIES OutageIsLogged RecoveryIsLogged KeepsPromise
