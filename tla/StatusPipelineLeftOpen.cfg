SPECIFICATION Spec
CONSTANTS
    Service = {s1}
    Handler = {h1, h2}
    Nobody = Nobody
    WindowSize = 2
    HeartbeatStatuses = {"up", "down"}
    ProbeStatuses = {"up", "down"}
    MaxBatch = 1
    MaxRequests = 4
    MaxIncidents = 4
    Skew = 0
    Faults = {}
CHECK_DEADLOCK FALSE
INVARIANT ResolvedAutomatically
