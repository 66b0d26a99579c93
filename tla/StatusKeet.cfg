SPECIFICATION FairSpec
CONSTANTS
    NumServices = 2
    Unlisted = {u1}
    u1 = u1
    Call = {c1, c2}
    Timer = Timer
    App = App
    Slot = {b1, b2}
    MaxReports = 2
    MaxStops = 2
INVARIANTS TypeOK ReportUsedOnce RegisteredBeforeHeartbeat
PROPERTIES StopStopsWhenAwaited ReportIsTaken
CHECK_DEADLOCK FALSE
