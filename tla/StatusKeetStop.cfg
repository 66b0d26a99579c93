SPECIFICATION Spec
CONSTANTS
    NumServices = 2
    Unlisted = {u1}
    u1 = u1
    Call = {c1, c2, c3}
    Timer = Timer
    App = App
    Slot = {b1, b2}
    MaxReports = 2
    MaxStops = 2
PROPERTY StopStops
CHECK_DEADLOCK FALSE
