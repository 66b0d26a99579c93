SPECIFICATION FairSpec
CONSTANTS
    quick = quick
    slow = slow
    broken = broken
    Service <- ServiceDef
    Malformed = {broken}
    Interval <- IntervalDef
    Timeout <- TimeoutDef
    DefaultTimeout = 3
    Period = 2
    Budget = 2
    Server = {server}
    Cron = {cron}
    Faults = {"refused"}
INVARIANTS TypeOK ProbedInTime
PROPERTIES SpacedOut NoFalseAlarm RoundsEnd
