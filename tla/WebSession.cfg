SPECIFICATION FairSpec
CONSTANTS
    a = a
    b = b
    c = c
    None = None
    Account = {a, b, c}
    WithOrg = {a, c}
    Handler = {h1, h2}
    h1 = h1
    h2 = h2
INVARIANTS TypeOK OneOrgOnScreen OnboardedHasMonitor
PROPERTY BusyEnds
