SPECIFICATION KeysFairSpec
CONSTANTS
    MaxKeys = 2
    NoKey = NoKey
    Call = {c1, c2}
    c1 = c1
    c2 = c2
INVARIANT ListIsCurrentWhenQuiet
PROPERTIES NewerKeyIsNotReplaced CreateEnds
