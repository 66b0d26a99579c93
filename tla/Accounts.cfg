SPECIFICATION FairSpec
CONSTANTS
    NRequests = 3
    Email = {e1, e2, e3}
    Slug = {s1, s2}
    LegacyUsers = {e1}
    OldOrg = s1
    Faults = {"refused", "unacked", "crash"}
CHECK_DEADLOCK FALSE
INVARIANTS TypeOK AllOrNothing OrgsHaveOwners LegacyKeepsAccess
PROPERTIES CreatedMeansUsable RequestsEnd
