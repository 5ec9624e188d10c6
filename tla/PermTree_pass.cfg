CONSTANTS
    Orgs = {o1, o2}
    Requests = {r1, r2}
    None = None
    Orphan = Orphan
    MaxVersion = 2
    MaxFaults = 1
SPECIFICATION FairSpec
INVARIANTS TypeOK BuiltIsCurrent
PROPERTIES TreeNeverOlder StaleRepaired
CHECK_DEADLOCK FALSE
