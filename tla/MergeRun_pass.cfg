CONSTANTS
    Calls = {1, 2, 3}
    None = None
SPECIFICATION FairSpec
ACTION_CONSTRAINT InOrder
INVARIANTS TypeOK NothingLost
PROPERTIES KeepsPromise EventuallyRun
CHECK_DEADLOCK FALSE
