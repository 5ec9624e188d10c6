CONSTANTS
    NoTask = NoTask
    NoSession = NoSession
    Sessions = {s1}
    Tasks = {t1, t2}
    Transports = {"rest"}
    ActiveTTL = 1
    TaskWindow = 1
    MaxFaults = 1
SPECIFICATION Spec
INVARIANTS TypeOK LockedRowIsFresh LockAgrees
PROPERTIES FinishedIsFinal ReplayLostOnlyByCleaner
CHECK_DEADLOCK FALSE
SYMMETRY Symmetry
