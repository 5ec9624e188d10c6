CONSTANTS
    NoTask = NoTask
    NoSession = NoSession
    Sessions = {s1}
    Tasks = {t1}
    Transports = {"ws"}
    ActiveTTL = 1
    TaskWindow = 1
    MaxFaults = 1
SPECIFICATION LiveSpec
PROPERTIES OrphanFinished TaskSettles
CHECK_DEADLOCK FALSE
