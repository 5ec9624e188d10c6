CONSTANTS
    NoTask = NoTask
    NoSession = NoSession
    Sessions = {s1}
    Tasks = {t1}
    Transports = {"rest"}
    ActiveTTL = 2
    TaskWindow = 2
    MaxFaults = 0
SPECIFICATION UncleanedSpec
PROPERTIES KillTakesEffect
CHECK_DEADLOCK FALSE
