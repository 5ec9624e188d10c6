CONSTANTS
    Instances = {i1, i2}
    Names = {n1}
    Addrs = {x1, x2}
    Assets = {a1, a2, a3}
    Keyed = {k1}
    Tasks = {t1}
    None = None
    Suffixed <- MCSuffixed
    MaxChanges = 0
    MaxFaults = 0
SPECIFICATION Spec

PROPERTIES RepeatSucceeds
CHECK_DEADLOCK FALSE
