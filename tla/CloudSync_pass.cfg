CONSTANTS
    Instances = {i1, i2}
    Names = {n1, n2}
    Addrs = {x1, x2}
    Assets = {a1, a2, a3}
    Keyed = {k1}
    Tasks = {t1}
    None = None
    Suffixed <- MCSuffixed
    MaxChanges = 1
    MaxFaults = 1
SYMMETRY Symmetry
SPECIFICATION Spec
INVARIANTS TypeOK LeftOver
PROPERTIES SuccessIsCurrent
CHECK_DEADLOCK FALSE
