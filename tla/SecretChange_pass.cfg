CONSTANTS
    Accounts = {a1, a2}
    Assets = {a1, a2}
    AssetOf <- OwnAsset
    Runs = {r1, r2}
    Ends = {s1, s2}
    Initial = Initial
    None = None
    Empty = {a2}
    Guarded = TRUE
    MaxFaults = 1
SYMMETRY Symmetry
SPECIFICATION Spec
ACTION_CONSTRAINTS EndsInTime EndsApart
INVARIANTS TypeOK HostSecretKnown OneRunUnlessUnguarded SuccessMeansInSync QueuedHasTask
CHECK_DEADLOCK FALSE
