CONSTANTS
    t1 = t1
    t2 = t2
    Tokens = {t1, t2}
    None = None
    Reusable = TRUE
    OneTime = 1
    ReusableTTL = 2
    Fresh = 1
    Keep = 0
    MaxTime = 2
    Requests = {r1}
    AdminIds = {t1}
    Serial = TRUE
SPECIFICATION Spec
INVARIANTS TypeOK SpentOnce ApprovedIsActive WithheldUntilDecided
PROPERTIES ExpiredIsFinal RevocationDelayed
ACTION_CONSTRAINT OverruledOnce
CHECK_DEADLOCK FALSE
