CONSTANTS
    ann = ann
    bob = bob
    cid = cid
    Users = {ann, bob, cid}
    Applicant = ann
    Last = 2
    Rules <- TwoLevels
    Requests = {r1, r2}
SPECIFICATION Spec
INVARIANTS ApprovedByAllLevels
CHECK_DEADLOCK FALSE
