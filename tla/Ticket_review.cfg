CONSTANTS
    ann = ann
    bob = bob
    cid = cid
    Users = {ann, bob, cid}
    Applicant = ann
    Last = 3
    Rules <- ThreeLevels
    Requests = {r1, r2}
SPECIFICATION Spec
INVARIANTS TypeOK ApprovedUnlessOvertaken NoLevelJumped
PROPERTIES ClosedIsFinal KeepsPromise
CHECK_DEADLOCK FALSE
