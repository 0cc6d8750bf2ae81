SPECIFICATION Spec
CONSTANTS
    Requesters = {r1, r2}
    Calls = {k1, k2}
    None = None
    Timeout = 1
    MaxTime = 0
    MaxRuleChanges = 1
    MaxRestarts = 0
    SingleUse = TRUE
SYMMETRY Symmetry
INVARIANTS
    NoRunWithoutApproval
    WaitAgreesWithStatus
PROPERTIES
    ImplementsDeferOnce
CHECK_DEADLOCK FALSE
