SPECIFICATION Spec
CONSTANTS
    Requesters = {r1}
    Calls = {k1}
    None = None
    Timeout = 1
    MaxTime = 1
    MaxRuleChanges = 0
    MaxRestarts = 0
    SingleUse = TRUE
INVARIANTS
    ApprovedCallRuns
CHECK_DEADLOCK FALSE
