SPECIFICATION FairSpec
CONSTANTS
    Requesters = {r1, r2}
    Calls = {k1}
    None = None
    Timeout = 1
    MaxTime = 0
    MaxRuleChanges = 0
    MaxRestarts = 1
    SingleUse = FALSE
INVARIANTS
    TypeOK
    OneWinner
PROPERTIES
    EveryDeferIsDecided
    EveryWaitEnds
CHECK_DEADLOCK FALSE
