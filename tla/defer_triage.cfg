SPECIFICATION FairSpec
CONSTANTS
    Requests = {r1, r2}
    Nobody = Nobody
PROPERTIES
    EveryDeferIsDecided
CHECK_DEADLOCK FALSE
