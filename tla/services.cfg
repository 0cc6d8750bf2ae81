SPECIFICATION ServicesSpec
CONSTANTS
    Handlers = {s1, g1, m1}
    SdkHandlers = {s1}
    GrpcHandlers = {g1}
    HealthWatches = {x1}
    MaxDecisions = 1
    ChannelCap = 1
    StdioCallers = {c1}
    HttpCallers = {c2}
    McpLines <- SomeLines
    McpEffects = {"PERMIT", "SHADOW_PERMIT", "DENY", "DEFER"}
    MaxLines = 2
    MaxEcho = 1
    SdkConns = {k1, k2}
    SdkTokens = 2
    SubBuffer = 1
    RateBurst = 1
    MaxRequests = 3
    CallbackIDs = {i1, i2}
    Panicking = {i1}
    Firers = {f1}
    CbWorkers = {w1}
    CbQueue = 2
    MaxFires = 2
    MaxEdits = 3
    FanAgents = {a1, a2}
    Waiters = {v1, v2}
    GatePolicies <- SomeGates
    MaxUpdates = 3
    AggregateMax = 2
    Slices = {1, 2}
    Costs = {1, 3}
    MaxCharges = 3
INVARIANTS
    StopSafe
    McpSafe
    FanOutsHold
    BooksBalance
PROPERTIES
    StopEnds
    EveryLineIsAnswered
    NobodyIsBlocked
CHECK_DEADLOCK FALSE
