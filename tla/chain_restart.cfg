SPECIFICATION Spec
CONSTANTS
    Agents = {a1}
    Workers = {w1}
    None = None
    MaxCalls = 3
    MaxCrashes = 1
    WriteFaults = {}
    Tears = {}
    SaveFaults = FALSE
    QueueCap = 0
    SerialAgents = FALSE
INVARIANTS
    ChainSurvivesRestart
CHECK_DEADLOCK FALSE
