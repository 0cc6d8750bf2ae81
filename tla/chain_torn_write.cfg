SPECIFICATION Spec
CONSTANTS
    Agents = {a1}
    Workers = {w1}
    None = None
    MaxCalls = 3
    MaxCrashes = 0
    WriteFaults = {"payload"}
    Tears = {}
    SaveFaults = FALSE
    QueueCap = 0
    SerialAgents = FALSE
INVARIANTS
    AnsweredStaysReadable
CHECK_DEADLOCK FALSE
