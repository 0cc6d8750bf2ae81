SPECIFICATION Spec
CONSTANTS
    Daemons = {d1}
    Calls = {c1}
    None = None
    Faults = {"outage"}
    Budgets <- NoLimit
    CostUSD = 1
    MaxHistory = 1
    MaxDays = 1
    MaxFaults = 1
    MaxRestarts = 0
    MaxKills = 1
SYMMETRY Symmetry
INVARIANTS
    KillHolds
CHECK_DEADLOCK FALSE
