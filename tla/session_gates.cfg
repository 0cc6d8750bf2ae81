SPECIFICATION Spec
CONSTANTS
    Daemons = {d1, d2}
    Calls = {c1, c2}
    None = None
    Faults = {"outage", "lost_reply", "store", "wal"}
    Budgets <- OneLimit
    CostUSD = 1
    MaxHistory = 1
    MaxDays = 2
    MaxFaults = 1
    MaxRestarts = 1
    MaxKills = 1
SYMMETRY Symmetry
INVARIANTS
    TypeOK
    CallsAreBounded
    BudgetsHold
    HistoryIsFresh
    StoredKillHolds
CHECK_DEADLOCK FALSE
