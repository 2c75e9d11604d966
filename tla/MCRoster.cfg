SPECIFICATION Spec
CONSTANTS
    p1 = p1
    p2 = p2
    p3 = p3
    Players = {p1, p2, p3}
    Maps = {0, 1}
    Saved <- MCSaved
    Positions = {"a", "b"}
    Unknown = "unknown"
    NoOne = NoOne
    MaxLinks = 3
    Budgets <- MCBudgets
    MaxBusy = 2
CHECK_DEADLOCK FALSE
INVARIANTS
    TypeOK
    RefsCounted
    ListsComplete
    ViewsAgree
PROPERTIES
    WalksEnd
