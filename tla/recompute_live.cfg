SPECIFICATION FairSpec
CONSTANTS
    r1 = r1
    r2 = r2
    p1 = p1
    d1 = d1
    c1 = c1
    c2 = c2
    RowIds = {r1, r2}
    Passes = {p1}
    DirectRuns = {d1}
    Clients = {c1, c2}
    Recruitments = {}
    MaxAttempts = 2
    MaxChanges = 1
    Faults = {"call", "reply", "save"}
    AdminMayRetry = TRUE
    NoRow = NoRow
PROPERTIES
    BudgetedRowEnds
CHECK_DEADLOCK FALSE
