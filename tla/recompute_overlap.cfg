SPECIFICATION Spec
CONSTANTS
    r1 = r1
    r2 = r2
    r3 = r3
    p1 = p1
    p2 = p2
    c1 = c1
    RowIds = {r1, r2, r3}
    Passes = {p1, p2}
    DirectRuns = {}
    Clients = {c1}
    Recruitments = {"rec1"}
    MaxAttempts = 2
    MaxChanges = 1
    Faults = {"call", "reply", "claim", "finalise", "crash"}
    AdminMayRetry = FALSE
    NoRow = NoRow
SYMMETRY Symmetry
INVARIANTS
    OneHolder
PROPERTIES
    RetryHistoryKept
CHECK_DEADLOCK FALSE
