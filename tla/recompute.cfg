SPECIFICATION Spec
CONSTANTS
    r1 = r1
    r2 = r2
    r3 = r3
    p1 = p1
    c1 = c1
    c2 = c2
    RowIds = {r1, r2, r3}
    Passes = {p1}
    DirectRuns = {}
    Clients = {c1, c2}
    Recruitments = {}
    MaxAttempts = 3
    MaxChanges = 3
    Faults = {"call", "claim", "crash"}
    AdminMayRetry = FALSE
    NoRow = NoRow
SYMMETRY Symmetry
INVARIANTS
    TypeOK
    OneActivePerScope
    
CHECK_DEADLOCK FALSE
