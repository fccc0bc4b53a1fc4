SPECIFICATION Spec
CONSTANTS
    f1 = f1
    f2 = f2
    r1 = r1
    r2 = r2
    r3 = r3
    None = None
    Replicas = {f1}
    Runs = {r1, r2, r3}
    HistoryLimit = 2
    MaxAttempts = 2
    MaxAdded = 4
    MaxFailures = 1
SYMMETRY MCSymmetry
CHECK_DEADLOCK FALSE
INVARIANT DuplicatesAreSkipped
