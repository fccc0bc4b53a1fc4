SPECIFICATION FairSpec
CONSTANTS
    f1 = f1
    f2 = f2
    r1 = r1
    r2 = r2
    r3 = r3
    None = None
    Replicas = {f1, f2}
    Runs = {r1, r2, r3}
    HistoryLimit = 2
    MaxAttempts = 2
    MaxAdded = 5
    MaxFailures = 1
CHECK_DEADLOCK FALSE
INVARIANTS TypeOK NoLostUpdate HistoryIsDistinct RecordedIsCounted RepeatsAreApart
PROPERTIES EventuallyRecorded ImplementsLedger
