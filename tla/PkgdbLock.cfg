SPECIFICATION FairSpec
CONSTANTS
    p1 = p1
    p2 = p2

    u1 = u1
    Proc = {p1, p2, u1}
    Unprivileged = {u1}
    READ_LOCK = TRUE
    LOCK_WAIT = 1
    LOCK_RETRIES = 1
    Packages = 1
    Commands = {"reader", "jobs", "check"}
    MaxStarts = 3
    MaxFailures = 1
INVARIANTS
    RowCoversHolders
    QuietMeansUnlocked
PROPERTIES
    ServiceImplemented
    CallReturns
    StaleLockRecovered
CHECK_DEADLOCK FALSE
