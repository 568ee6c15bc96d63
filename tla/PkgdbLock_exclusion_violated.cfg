SPECIFICATION Spec
CONSTANTS
    p1 = p1
    p2 = p2
    Proc = {p1, p2}
    Unprivileged = {}
    READ_LOCK = FALSE
    LOCK_WAIT = 1
    LOCK_RETRIES = 1
    Packages = 1
    Commands = {"jobs"}
    MaxStarts = 2
    MaxFailures = 0
INVARIANT MutualExclusion
CHECK_DEADLOCK FALSE
