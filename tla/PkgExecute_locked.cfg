SPECIFICATION Spec
CONSTANTS
    a1 = a1  a2 = a2  b1 = b1  c1 = c1
    f1 = f1  f2 = f2  f3 = f3
    a = a  b = b  c = c
    None = None  Absent = Absent  User = User  Partial = Partial
    Name = {a, b, c}
    Pkg = {a1, a2, b1, c1}
    File = {f1, f2, f3}
    NameOf <- MCNameOf
    FilesOf <- MCFilesMove
    DepsOf <- MCDepsMove
    Archives = {a2, b1}
    SelfName = c
    Initial = {a1, c1}
    InitialLocked = {c1}
    ForceFlag = TRUE
    AcceptMissing = TRUE
    Permissive = FALSE
    Splits = TRUE
    MaxJobs = 3
    MaxCommands = 2
    MaxFailures = 1
    MaxEdits = 1
PROPERTY
    LockedUntouched
CHECK_DEADLOCK FALSE
