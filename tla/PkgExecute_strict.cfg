SPECIFICATION Spec
CONSTANTS
    a1 = a1  a2 = a2  b1 = b1  c1 = c1
    f1 = f1  f2 = f2  f3 = f3
    a = a  b = b  c = c
    None = None  Absent = Absent  User = User  Partial = Partial
    Name = {a, b, c}
    Pkg = {a1, a2, b1, c1}
    File = {f1, f2, f3}
    NameOf <- MCNameOf
    FilesOf <- MCFilesOf
    DepsOf <- MCDepsOf
    Archives = {a2, b1, c1}
    SelfName = c
    Initial = {a1}
    InitialLocked = {}
    ForceFlag = FALSE
    AcceptMissing = FALSE
    Permissive = FALSE
    Splits = FALSE
    MaxJobs = 2
    MaxCommands = 3
    MaxFailures = 2
    MaxEdits = 1
INVARIANTS
    OwnedIntact
    NoPartialRegistration
    NoStrayFiles
CHECK_DEADLOCK FALSE
