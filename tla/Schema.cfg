CONSTANTS
    Procs = {p, q}
    Starts = {Absent, 0, 10, 11, 18, 23, 27, 30, 1000}
    Absent = Absent
    MaxCrashes = 1
    MaxOpens = 2
    RepoProcs = {r, s}
    RepoStarts = {NoFile, 2, 3, 1999, 2003, 2008, 2010, 2011, 3000}
    NoFile = NoFile
    MaxRepoOpens = 2
    MaxRepoCrashes = 1
SYMMETRY Symmetric
SPECIFICATION MCSpec
INVARIANTS UpgradeComplete DataKept  RepoWhole
PROPERTIES StaleUpgradeRefused
CHECK_DEADLOCK FALSE
