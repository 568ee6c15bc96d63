CONSTANTS
    Uid <- MCUid
    Item <- MCItem
    UidOf <- MCUidOf
    Path = {"p"}
    NoUid = NoUid
    NoItem = NoItem
    Starts <- MCStarts
    ForceMissing = FALSE
    RecursionLimit = 8
SPECIFICATION FairSpec
INVARIANTS DepsKept OnePerUid OnlyInstallsFail FlagsKept NeededKept JobsOrdered
PROPERTY Terminates
