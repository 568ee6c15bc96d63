CONSTANTS
    a = a  b = b
    p1 = p1  p2 = p2
    i1 = i1  i2 = i2  i3 = i3
    NoPkg = NoPkg  NoFile = NoFile  NoProc = NoProc
    Proc = {p1}
    Origin = {a, b}
    Cksum = {1, 2}
    Published = 3
    MaxUpdates = 3
    Content <- MCContent
    Inode = {i1, i2}
SPECIFICATION FairSpec
PROPERTY UpdateReturns
CHECK_DEADLOCK FALSE
