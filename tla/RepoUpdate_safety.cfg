CONSTANTS
    a = a  b = b
    p1 = p1  p2 = p2
    i1 = i1  i2 = i2  i3 = i3
    NoPkg = NoPkg  NoFile = NoFile  NoProc = NoProc
    Proc = {p1, p2}
    Origin = {a, b}
    Cksum = {1, 2}
    Published = 3
    MaxUpdates = 2
    Content <- MCContent
    Inode = {i1, i2, i3}
SPECIFICATION Spec
INVARIANTS UpdateIsExact CatalogueWhole UpToDateIsCurrent
CHECK_DEADLOCK FALSE
SYMMETRY Symmetry
VIEW Relevant
