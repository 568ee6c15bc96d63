SPECIFICATION FairSpec
CONSTANTS
    a = a  b = b  d = d  e = e
    p1 = p1  p2 = p2
    Proc = {p1, p2}
    Package = {a, b}
    Document = {d, e}
    SizeOf <- MCSizeOf
    Confs <- MCConfs
    Zones <- MCZones
    HttpMirrors = 3
    Inode = {i1, i2, i3, i4}
    None = None  Hole = Hole
    MaxCalls = 2
    MaxFaults = 1
INVARIANTS
    FetchedIsVerified
    AnswersMatch
    

    
CHECK_DEADLOCK FALSE
