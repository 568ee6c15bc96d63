SPECIFICATION Spec
CONSTANTS
    p1 = p1
    p2 = p2
    p3 = p3
    Proc = {p1, p2, p3}
    Rivals = {"add", "delete", "info"}
    READ_LOCK = TRUE
SYMMETRY Symmetry
INVARIANTS
    
    WriteUnderLock
    
PROPERTY ServiceImplemented
CHECK_DEADLOCK FALSE
