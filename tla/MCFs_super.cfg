SPECIFICATION Spec
CONSTANTS
    sh = sh
    f = f
    v = v
    w = w
    h1 = h1
    h2 = h2
    NINODE = 2
    NINUM = 4
    NBLOCK = 4
    NDIRECT = 2
    DIRCAP = 3
    Name <- Names
    Value <- Values
    Handle <- Handles
    SH = sh
    MAXCOUNT = 2
    NULL = NULL
INVARIANTS
    SuperIntact
SYMMETRY Symmetry
CHECK_DEADLOCK FALSE
