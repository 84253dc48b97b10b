SPECIFICATION Spec
CONSTANTS
    NPROC = 2
    NFD = 3
    NOFILE = 2
    Inode <- Files
    Pipe <- Pages
    MAXREF = 2
    MAXCOUNT = 2
    NULL = NULL
    i1 = i1
    x1 = x1
INVARIANTS
    HandleOpen
CHECK_DEADLOCK FALSE
