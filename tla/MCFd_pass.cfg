SPECIFICATION Spec
CONSTANTS
    NPROC = 2
    NFD = 2
    NOFILE = 2
    Inode <- Files
    Pipe <- Pages
    MAXREF = 3
    MAXCOUNT = 2
    NULL = NULL
    i1 = i1
    x1 = x1
INVARIANTS
    TypeOK
    PipeAlive
    InodeCounted
CHECK_DEADLOCK FALSE
