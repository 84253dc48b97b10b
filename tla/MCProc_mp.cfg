SPECIFICATION Spec
CONSTANTS
    c0 = c0
    c1 = c1
    CPU <- TwoCPUs
    CPU0 = c0
    NPROC = 2
    MAXPID = 3
    Orphaning = TRUE
    CONS = CONS
    INODE = INODE
    NULL = NULL
INVARIANTS
    TypeOK
    Exclusive
    LockDiscipline
PROPERTIES
    RoundRobin
CHECK_DEADLOCK FALSE
