SPECIFICATION FairSpec
CONSTANTS
    c0 = c0
    c1 = c1
    CPU <- OneCPU
    CPU0 = c0
    NPROC = 3
    MAXPID = 4
    Orphaning = FALSE
    CONS = CONS
    INODE = INODE
    NULL = NULL
INVARIANTS
    PidsUnique
    NoLostExit
    ExitNeverReturns
PROPERTIES
    ReadyKept
    RunnableRuns
    WaitReturns
CHECK_DEADLOCK FALSE
