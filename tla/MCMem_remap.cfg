SPECIFICATION Spec
CONSTANTS
    NPROC = 3
    NPAGES = 30
    NUSER = 2
    MAXARGS = 1
    MAXPIPES = 2
INVARIANTS
    NoRemap
CHECK_DEADLOCK FALSE
