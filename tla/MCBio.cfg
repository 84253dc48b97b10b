SPECIFICATION BioSpec
CONSTANTS
    Lba <- Lbas
    Buf <- Buffers
    Block0 <- First
    Empty = 98
    Junk = 99
    POLLS = 1
    OPTRIES = 2
    HELD = 2
    NULL = NULL
INVARIANTS
    BioTypeOK
    Uncrossed
    SpinsByLeak
VIEW
    View
CHECK_DEADLOCK FALSE
