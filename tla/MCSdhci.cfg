SPECIFICATION Spec
CONSTANTS
    b1 = b1
    Lba <- Lbas
    Buf <- Buffers
    Block0 <- First
    Empty = 0
    Junk = 99
    POLLS = 1
    OPTRIES = 2
    NULL = NULL
INVARIANTS
    TypeOK
    WriteStored
    InitAgrees
PROPERTIES
    ReadTruth
    Returns
CHECK_DEADLOCK FALSE
