SPECIFICATION Spec
CONSTANTS
    p1 = p1
    p2 = p2
    Reader <- Readers
    INPUT_BUF_SIZE = 3
    FIFO = 2
    MAXREAD = 2
    MAXTYPED = 4
INVARIANTS
    TypeOK
    InOrder
PROPERTIES
    LineReturns
    InputTaken
CHECK_DEADLOCK FALSE
