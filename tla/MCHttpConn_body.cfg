\* A body that arrives in pieces.
SPECIFICATION Spec
CONSTANTS
    Requests <- Posts
    BodyCut = TRUE
    READ_BUFFER_SIZE = 11
    Codes <- Messages
    WRITE_BUFFER_SIZE = 6
    MaxHead = 1
    MaxBody = 1
    HeadInTwo = TRUE
INVARIANTS Recognised
