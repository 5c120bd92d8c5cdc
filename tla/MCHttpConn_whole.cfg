\* Requests cut anywhere but within the body, answers anywhere but twice within the
\* head.
SPECIFICATION FairSpec
CONSTANTS
    Requests <- AllRequests
    BodyCut = FALSE
    READ_BUFFER_SIZE = 11
    Codes <- PagesAndMessages
    WRITE_BUFFER_SIZE = 5
    MaxHead = 2
    MaxBody = 2
    HeadInTwo = TRUE
INVARIANTS Recognised HandsOverRequest InOrder KeptWhenWhole
PROPERTIES ParseEnds
