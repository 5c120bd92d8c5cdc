\* Two threads log over midnight.
SPECIFICATION FairSpec
CONSTANTS
    w1 = w1
    w2 = w2
    Writers <- TwoWriters
    MaxLines = 2
    MaxDay = 2
    m_split_lines = 2
    OpenFails = FALSE
INVARIANTS OnceInOrder NoClosedFile Durable
PROPERTIES AllWritten
