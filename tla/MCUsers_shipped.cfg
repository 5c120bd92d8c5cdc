\* The table of init.sql, queries that may fail and a Redis that comes and goes.
SPECIFICATION Spec
CONSTANTS
    w1 = w1
    w2 = w2
    alice = alice
    bob = bob
    pa = pa
    pb = pb
    k1 = k1
    k2 = k2
    NULL = NULL
    Workers <- TwoWorkers
    Names <- TwoNames
    Passwds <- TwoPasswds
    MaxRequests = 3
    Tokens <- TwoTokens
    MaxBreaks = 2
INVARIANTS SessionHasUser LoginHasRow ConfirmedLogsIn OneFailurePerBreak
PROPERTIES PasswordStays
SYMMETRY Symmetry
