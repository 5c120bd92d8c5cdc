\* Two workers, two descriptors, two connections.
SPECIFICATION Spec
CONSTANTS
    f1 = f1
    f2 = f2
    w1 = w1
    w2 = w2
    c1 = c1
    c2 = c2
    NULL = NULL
    Fds <- TwoFds
    Workers <- TwoWorkers
    Conns <- TwoConns
INVARIANTS NothingLost
SYMMETRY Symmetry
