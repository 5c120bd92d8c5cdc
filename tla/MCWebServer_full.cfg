\* Proactor mode; requests may outlive their timers and workers close.
SPECIFICATION Spec
CONSTANTS
    w1 = w1
    w2 = w2
    Fds <- TwoFds
    Workers <- TwoWorkers
    BlockSize = 2
    MAX_FD = 2
    QueueCap = 1
    Life = 1
    Reactor = FALSE
    WorkersMayClose = TRUE
    SlowWorkers = TRUE
    MaxAccept = 3
    MaxBlocks = 1
INVARIANTS TimerBound CountNeverAbove
SYMMETRY Symmetry
