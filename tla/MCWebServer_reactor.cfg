\* Reactor mode; no request outlives its timer, every answer fits.
SPECIFICATION FairSpec
CONSTANTS
    w1 = w1
    w2 = w2
    Fds <- TwoFds
    Workers <- TwoWorkers
    BlockSize = 2
    MAX_FD = 2
    QueueCap = 1
    Life = 1
    Reactor = TRUE
    WorkersMayClose = FALSE
    SlowWorkers = FALSE
    MaxAccept = 3
    MaxBlocks = 1
INVARIANTS PoolSound NoOrphanTimer OneOwner ReplyToItsOwner CountExact
PROPERTIES NeverForgotten
