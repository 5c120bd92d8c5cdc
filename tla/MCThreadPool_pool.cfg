\* Three workers and a queue of two: it fills up, drains and is stopped.
SPECIFICATION FairSpec
CONSTANTS
    w1 = w1
    w2 = w2
    w3 = w3
    Workers <- ThreeWorkers
    max_requests = 2
    MaxTasks = 4
INVARIANTS UsedWhileAlive InOnePlace NoLostWakeup DrainedWhenStopped
PROPERTIES AcceptedProcessed
