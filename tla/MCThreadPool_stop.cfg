\* Does stop() return?
SPECIFICATION FairSpec
CONSTANTS
    w1 = w1
    w2 = w2
    w3 = w3
    Workers <- TwoWorkers
    max_requests = 1
    MaxTasks = 1
PROPERTIES StopReturns
