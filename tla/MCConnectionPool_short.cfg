\* More threads than connections: threads are refused or wait.
SPECIFICATION FairSpec
CONSTANTS
    t1 = t1
    t2 = t2
    t3 = t3
    t4 = t4
    c1 = c1
    c2 = c2
    NoConn = NoConn
    Threads <- FourThreads
    Conns <- TwoConns
INVARIANTS IInv EnoughForAll
PROPERTIES WaitersServed ImplementsResourcePool ImplementsSemaphore
