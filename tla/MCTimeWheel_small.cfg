\* A wheel of three slots, so that timers wait for further turns.
SPECIFICATION FairSpec
CONSTANTS
    BlockSize = 2
    N = 3
    SI = 1
    TIMESLOT = 2
    MaxBlocks = 1
    MaxDelay = 1
    Timeouts <- ShortTimeouts
    MaxTimeout = 7
INVARIANTS IInv
PROPERTIES NeverEarly ImplementsTimerService EveryTimerEnds
