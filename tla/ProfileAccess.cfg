SPECIFICATION FairSpec
CONSTANTS
    Pids = {p1, p2, p3}
    p1 = p1
    p2 = p2
    p3 = p3
    Commands <- OneCommand
    PidReuse = FALSE
    ReRequest = FALSE
    DiskFaults = TRUE
INVARIANT Exclusive
PROPERTY ImplementsLock
PROPERTY StaleNeverBlocks
CHECK_DEADLOCK FALSE
