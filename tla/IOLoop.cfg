CONSTANTS
    Workers = {w1, w2, w3}
    MAX_THREAD_COUNT = 2
    Generations = 2
    MaxQueued = 2
    WaitFaults = {"creating", "incRead", "incWrite", "serving", "posting", "polling"}
SPECIFICATION FairSpec
CHECK_DEADLOCK FALSE
INVARIANTS TypeOK ReleaseJoins LeavesOwnLoop CountCovers
PROPERTIES PoolSpec ReleaseReturns
