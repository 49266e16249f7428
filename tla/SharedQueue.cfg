CONSTANTS
    Tasks = {j1, j2}
    NoTask = NoTask
    Threads = {w1, w2, w3, w4}
    Sizes = {0, 1, 2}
    MaxClones = 2
    MaxDepth = 2
    OsFails = TRUE
SPECIFICATION PoolFairSpec

    
    
PROPERTY JobsEnd
CHECK_DEADLOCK FALSE
