SPECIFICATION FairSpec
CONSTANTS
    t1 = t1
    t2 = t2
    b1 = b1
    b2 = b2
    b3 = b3
    Nil = Nil
    Threads <- TwoThreads
    Blocks <- ThreeBlocks
    Lists <- TwoLists
    Bucket <- SharedBucket
    max_cache_mem = 4
    Plans <- SmallPlans
INVARIANTS ListsWellFormed OnListIffEvictable  ChunksPlaced
PROPERTIES OperationsEnd
CHECK_DEADLOCK FALSE
