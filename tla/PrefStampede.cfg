\* Eviction between a release and the resumption of the next waiter.
CONSTANTS
    m1 = m1
    m2 = m2
    c1 = c1
    c2 = c2
    c3 = c3
    l1 = l1
    l2 = l2
    l3 = l3
    l4 = l4
    l5 = l5
    None = None
    Member <- TwoMembers
    Coroutine <- ThreeCoroutines
    Lock <- FiveLocks
    CacheMax = 1
    CacheTtl = 0
    MaxTime = 2
    Cancellation = FALSE
SPECIFICATION LoopSpec
SYMMETRY Symmetry
INVARIANTS
    ComputeOnce
