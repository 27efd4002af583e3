\* The cache holds every member: the stampede defence, with cancelled calls.
CONSTANTS
    m1 = m1
    m2 = m2
    c1 = c1
    c2 = c2
    c3 = c3
    l1 = l1
    l2 = l2
    l3 = l3
    l4 = l4
    l5 = l5
    None = None
    Member <- TwoMembers
    Coroutine <- ThreeCoroutines
    Lock <- FiveLocks
    CacheMax = 2
    CacheTtl = 1
    MaxTime = 3
    Cancellation = TRUE
SPECIFICATION Spec
SYMMETRY Symmetry
INVARIANTS
    TypeOK
    ComputeOnce
    LockDiscipline
    ComputedIsMissing
