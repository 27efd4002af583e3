\* A client that waits for each answer; the model calls the tool twice.
CONSTANTS
    r1 = r1
    r2 = r2
    r3 = r3
    r4 = r4
    o1 = o1
    o2 = o2
    o3 = o3
    None = None
    Request <- ThreeRequests
    Order <- TwoOwnOrders
    Own <- TwoOwnOrders
    MaxCalls = 1
    RedisConfigured = TRUE
    OneAtATime = TRUE
    Faults = FALSE
    MaxRestarts = 0
SPECIFICATION Spec
SYMMETRY Symmetry
INVARIANTS
    AskedBeforeRegistered
