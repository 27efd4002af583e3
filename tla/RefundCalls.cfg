\* Calls that overlap, failures and a restart, with Redis.
CONSTANTS
    r1 = r1
    r2 = r2
    r3 = r3
    r4 = r4
    o1 = o1
    o2 = o2
    o3 = o3
    None = None
    Request <- ThreeRequests
    Order <- ThreeOrders
    Own <- TwoOwnOrders
    MaxCalls = 2
    RedisConfigured = TRUE
    OneAtATime = FALSE
    Faults = TRUE
    MaxRestarts = 1
SPECIFICATION Spec
SYMMETRY Symmetry
INVARIANTS
    TypeOK
    OneRefundPerApproval
    NoticesMatchRegistrations
