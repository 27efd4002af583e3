\* Two requests on one pool connection, through start, drain and crash.
CONSTANTS
    r1 = r1
    r2 = r2
    None = None
    Direct = Direct
    Boot = Boot
    Request <- TwoRequests
    Worker <- TwoRequests
    Kinds <- SomeKinds
    PoolMax = 1
    MaxChunks = 1
    MaxStarts = 1
    RedisConfigured = TRUE
    McpEnabled = TRUE
SPECIFICATION Spec
INVARIANTS
    TypeOK
    PoolAccounted
    OneMemory
    StreamInOrder
PROPERTIES
    LeaseSpec
    OneToolSet
    EverythingEnds
CHECK_DEADLOCK FALSE
