\* A client that waits for its answers, with failures, hang-ups and a restart of MemorySaver.
CONSTANTS
    m1 = m1
    m2 = m2
    r1 = r1
    r2 = r2
    r3 = r3
    s1 = s1
    s2 = s2
    i1 = i1
    None = None
    Member <- OneMember
    Session <- OneSession
    Request <- ThreeRequests
    Waiting <- OneSession
    RequestId = {}
    Kinds <- TurnsAndDeletions
    RedisConfigured = FALSE
    Faults = TRUE
    MaxMessages = 2
    MaxHistory = 1
    MaxEvents = 1
SPECIFICATION SerialSpec
SYMMETRY Symmetry
INVARIANTS
    HistoryIsMemory
PROPERTIES
    ConversationSpec
