\* Two members race, retry, fail and restart on two sessions, with Redis.
CONSTANTS
    m1 = m1
    m2 = m2
    r1 = r1
    r2 = r2
    r3 = r3
    s1 = s1
    s2 = s2
    i1 = i1
    None = None
    Member <- TwoMembers
    Session <- TwoSessions
    Request <- TwoRequests
    Waiting = {}
    RequestId <- OneId
    Kinds <- TurnsAndSessions
    RedisConfigured = TRUE
    Faults = TRUE
    MaxMessages = 2
    MaxHistory = 1
    MaxEvents = 1
SPECIFICATION Spec
SYMMETRY Symmetry
INVARIANTS
    TypeOK
    OneWinnerPerKey
    RowsOfAnsweredTurns
    MemoryIsolation
    SourcesAgree
    SourcesAreFresh
PROPERTIES
    DeletedStaysOutOfReach
