\* Two turns; a turn of one worker can outgrow the window.
CONSTANTS
    Cap = 4
    MaxRouting = 2
    RecursionLimit = 8
    MaxCalls = 2
    Faults = TRUE
    MaxTurns = 2
SPECIFICATION Spec
INVARIANTS
    TypeOK
    WholeTurnSeen
    CallsKeepResults
    LoopStopsItself
    CheckedAgainstThisTurn
PROPERTIES
    ChargedOnce
