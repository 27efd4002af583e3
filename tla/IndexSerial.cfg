\* Callers that wait for one job before the next, failing dependencies, one restart.
CONSTANTS
    p1 = p1
    p2 = p2
    j1 = j1
    j2 = j2
    j3 = j3
    None = None
    Product <- TwoProducts
    Job <- ThreeJobs
    JobKinds <- AllJobs
    Parts <- ShortOrTwoChunks
    Threshold = 2
    Overlap = 1
    Bm25 = TRUE
    OneAtATime <- TwoProducts
    Faults = TRUE
    MaxEdits = 3
    MaxRestarts = 1
SPECIFICATION Spec
SYMMETRY Symmetry
INVARIANTS
    TypeOK
    InSync
    NoOrphanChunk
