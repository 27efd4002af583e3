\* One turn whose answer names no candidate, while nothing fails.
CONSTANTS
    p1 = p1
    p2 = p2
    Product <- TwoProducts
    Long <- OneLong
    PriceOf <- TwoPrices
    Quoted <- OneQuoted
    Price <- ThreePrices
    K = 2
    TopN = 1
    Candidates = 2
    Rerank = TRUE
    Clip = TRUE
    Bm25 = TRUE
    Faults = FALSE
    MaxDistance = 2
    MaxTurns = 1
SPECIFICATION Spec
INVARIANTS
    UnrelatedAnswersAreRetried
