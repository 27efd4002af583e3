\* Two turns over two products, all three searches on, everything may fail.
CONSTANTS
    p1 = p1
    p2 = p2
    Product <- TwoProducts
    Long <- OneLong
    PriceOf <- TwoPrices
    Quoted <- OneQuoted
    Price <- ThreePrices
    K = 3
    TopN = 1
    Candidates = 2
    Rerank = TRUE
    Clip = TRUE
    Bm25 = TRUE
    Faults = TRUE
    MaxDistance = 2
    MaxTurns = 2
SPECIFICATION Spec
INVARIANTS
    TypeOK
    FixedAnswersSurvive
    CheckedPricesMatchCards
    NoProductTwice
    SoldOutNeverRecommended
PROPERTIES
    AgreementWins
