SPECIFICATION Spec
CONSTANTS
    RrfK = 60
    VectorWeight = 6
    KeywordWeight = 4
    ProductIds = {p1, p2, p3}
    Brands = {"acme", "bolt"}
    Queries <- SomeQueries
    MaxScore = 3
    VectorCandidates = 3
    KeywordCandidates = 3
    RerankCandidates = 2
    RerankerWired = TRUE
    Faults = TRUE
    MaxWrites = 2
INVARIANTS ConsensusFirst ParetoOrder TypeOK OneMoment NoPromotion NothingHidden
CONSTRAINT Changes
SYMMETRY ProductSymmetry
CHECK_DEADLOCK FALSE
