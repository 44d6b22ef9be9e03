SPECIFICATION Spec
CONSTANTS
    p1 = p1
    p2 = p2
    Workers = {w1}
    ProductIds = {p1, p2}
    Catalogs <- SomeCatalogs
    BatchSize = 1
    ListLimit = 2
    MaxRequests = 3
    MaxCrashes = 1
    Faults = {"storage", "vector", "keyword", "raw"}
    VolatileVectors = TRUE
INVARIANTS
    SerialAgreement
