SPECIFICATION Spec
CONSTANTS
    p1 = p1
    p2 = p2
    Workers = {w1, w2}
    ProductIds = {p1, p2}
    Catalogs <- PairCatalogs
    BatchSize = 2
    ListLimit = 1
    MaxRequests = 2
    MaxCrashes = 1
    Faults = {"storage", "vector", "keyword", "raw"}
    VolatileVectors = FALSE
SYMMETRY WorkerSymmetry
INVARIANTS
    TypeOK
    StorageFirst
    ProgressBacked
    OkMeansIndexed
    ApartAgreement
PROPERTIES
    JobLifecycle
