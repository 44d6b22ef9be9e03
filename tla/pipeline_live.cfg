SPECIFICATION FairSpec
CONSTANTS
    p1 = p1
    p2 = p2
    Workers = {w1, w2}
    ProductIds = {p1, p2}
    Catalogs <- SomeCatalogs
    BatchSize = 1
    ListLimit = 2
    MaxRequests = 2
    MaxCrashes = 0
    Faults = {"vector", "keyword"}
    VolatileVectors = TRUE
PROPERTIES
    RequestsAnswered
    JobsTerminate
