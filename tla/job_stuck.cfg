SPECIFICATION FairSpec
CONSTANTS
    p1 = p1
    p2 = p2
    Workers = {w1}
    ProductIds = {p1, p2}
    Catalogs <- SomeCatalogs
    BatchSize = 1
    ListLimit = 2
    MaxRequests = 2
    MaxCrashes = 0
    Faults = {"raw"}
    VolatileVectors = TRUE
PROPERTIES
    JobsTerminate
