SPECIFICATION Spec
CONSTANTS
    p1 = p1
    p2 = p2
    p3 = p3
    ProductIds = {p1, p2, p3}
    Builders = {b1, b2}
    Searchers = {s1}
    Texts = {"match", "other", "blank"}
    Catalogs <- SomeCatalogs
    TopK = 2
    MaxCalls = 4
INVARIANTS TypeOK Aligned CalmSearch
CHECK_DEADLOCK FALSE
