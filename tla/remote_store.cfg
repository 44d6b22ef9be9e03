SPECIFICATION Spec
CONSTANTS
    p1 = p1
    p2 = p2
    ProductIds = {p1, p2}
    Threads = {t1, t2}
    Backends = {"qdrant", "pgvector"}
    Lists <- SomeLists
    MaxCalls = 3
    MaxRestarts = 1
SYMMETRY ThreadSymmetry
INVARIANTS TypeOK Usable ConnectionsBounded
PROPERTIES Implements
CHECK_DEADLOCK FALSE
