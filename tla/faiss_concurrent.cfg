SPECIFICATION Spec
CONSTANTS
    p1 = p1
    p2 = p2
    ProductIds = {p1, p2}
    Writers = {w1}
    Readers = {r1}
    Probers = {h1}
    Lists <- SomeLists
    TopK = 2
    Gated = TRUE
    Faults = TRUE
    MaxCalls = 5
    MaxCrashes = 1
INVARIANTS TypeOK CallContract FreshHits MapsAgree
PROPERTIES Implements
CONSTRAINT Bound
CHECK_DEADLOCK FALSE
